SPECIFICATION StorageSpec
CONSTANTS
  N = 2
  LastMinute = 4
  Listed = 1
  Page = 1
  Hour = 2
  MaxLost = 3
  MaxPushes = 2
  MaxFills = 1
  FilledMinute = 2
  FilledLost = 2
  Exchanges = {okx, binance}
  Accounts = {a, b}
  Strategies = {s}
  None = None
  MaxApis = 4
  MaxCommands = 5
INVARIANTS FillersFindHoles AccountsAgree OrdersOnConfiguredAccount
PROPERTIES BarsWhole
CHECK_DEADLOCK FALSE
