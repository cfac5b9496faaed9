SPECIFICATION PartsSpec
CONSTANTS
  Second = 2
  Keep = 5
  PerSecond = 2
  PerMinute = 3
  MaxNow = 12
  MaxStamps = 8
  Symbols = {"x", "y"}
  Accounts = {"okx", "binance"}
  Rows <- OneEach
  SymbolOf <- Self
  AccountOf <- Holder
  PollOrder <- BothAccounts
  CountsOrders = {"okx"}
  OmitsFlat = {"okx"}
  OrderValues = {1}
  CheckedValues = {0, 1, 2}
  MaxOrderValue = 1
  MaxPosition = 2
  MaxExposure = 2
  MaxOpenOrders = 2
  MaxOrders = 2
  MaxFailures = 1
  StartPositions = {0, 1}
  MaxLeft = 1
  MaxStart = 1
  Watched = {"a", "b"}
  Equities = {0, 1, 3}
  DrawdownPct = 50
  MaxDays = 2
  MaxReadings = 3
  Conns = {1, 2, 3, 4, 5, 6}
  NoConn = 0
  MaxTroubles = 4
  RecvWindow = 2
  Ahead = 2
  Timeout = 3
  Prompt = 1
  Skews <- EitherWay
  MaxMoves = 1
  MaxSlow = 1
INVARIANTS CachedNeverUnder FrequencyHeld AlertsExact DropNoticed ClockTroubleOnly
PROPERTIES ClearedWithinExposure CacheCatchesUp RejectionJustified FeedStreamsAgain ShutdownEnds
CHECK_DEADLOCK FALSE
