SPECIFICATION Spec
CONSTANTS
  Strategies = {"a", "b"}
  Accounts = {"acc"}
  AccountOf <- Shared
  ByHand = {"a"}
  Pids = {1, 2}
  Nobody = Nobody
  MaxRestarts = 1
PROPERTIES OnlyAskedSignalled
CHECK_DEADLOCK FALSE
