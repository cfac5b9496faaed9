SPECIFICATION FairSpec
CONSTANTS
  Strategies = {"a"}
  Accounts = {"acc"}
  AccountOf <- Shared
  ByHand = {"a"}
  Pids = {1, 2}
  Nobody = Nobody
  MaxRestarts = 1
PROPERTIES StatusCatchesUp
CHECK_DEADLOCK FALSE
