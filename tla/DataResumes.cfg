SPECIFICATION FairSpec
CONSTANTS
  Conns = {1, 2, 3, 4, 5}
  NoConn = 0
  MaxTroubles = 2
  Klines = {"main"}
  MainKlines = {"main"}
  Strategies = {}
  MaxRequests = 0
  Budget = 2
PROPERTY DataResumes
CHECK_DEADLOCK FALSE
