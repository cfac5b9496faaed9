SPECIFICATION MCSpec
CONSTANTS
  Conns = {1, 2, 3}
  NoConn = 0
  MaxTroubles = 2
  Klines = {"main", "x"}
  MainKlines = {"main"}
  Strategies = {"a", "b"}
  MaxRequests = 3
  Budget = 4
INVARIANTS NotCutOff
PROPERTIES BackOnline
CHECK_DEADLOCK FALSE
