SPECIFICATION TicksSpec
CONSTANTS
  Strategies = {"s"}
  Depths = {"books5"}
  MaxRequests = 2
  Capacity = 2
PROPERTY TicksReachStrategy
CHECK_DEADLOCK FALSE
