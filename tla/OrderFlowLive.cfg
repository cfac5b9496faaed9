\* Liveness: no crash, and room for every report.
CONSTANTS
  Strategies = {s1, s2}
  Orders = {o1}
  Okx = okx
  Venues = {okx, binance}
  DefaultVenues = {binance}
  BatchSize = 1
  MaxSends = 2
  Capacity = 2
  MaxCrashes = 0
  NoStrategy = NoStrategy
  NoOrder = NoOrder
SPECIFICATION FairSpec
PROPERTIES
  EveryOrderAnswered
  StrategyLearns
