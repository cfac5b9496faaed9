\* Safety: two strategies, two orders, both exchanges, one crash, room for one report.
CONSTANTS
  Strategies = {s1, s2}
  Orders = {o1, o2}
  Okx = okx
  Venues = {okx, binance}
  DefaultVenues = {okx}
  BatchSize = 1
  MaxSends = 2
  Capacity = 1
  MaxCrashes = 1
  NoStrategy = NoStrategy
  NoOrder = NoOrder
SYMMETRY Symmetry
SPECIFICATION Spec
INVARIANTS TypeOK AcceptedIsReal SingleOrdersRiskChecked CountersAgree
PROPERTIES KeepsContract
