SPECIFICATION MCSpec
CONSTANTS
  Series = {"m"}
  MaxKlineBars = 2
  MaxClosed = 3
  MaxTroubles = 1
  TaskOrder <- MCTaskOrder
  Intervals = {1}
  MaxTime = 2
  MaxCalls = 3
  Budget = 5
INVARIANTS ReadsExplained RateKept
PROPERTIES WindowKept TasksRun
CHECK_DEADLOCK FALSE
