SPECIFICATION MCSpec
CONSTANTS
  Symbols = {"x", "y"}
  Targets <- MCTargets
  Delistings = {{}, {"y"}}
  InitialLegs <- MCLegs
  MinTrades = {1, 2}
  MaxPeriod = 3
  MaxTroubles = 2
  MaxRestarts = 1
  Budget = 2
INVARIANTS ReachesTarget NeverOvertrades
PROPERTIES CompleteCandleTaken
