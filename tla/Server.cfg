SPECIFICATION Spec
CONSTANTS
  CheckTargets <- BothExchanges
  FailThreshold = 2
  AlertCooldown = 2
  NotifyOnRecovery = TRUE
  MaxChanges = 4
  Minute = 2
  MaxOutages = 2
  Contracts = {"x", "y"}
  MaxMoves = 4
  MaxCrashes = 2
  MaxTold = 4
  Browsers = {1, 2}
  MaxCommands = 2
  MaxEvents = 1
  LogSources = {"system", "market"}
  MaxLines = 3
  MaxDays = 2
  KlineFeeds = {"klines"}
  TickerFeeds = {"ticker"}
  VenueOf <- VenueOfFeed
  Nobody = Nobody
  MaxMessages = 2
  MaxLinked = 1
  MaxBusy = 2
INVARIANTS LinesKept WorkersOffSockets
PROPERTIES OutageReported DelistTold ProxyReported CommandsServed QueryAnswered ShutdownCompletes
CHECK_DEADLOCK FALSE
