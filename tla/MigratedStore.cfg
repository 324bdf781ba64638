CONSTANTS
  SnapshotKeys = {"mon", "tue"}
  JobDays = {"job"}
  WatchSymbols = {"watch"}
  RawFiles = {"bars"}
  TradeIds = {"trade"}
  Labels = {"a", "b"}
  Versions = {1, 2}
  Processes = {"p", "q"}
  MaxWrites = 2
  MaxMigrations = 2
  None = None
SPECIFICATION Spec
CHECK_DEADLOCK FALSE
INVARIANT CallersCannotTell
