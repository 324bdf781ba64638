\* Replays under the profile as it is, among others.
SPECIFICATION MCSpec
CONSTANTS
  Run = {r1}
  v1 = v1
  v2 = v2
  Version = {v1, v2}
  SyncGiven = {TRUE, FALSE}
  QualifiersConfigured = TRUE
  Unfit <- UnfitRegime
  MaxStarts = 2
  None = None
  Torn = Torn
  Unknown = Unknown
  SnapshotKeys = {"mon", "tue"}
  JobDays = {"job"}
  WatchSymbols = {"watch"}
  RawFiles = {"bars"}
  TradeIds = {"trade"}
  Processes = {"p", "q"}
INVARIANT ReplayAgrees
CHECK_DEADLOCK FALSE
