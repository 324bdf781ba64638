\* One version of every input, and nothing unfit: reruns of the same day over
\* the same data, after crashes.
SPECIFICATION Spec
CONSTANTS
  Run = {r1}
  Version = {v1}
  SyncGiven = {FALSE}
  QualifiersConfigured = TRUE
  Unfit = {}
  MaxStarts = 2
  None = None
  Torn = Torn
INVARIANTS
  SameDataSucceeds
CHECK_DEADLOCK FALSE
