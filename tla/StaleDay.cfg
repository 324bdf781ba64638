\* The candidates page over two days that are both published.
SPECIFICATION Spec
CONSTANTS
  LastDay = 3
  Readers = {"candidates page"}
  MaxAsks = 3
  None = None
INVARIANT NoStaleData
CHECK_DEADLOCK FALSE
