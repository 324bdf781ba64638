SPECIFICATION MCSpec
CONSTANTS
  Symbol = {a, b}
  NoSymbol = NoSymbol
  Width = 1
  DaysPerBar = 2
  FlushEvery = 2
  BarsRequired = 2
  Day <- MCDay
  Sources <- SteadySources
  Troubles = {FALSE}
  Failures = {}
  UseBatch = FALSE
  MaxStarts = 2
  Called = {s1}
  MaxInflight = 1
  Nobody = Nobody
  LastDay = 1
  Readers = {"today page"}
  MaxAsks = 1
  Boards = {"SSE"}
  None = None
INVARIANT ShortMeansExhausted
CHECK_DEADLOCK FALSE
