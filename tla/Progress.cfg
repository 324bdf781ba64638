SPECIFICATION MCSpec
CONSTANTS
  Symbol = {a, b}
  NoSymbol = NoSymbol
  Width = 1
  DaysPerBar = 2
  FlushEvery = 2
  BarsRequired = 2
  Day <- MCDay
  Sources <- SteadySources
  Troubles = {TRUE, FALSE}
  Failures = {"TIMEOUT", "SOURCE_ERROR"}
  UseBatch = TRUE
  MaxStarts = 3
  Called = {s1, s2, s3}
  MaxInflight = 2
  Nobody = Nobody
  LastDay = 2
  Readers = {"today page", "candidates page", "stock page", "strategy page", "/today", "/stocks", "today", "candidates", "stock", "screen", "qualified"}
  MaxAsks = 3
  Boards = {"SSE", "SZSE"}
  None = None
INVARIANTS
  Typed
  BooksBalance
  DiskTellsTruth
  RunTellsTruth
  ReportIsTrue
  GuardedTellSelection
  AnswersAreWhole
PROPERTIES
  ImplementsFetchRound
  CanonicalOnlyGrows
  RunResumes
  RunsEnd
  FetchReturns
  PageSettles
CHECK_DEADLOCK FALSE
