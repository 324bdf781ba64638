SPECIFICATION MCSpec
CONSTANTS
  i1 = i1
  e1 = e1
  e2 = e2
  l1 = l1
  o1 = o1
  x1 = x1
  w1 = w1
  c1 = c1
  c2 = c2
  p1 = p1
  p2 = p2
  t1 = t1
  Proc = {p1, p2}
  IntentKey = {i1}
  EvaluationKey = {e1, e2}
  PlanKey = {l1}
  OverrideKey = {o1}
  ExecutionKey = {x1}
  ReviewKey = {w1}
  Content = {c1, c2}
  Position = {1, 2}
  None = None
  Torn = Torn
  Shell = {p1, p2}
  Thesis = {t1}
  Nothing = Nothing
  Empty = Empty
  Mangled = Mangled
  MaxClock = 3
INVARIANTS
  Typed
  Accountable
  ToldIsWritten
  TimelineTellsState
PROPERTIES
  ImplementsTradeRecords
  WreckStays
  ChangesAreKept
SYMMETRY Interchangeable
CHECK_DEADLOCK FALSE
