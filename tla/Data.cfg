SPECIFICATION MCSpec
CONSTANTS
  s1 = s1
  s2 = s2
  v1 = v1
  v2 = v2
  Instrument = {s1, s2}
  Version = {v1, v2}
  Day = {1, 2, 3}
  TradeDay = {1, 2}
  MaxNamed = 2
  Unset = Unset
  Instruments = {s1, s2}
  FetchDay = {1, 2, 3}
  MaxRounds = 2
  Absent = Absent
  Date = {1, 2, 3}
  Blank = Blank
  Garbled = Garbled
  NoValue = NoValue
  Window = 2
  StaleAfter = 1
  Year = 1
  Periods = {1, 2}
  Symbol = {1, 2, 3}
  Strategy = {1, 2}
  AsOf = 2
  Config <- MCConfig
  Weights <- MCWeights
  Thresholds <- MCThresholds
  Whole = 12
  Floor = 6
  None = None
  Long = 3
  Short = 2
  VolumeLong = 2
  VolumeShort = 1
  Momentum = 1
  Yielding = {2}
  Reserve = 1
  MaxCandidates = 2
  Markets <- MCMarkets
INVARIANTS
  Typed
  
  OrderIsForgotten
  BetterRanksNoLower
  EntrancesAgree
  SelectionAccounts
  ReserveKept
  ConfirmedIsSound
  QueriesAgree
PROPERTIES
  NoLookAhead
  ImplementsRawBook
  LandingKeepsItsPlace
  BlankHidesNothing
SYMMETRY Interchangeable
CHECK_DEADLOCK FALSE
