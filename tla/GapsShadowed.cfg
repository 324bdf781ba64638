\* Two symbols, a day after another, the default of two rounds.
SPECIFICATION Spec
CONSTANTS
  Instruments = {s1, s2}
  FetchDay = {1, 2}
  MaxRounds = 2
  Absent = Absent
PROPERTIES
  CoveredIsNotAsked
