SPECIFICATION Spec
CONSTANTS
  TextMode = FALSE
  MaxValue = 32768
  Junk = 205
  Images <- MCImages
  DimsOf <- MCDimsOf
  Tables <- MCTables
  Code <- MCCode
  Sector = 24
  INT_MOD = 64
  MAX_INPUT = 24
INVARIANTS
  TypeOK
  LoadedIsCompressed
  FiltersFitSpace
  ReleasedOnce
