SPECIFICATION Spec
CONSTANTS
  TextMode = TRUE
  MaxValue = 32768
  Junk = 205
  Images <- MCImages
  DimsOf <- MCDimsOf
  Tables <- MCTables
  Code <- MCCode
  Sector = 64
  INT_MOD = 65536
  MAX_INPUT = 32512
INVARIANTS
  LoadedIsCompressed
