SPECIFICATION Spec
CONSTANTS
  TextMode = FALSE
  MaxValue = 32768
  Junk = 205
  Images <- MCLargeImages
  DimsOf <- MCLargeDimsOf
  Tables <- MCOneTable
  Code <- MCCode
  Sector = 64
  INT_MOD = 32
  MAX_INPUT = 12
INVARIANTS
  FailureReported
