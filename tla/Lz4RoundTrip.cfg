SPECIFICATION RoundTripSpec
CONSTANTS
  MASK = 3
  MAXBYTE = 15
  MINMATCH = 4
  LASTLITERALS = 1
  MFLIMIT = 6
  WILDCOPYLENGTH = 4
  DISTANCE_MAX = 20
  SLACK = 2
  MAX_INPUT_SIZE = 32
  Sources <- MCSources
  Capacities <- MCCapacities
  Unset <- MCUnset
INVARIANTS
  TypeOK
  StaysInBuffers
  BoundSuffices
  Restores
