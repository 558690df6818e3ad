SPECIFICATION HcSpec
CONSTANTS
  MASK = 4
  MAXBYTE = 24
  MINMATCH = 4
  LASTLITERALS = 1
  MFLIMIT = 6
  WILDCOPYLENGTH = 4
  DISTANCE_MAX = 11
  SLACK = 2
  MAX_INPUT_SIZE = 32
  Sources <- MCSources
  Capacities <- MCCapacities
  Hash <- MCHash
  Hashes <- MCHashes
  TRIGGER = 2
  MANY = 4
  OPT_NUM = 11
  Levels <- MCLevels
INVARIANTS
  FoundIsMatch
  FindsLongest
  TableFits
PROPERTIES
  ImplementsEncoder
  WayWithinPrice
  Returns
