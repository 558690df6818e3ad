SPECIFICATION Spec
CONSTANTS
  MASK = 5
  MAXBYTE = 35
  MINMATCH = 4
  LASTLITERALS = 2
  MFLIMIT = 6
  WILDCOPYLENGTH = 5
  DISTANCE_MAX = 15
  SLACK = 2
  MAX_INPUT_SIZE = 32
  Words <- MCWords
  Singles <- MCSingles
  Dictionary <- MCDictionary
  Layouts = {"line"}
  MAXBLOCK = 11
  RING = 22
  BLOCKS = 3
  CALLS = 1
  Foreign <- MCForeign
  Hash <- MCHash
  Hashes <- MCHashes
  SKIP = 3
  KB4 = 10
  GB1 = 30
  RENORM = 40
  HASH_UNIT = 5
  DictSizes = {}
  SaveSizes = {}
  Rooms = {40, 9}
  SingleRooms = {40, 12, 8}
  Streams = {"hc"}
  GB2 = 50
  HcSizes = {0, 3, 7, 11}
  GOES_ON = TRUE
  DecodeSizes = {0, 7, 8, 11}
  RING_MARGIN = 2
  RING_BLOCK = 8
  OVERSHOOT = 4
  FAST_OVERSHOOT = 7
  FASTLOOP_SAFE_DISTANCE = 10
INVARIANT
  WindowIsHistory
CHECK_DEADLOCK FALSE
