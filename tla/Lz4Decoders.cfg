SPECIFICATION MCSpec
CONSTANTS
  MASK = 15
  MAXBYTE = 255
  MINMATCH = 4
  LASTLITERALS = 5
  MFLIMIT = 12
  WILDCOPYLENGTH = 8
  DISTANCE_MAX = 65535
  SLACK = 16
  MAX_INPUT_SIZE = 2113929216
  Unset <- MCUnset
  Old <- MCOld
  Foreign <- MCForeign
  Blocks <- MCBlocks
  Cuts <- MCCuts
  Rooms <- MCRooms
  Dictionaries <- MCDictionaries
  Targets <- MCTargets
INVARIANTS
  NeverPastOutput
  StaysInside
  DecodersAgree
  PartialIsPrefix
