SPECIFICATION MCSpec
CONSTANTS
  XS = 2
  YS = 2
  ZS = 2
  BPV = 2
  WORD = 16
  InitBytes <- MCAllBytes
  InitFilters <- MCAllFilters
  Levels <- MCLevels
  Images <- MCImages
  Methods <- MCMethods
  Cost <- MCCost
  MAXSUM = 100000
  InitTable <- MCAllFilters
INVARIANTS
  FilterTypeOK
  RoundTrip
  StoresPredictionErrors
  TypeOK
  ChoosesBest
  FirstOfTheBest
  
PROPERTIES
  SequentialWalk
  CallReturns
  ImplementsBestFilter
