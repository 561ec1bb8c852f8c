CONSTANTS
  d1 = d1
  d2 = d2
  d3 = d3
  d4 = d4
  Doc = {d1, d2, d3, d4}
  Score <- MCScore
  Activation <- MCActivation
  PadActivation <- MCPadActivation
  Vocab <- MCVocab
  Picture <- MCPicture
  TargetSize = 2
  MaxInt = 63
  Shapes <- MCShapes
  Info <- MCInfo
  Configs <- MCConfigs
  Options <- MCOptions
  LEMBED_DEFAULT_BATCH_SIZE = 2
  LEMBED_DEFAULT_MAX_LENGTH = 3
  None = None
  Owner = {o1, o2}
  Addr = {a1, a2}
  Calls <- MCCalls
  BatchSizes = {0, 2}
  MaxCalls = 3
  Free = Free
  Unbuilt = Unbuilt
SPECIFICATION Spec
INVARIANTS
  OneOwnerEach
  RankingOwnScores
  
  ImageRowsOwn
  CropsInside
  ResultMemory
  OrphansOnlyFromThrows
SYMMETRY MCSymmetry
CHECK_DEADLOCK FALSE
