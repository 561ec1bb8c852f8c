CONSTANTS
  Texts <- MCTexts
  BatchSizeOption = {0, 2}
  LEMBED_DEFAULT_BATCH_SIZE = 3
  out_dim = 2
  DimOption = {0, 1, 2, 3}
  MaxCalls = 2
  None = None
SPECIFICATION Spec
INVARIANTS
  ResultsInPlace
  StreamOwnEmbeddings
