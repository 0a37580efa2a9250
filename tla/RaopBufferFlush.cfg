SPECIFICATION BufSpec
CONSTANTS
  SeqMod = 12
  RAOP_BUFFER_LENGTH = 3
  Data <- MCData
  d1 = d1
  d2 = d2
  NULL = NULL
  FREED = FREED
PROPERTY
  FlushIsInitialState
