SPECIFICATION MirrorSpec
CONSTANTS
  Block = 2
  Blocks = 1
  HeaderLength = 2
  Sizes = {2}
  Numbers = 2
  NULL = NULL
PROPERTY StopReturns
