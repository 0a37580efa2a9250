SPECIFICATION MirrorSpec
CONSTANTS
  Block = 3
  Blocks = 2
  HeaderLength = 2
  Sizes = {0, 2, 4}
  Numbers = 2
  NULL = NULL
INVARIANTS
  MirrorTypeOK
  WholeFramesInOrder
  DecryptsInStep
PROPERTY MirrorsAsPromised
