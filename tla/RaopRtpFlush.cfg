SPECIFICATION SessionSpec
CONSTANTS
  SeqMod = 6
  RAOP_BUFFER_LENGTH = 2
  Data = {d}
  NULL = NULL
  FREED = FREED
  control_rport = 0
  Volumes = {}
  FlushSeqs <- MCFlushSeqs
  Notices = {}
  NO_FLUSH <- MCNoFlush
  NoVolume = NoVolume
PROPERTIES
  FlushRequestEmptiesBuffer
