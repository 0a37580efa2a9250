SPECIFICATION SessionSpec
CONSTANTS
  SeqMod = 6
  RAOP_BUFFER_LENGTH = 2
  Data = {d}
  NULL = NULL
  FREED = FREED
  control_rport = 6001
  Volumes = {v1, NoVolume}
  FlushSeqs <- MCFlush
  Notices = {metadata}
  NO_FLUSH <- MCNoFlush
  NoVolume = NoVolume
INVARIANTS
  SessionTypeOK
  BufferHasOneUser
  StartFindsNothing
  NoVolumeLost
PROPERTIES
  WindowMovesForward
  MailboxIsServed
  PlaysAsPromised
