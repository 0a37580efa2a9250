SPECIFICATION NtpSpec
CONSTANTS
  Micros = 4
  Word = 6
  Width = 64
  Epoch = 5
  RAOP_NTP_DATA_COUNT = 2
  RAOP_NTP_MAX_DISP = 4
  Times = {0, 5}
  SocketBuffer = 1
INVARIANTS
  NtpTypeOK
  SyncedToBestRecent
PROPERTY KeepsTimeAsPromised
