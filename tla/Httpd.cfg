SPECIFICATION HttpdSpec
CONSTANTS
  max_connections = 2
  Sockets = {f1, f2, f3}
  Sessions = {s1, s2, s3}
  SERVER = SERVER

INVARIANTS
  HttpdTypeOK
  NeverFull
  SessionsMatchTable
  OnlyReadableIsRead
PROPERTIES
  ServesAsPromised
  StopReturns
