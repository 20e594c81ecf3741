SPECIFICATION Spec
CONSTANTS
  Requests <- MCRequests
  Kind <- MCKind
  FilePorts = {0, 8080}
  FlagPorts = {0, 8443}
  SslPorts = {0, 8443}
  DefaultPort = 8580
INVARIANTS
  LivesWithoutIndex
CHECK_DEADLOCK FALSE
