SPECIFICATION Spec
CONSTANTS
  Clients = {c1, c2}
  Requests <- ShortRequests
  PairsLen = 2
  ExitLen = 1
  Chunk = 3
  BufferLimit = 5
  Backlog = 1
  MaxFds = 2
  MaxThreads = 2
  MallocMayFail = FALSE
  PeersMayReset = FALSE
PROPERTIES
  SigtermStops
CHECK_DEADLOCK FALSE
