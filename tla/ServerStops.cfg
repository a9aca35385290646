SPECIFICATION Spec
CONSTANTS
  Clients = {c1, c2}
  Requests <- LastReadShort
  PairsLen = 1
  ExitLen = 1
  Chunk = 2
  BufferLimit = 3
  Backlog = 1
  MaxFds = 2
  MaxThreads = 2
  MallocMayFail = FALSE
  PeersMayReset = FALSE
PROPERTIES
  ExitStops
  SigtermEndsWithAConnection
  WholeRequestAnswered
CHECK_DEADLOCK FALSE
