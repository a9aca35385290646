SPECIFICATION Spec
CONSTANTS
  Clients = {c1, c2}
  Requests <- AllRequests
  PairsLen = 2
  ExitLen = 1
  Chunk = 3
  BufferLimit = 5
  Backlog = 1
  MaxFds = 1
  MaxThreads = 1
  MallocMayFail = TRUE
  PeersMayReset = TRUE
SYMMETRY ClientPermutations
INVARIANTS
  TypeOK
  SocketsOwned
  StopsForAReason
  OnlyExhaustionAborts
  WaitsAtChunkBoundary
  AnswersAQuestion
CHECK_DEADLOCK FALSE
