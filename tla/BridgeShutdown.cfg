SPECIFICATION Spec
CONSTANTS
  Clients = {c1}
  Requests <- RequestsDef
  PairsLen = 1
  ExitLen = 1
  Chunk = 2
  BufferLimit = 3
  Backlog = 1
  MaxFds = 2
  MaxThreads = 1
  MallocMayFail = FALSE
  PeersMayReset = FALSE
  NumVendors = 1
  p1 = p1
  Pairs <- PairsDef
  Opposite <- OppositeDef
  Goals = {}
  Listings <- ListingsDef
  Addr = {a1, a2}
  NULL = NULL
  Malloc <- FirstCell
  MarketTimeout = 2
  MaxHold = 1
  FetchMayFail = FALSE
INVARIANTS
  GracefulShutdown
CHECK_DEADLOCK FALSE
