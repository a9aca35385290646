SPECIFICATION Spec
CONSTANTS
  Clients = {c1}
  Requests <- RequestsDef
  PairsLen = 1
  ExitLen = 1
  Chunk = 2
  BufferLimit = 3
  Backlog = 1
  MaxFds = 2
  MaxThreads = 1
  MallocMayFail = TRUE
  PeersMayReset = TRUE
  NumVendors = 1
  p1 = p1
  Pairs <- PairsDef
  Opposite <- OppositeDef
  Goals = {}
  Listings <- ListingsDef
  Addr = {a1, a2}
  NULL = NULL
  Malloc <- FirstCell
  MarketTimeout = 1
  MaxHold = 0
  FetchMayFail = TRUE
PROPERTIES
  KeepsServer
  ExitStops
CHECK_DEADLOCK FALSE
