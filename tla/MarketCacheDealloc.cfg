SPECIFICATION Spec
CONSTANTS
  NULL = NULL
  Malloc <- ArenaCell
  p1 = p1
  Arena1 = {a1, a2}
  Arena2 = {a3, a4}
  p2 = p2
  Pairs <- PairsDef
  Opposite <- OppositeDef
  Goals <- GoalsDef
  Listings <- OneListing
  NumVendors = 2
  Readers = {r1}
  Addr = {a1, a2, a3, a4}
  MarketTimeout = 2
  MaxHold = 1
  FetchMayFail = FALSE
INVARIANTS
  ShutdownDeallocates
