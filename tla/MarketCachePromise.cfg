SPECIFICATION ServingSpec
CONSTANTS
  NULL = NULL
  Malloc <- ArenaCell
  p1 = p1
  Arena1 = {a1, a2}
  Arena2 = {a3, a4}
  p2 = p2
  Pairs <- PairsDef
  Opposite <- OppositeDef
  Goals <- GoalsDef
  Listings <- ListingsDef
  NumVendors = 2
  Readers = {r1}
  Addr = {a1, a2, a3, a4}
  MarketTimeout = 1
  MaxHold = 0
  FetchMayFail = TRUE
INVARIANTS
  ServingInv
PROPERTIES
  KeepsPromise
