---------------------------- MODULE PromiseProofs ----------------------------
(***************************************************************************)
(* While the server serves, the market cache implements TradingPairs: the  *)
(* initial state of the cache is an initial state of the promise, and      *)
(* every step of the cache is a step of the promise or changes nothing it  *)
(* speaks of.  That is the safety part of KeepsPromise, for every number   *)
(* of vendors and callers and every set of pairs and listings.             *)
(***************************************************************************)
EXTENDS MarketCacheProofs, SequenceTheorems

(* A listing is a sequence of at least one pair. *)
LEMMA ListingType ==
  ASSUME NEW l \in Listings
  PROVE  l \in Seq(Pairs) /\ Len(l) \in Nat \ {0} /\ \A i \in 1 .. Len(l) : l[i] \in Pairs
  <1>1. l \in Seq(Pairs) /\ l # <<>>
    BY ListingsAssumption
  <1> QED
    BY <1>1, EmptySeq, ElementOfSeq

(* The nodes from number m on are node m and those from m + 1 on. *)
LEMMA RestOfList ==
  ASSUME NEW l \in Listings, NEW m \in 1 .. Len(l)
  PROVE  Range(SubSeq(l, m, Len(l)))
           = {l[m]} \cup (IF m < Len(l) THEN Range(SubSeq(l, m + 1, Len(l))) ELSE {})
  <1>1. l \in Seq(Pairs) /\ Len(l) \in Nat \ {0}
    BY ListingType
  <1>2. ASSUME NEW k \in 1 .. Len(l)
        PROVE  Range(SubSeq(l, k, Len(l))) = {l[i] : i \in k .. Len(l)}
    <2>1. /\ SubSeq(l, k, Len(l)) \in Seq(Pairs)
          /\ Len(SubSeq(l, k, Len(l))) = Len(l) - k + 1
          /\ \A i \in 1 .. Len(l) - k + 1 : SubSeq(l, k, Len(l))[i] = l[k + i - 1]
      BY <1>1, SubSeqProperties
    <2>2. DOMAIN SubSeq(l, k, Len(l)) = 1 .. Len(l) - k + 1
      BY <2>1, LenProperties
    <2>3. \A i \in 1 .. Len(l) - k + 1 : k + i - 1 \in k .. Len(l)
      BY <1>1
    <2>4. \A i \in k .. Len(l) : i - k + 1 \in 1 .. Len(l) - k + 1 /\ k + (i - k + 1) - 1 = i
      BY <1>1
    <2> DEFINE rest == SubSeq(l, k, Len(l))
    <2> HIDE DEF rest
    <2>5. \A i \in DOMAIN rest : rest[i] \in {l[j] : j \in k .. Len(l)}
      BY <2>1, <2>2, <2>3 DEF rest
    <2>6. \A j \in k .. Len(l) : j - k + 1 \in DOMAIN rest /\ rest[j - k + 1] = l[j]
      BY <2>1, <2>2, <2>4 DEF rest
    <2>7. Range(rest) = {l[j] : j \in k .. Len(l)}
      BY <2>5, <2>6 DEF Range
    <2> QED
      BY <2>7 DEF rest
  <1>3. CASE m < Len(l)
    <2>1. m .. Len(l) = {m} \cup (m + 1 .. Len(l)) /\ m + 1 \in 1 .. Len(l)
      BY <1>1, <1>3
    <2> QED
      BY <1>2, <1>3, <2>1
  <1>4. CASE m = Len(l)
    <2>1. m .. Len(l) = {m}
      BY <1>1, <1>4
    <2> QED
      BY <1>2, <1>4, <2>1
  <1> QED
    BY <1>1, <1>3, <1>4

LEMMA WholeList ==
  ASSUME NEW l \in Listings
  PROVE  SubSeq(l, 1, Len(l)) = l
  BY ListingType, SubSeqFull

-----------------------------------------------------------------------------
(* While the server serves, lists always stand. *)
LEMMA ServedListsStand ==
  ASSUME IndInv, stage = 0, [ServingNext]_vars, NEW r \in Readers, ptr[r] # NULL
  PROVE  heap[ptr[r]] \in Listings /\ heap'[ptr[r]] = heap[ptr[r]]
  <1>1. Protected(r)
    BY DEF IndInv, GracePeriod, TypeOK, Freed, Vendors
  <1>2. ~FreeVendor
    BY DEF FreeVendor, Vendors
  <1> QED
    BY <1>1, <1>2, ListsStand DEF Next

(* What one update thread, or the passing of time, leaves to the readers.  *)
LEMMA ReadersStand ==
  ASSUME ServingInv, Tick \/ (\E v \in Vendors : Updater(v)) \/ UNCHANGED vars
  PROVE  /\ UNCHANGED <<rpc, at, ptr, pos, table, goal, found>>
         /\ \A v \in Vendors : initialized[v] => initialized'[v]
  <1> USE DEF ServingInv, IndInv, TypeOK, readerVars
  <1>1. ASSUME NEW v \in Vendors, Updater(v)
        PROVE  /\ UNCHANGED <<rpc, at, ptr, pos, table, goal, found>>
               /\ \A w \in Vendors : initialized[w] => initialized'[w]
    <2>1. CASE Reclaim(v) \/ Publish(v)
      BY <2>1 DEF Reclaim, Publish
    <2>2. CASE MarkInitialized(v)
      BY <2>2 DEF MarkInitialized
    <2>3. CASE Sleep(v) \/ Wake(v) \/ LoopBack(v) \/ Exit(v)
      BY <2>3 DEF Sleep, Wake, LoopBack, Exit
    <2> QED
      BY <1>1, <2>1, <2>2, <2>3 DEF Updater
  <1>2. CASE Tick \/ UNCHANGED vars
    BY <1>2 DEF Tick, vars, updaterVars
  <1> QED
    BY <1>1, <1>2

(* What a step of reader r leaves alone: the cache, and the other readers. *)
LEMMA OneReaderMoves ==
  ASSUME ServingInv, NEW r \in Readers, Call(r) \/ Search(r) \/ Reader(r)
  PROVE  /\ UNCHANGED <<heap, updaterVars, stage>>
         /\ \A q \in Readers \ {r} :
              /\ rpc'[q] = rpc[q] /\ at'[q] = at[q] /\ ptr'[q] = ptr[q] /\ pos'[q] = pos[q]
              /\ table'[q] = table[q] /\ goal'[q] = goal[q] /\ found'[q] = found[q]
  <1> USE DEF ServingInv, IndInv, TypeOK
  <1>1. CASE Call(r) \/ Load(r) \/ Reply(r) \/ Advance(r)
    BY <1>1 DEF Call, Load, Reply, Advance
  <1>2. CASE Visit(r)
    BY <1>2 DEF Visit
  <1>3. CASE Search(r)
    BY <1>3 DEF Search
  <1>4. CASE Look(r)
    BY <1>4 DEF Look
  <1>5. CASE LookAgain(r)
    BY <1>5 DEF LookAgain
  <1>6. CASE Compare(r)
    BY <1>6 DEF Compare
  <1>7. CASE Move(r)
    BY <1>7 DEF Move
  <1>8. CASE Fault(r)
    BY <1>8 DEF Fault
  <1> QED
    BY <1>1, <1>2, <1>3, <1>4, <1>5, <1>6, <1>7, <1>8 DEF Reader

(* What of Reading speaks of one reader. *)
ReadingOf(r) ==
  /\ rpc[r] \in {"idle", "await", "walk", "built"} => goal[r] = NULL /\ found[r] = {}
  /\ rpc[r] \in {"look", "seek", "seekAgain", "next"} => goal[r] \in Pairs
  /\ rpc[r] \in {"walk", "seek", "seekAgain"} => initialized[at[r]]
  /\ rpc[r] = "built" => at[r] = NumVendors
  /\ ptr[r] # NULL => pos[r] <= Len(heap[ptr[r]])

(* A vendor's current list has a first node. *)
LEMMA CurrentListed ==
  ASSUME IndInv, NEW v \in Vendors, current[v] # NULL
  PROVE  heap[current[v]] \in Listings /\ Len(heap[current[v]]) \in Nat \ {0}
  <1>1. current[v] \in Addr /\ current[v] \in Snapshots(v)
    BY DEF IndInv, TypeOK, Snapshots
  <1>2. heap[current[v]] # NULL /\ heap[current[v]] \in Listings
    BY <1>1 DEF IndInv, TypeOK, EveryListOwned
  <1> QED
    BY <1>2, ListingType

LEMMA ReadingNext == ServingInv /\ [ServingNext]_vars => Reading'
  <1> SUFFICES ASSUME ServingInv, [ServingNext]_vars, NEW q \in Readers
               PROVE  ReadingOf(q)'
    BY DEF Reading, ReadingOf
  <1>1. IndInv /\ stage = 0 /\ ReadingOf(q)
    BY DEF ServingInv, Reading, ReadingOf
  <1>2. ptr[q] # NULL => heap'[ptr[q]] = heap[ptr[q]]
    BY <1>1, ServedListsStand
  <1>3. at[q] \in Vendors
    BY <1>1 DEF IndInv, TypeOK
  <1>4. ASSUME UNCHANGED <<rpc[q], at[q], ptr[q], pos[q], goal[q], found[q]>>,
               \A v \in Vendors : initialized[v] => initialized'[v]
        PROVE  ReadingOf(q)'
    BY <1>1, <1>2, <1>3, <1>4 DEF ReadingOf
  <1>5. CASE Tick \/ (\E v \in Vendors : Updater(v)) \/ UNCHANGED vars
    <2>1. /\ UNCHANGED <<rpc[q], at[q], ptr[q], pos[q], goal[q], found[q]>>
          /\ \A v \in Vendors : initialized[v] => initialized'[v]
      BY <1>5, ReadersStand
    <2> QED
      BY <1>4, <2>1
  <1>0. at[q] < NumVendors \/ at[q] = NumVendors
    BY <1>3, VendorsAssumption DEF Vendors
  <1>6. ASSUME NEW r \in Readers, Call(r) \/ Search(r) \/ Reader(r)
        PROVE  ReadingOf(q)'
    <2>1. CASE q # r
      <3>1. /\ UNCHANGED <<rpc[q], at[q], ptr[q], pos[q], goal[q], found[q]>>
            /\ \A v \in Vendors : initialized[v] => initialized'[v]
        BY <1>6, <2>1, OneReaderMoves DEF updaterVars
      <3> QED
        BY <1>4, <3>1
    <2>2. CASE q = r
      <3> USE <1>1, <1>2, <1>3, <2>2 DEF ReadingOf, IndInv, TypeOK
      <3>1. CASE Call(r)
        BY <3>1 DEF Call, updaterVars, GracePeriod
      <3>2. CASE Search(r)
        BY <3>2, SearchAssumption DEF Search, updaterVars, GracePeriod
      <3>3. CASE Load(r)
        BY <3>3, CurrentListed DEF Load, updaterVars
      <3>4. CASE Visit(r)
        <4>1. pos'[r] = IF pos[r] < Len(heap[ptr[r]]) THEN pos[r] + 1 ELSE 1
          BY <3>4 DEF Visit
        <4>2. ptr'[r] = IF pos[r] < Len(heap[ptr[r]]) THEN ptr[r] ELSE NULL
          BY <3>4 DEF Visit
        <4>3. ptr'[r] # NULL => pos'[r] <= Len(heap'[ptr'[r]])
          BY <4>1, <4>2, ServedListsStand, ListingType
        <4> QED
          BY <3>4, <4>3 DEF Visit, updaterVars
      <3>5. CASE Advance(r)
        <4>2. CASE at[r] < NumVendors
          BY <3>5, <4>2 DEF Advance, updaterVars
        <4>3. CASE at[r] = NumVendors
          BY <3>5, <4>3, VendorsAssumption DEF Advance, updaterVars
        <4> QED
          BY <1>0, <2>2, <4>2, <4>3
      <3>6. CASE Reply(r)
        BY <3>6 DEF Reply, updaterVars
      <3>7. CASE Look(r)
        BY <3>7, CurrentListed DEF Look, updaterVars
      <3>8. CASE LookAgain(r)
        BY <3>8, CurrentListed DEF LookAgain, updaterVars
      <3>9. CASE Compare(r)
        <4>1. ptr'[r] # NULL => pos'[r] <= Len(heap'[ptr'[r]])
          BY <3>9, ServedListsStand, ListingType DEF Compare
        <4>2. /\ rpc'[r] \in {rpc[r], "next"} /\ rpc[r] \in {"seek", "seekAgain"}
              /\ at'[r] = at[r] /\ goal'[r] = goal[r] /\ UNCHANGED initialized
          BY <3>9 DEF Compare, updaterVars
        <4> QED
          BY <4>1, <4>2
      <3>10. CASE Move(r)
        BY <3>10 DEF Move, updaterVars
      <3>11. CASE Fault(r)
        BY <3>11, CursorsIntact DEF Fault, NoReadAfterFree
      <3> QED
        BY <1>6, <3>1, <3>2, <3>3, <3>4, <3>5, <3>6, <3>7, <3>8, <3>9, <3>10, <3>11 DEF Reader
    <2> QED
      BY <2>1, <2>2
  <1> QED
    BY <1>5, <1>6 DEF ServingNext

(* ServingInv is inductive. *)
LEMMA ServingInit == Init => ServingInv
  <1>1. Init => stage = 0 /\ Reading
    BY DEF Init, Reading
  <1> QED
    BY <1>1, IndInvInit DEF ServingInv

LEMMA ServingStep == ServingInv /\ [ServingNext]_vars => ServingInv'
  <1>1. ServingInv /\ [ServingNext]_vars => IndInv'
    BY IndInvNext DEF ServingInv, Next
  <1>2. ServingInv /\ [ServingNext]_vars => stage' = 0
    <2> SUFFICES ASSUME ServingInv, [ServingNext]_vars PROVE UNCHANGED stage
      BY DEF ServingInv
    <2>1. ASSUME NEW v \in Vendors, Updater(v) PROVE UNCHANGED stage
      BY <2>1 DEF Updater, Reclaim, Publish, MarkInitialized, Sleep, Wake, LoopBack, Exit
    <2>2. ASSUME NEW r \in Readers, Call(r) \/ Search(r) \/ Reader(r) PROVE UNCHANGED stage
      BY <2>2, OneReaderMoves
    <2>3. CASE Tick \/ UNCHANGED vars
      BY <2>3 DEF Tick, vars
    <2> QED
      BY <2>1, <2>2, <2>3 DEF ServingNext
  <1> QED
    BY <1>1, <1>2, ReadingNext DEF ServingInv

(* While the server serves, what a caller looks for goes with where it is, *)
(* it reads of initialized vendors only, and its cursor is in a list that   *)
(* is allocated and its vendor's own.                                      *)
THEOREM Serving == ServingSpec => []ServingInv
  BY ServingInit, ServingStep, PTL DEF ServingSpec

-----------------------------------------------------------------------------
(* The promise speaks of five things about a caller, and of the listings.  *)
Stands(q) ==
  /\ NextVendor(q)' = NextVendor(q)
  /\ Answer(q)' = Answer(q)
  /\ goal'[q] = goal[q]
  /\ Swapped(q)' = Swapped(q)
  /\ ListedBy(q)' = ListedBy(q)

ListingsStand == \A v \in Vendors : Listing(v)' = Listing(v)

LEMMA Unchanged ==
  ASSUME ListingsStand, \A q \in Readers : Stands(q),
         goal \in [Readers -> Pairs \cup {NULL}], goal' \in [Readers -> Pairs \cup {NULL}]
  PROVE  UNCHANGED Promised!absVars
  <1>1. goal' = goal
    BY DEF Stands
  <1>2. UNCHANGED [r \in Readers |-> NextVendor(r)]
    BY DEF Stands
  <1>3. UNCHANGED [r \in Readers |-> Answer(r)]
    BY DEF Stands
  <1>4. UNCHANGED [r \in Readers |-> Swapped(r)]
    BY Zenon DEF Stands
  <1>5. UNCHANGED [r \in Readers |-> ListedBy(r)]
    BY DEF Stands
  <1>6. UNCHANGED [v \in Vendors |-> Listing(v)]
    BY DEF ListingsStand
  <1> QED
    BY <1>1, <1>2, <1>3, <1>4, <1>5, <1>6 DEF Promised!absVars, Promised!searchVars

(* A caller that does not move sees what it saw, whatever the others do.   *)
LEMMA CallerStands ==
  ASSUME ServingInv, [ServingNext]_vars, NEW q \in Readers,
         UNCHANGED <<rpc[q], at[q], ptr[q], pos[q], table[q], goal[q], found[q]>>
  PROVE  Stands(q)
  <1>1. IndInv /\ stage = 0
    BY DEF ServingInv
  <1>2. ptr[q] # NULL => heap'[ptr[q]] = heap[ptr[q]]
    BY <1>1, ServedListsStand
  <1>3. Ahead(q)' = Ahead(q)
    BY <1>2 DEF Ahead
  <1>4. Wanted(q)' = Wanted(q)
    BY DEF Wanted
  <1>5. Hits(q)' = Hits(q)
    BY <1>3, <1>4 DEF Hits
  <1>6. NextVendor(q)' = NextVendor(q)
    BY <1>5 DEF NextVendor
  <1>7. Answer(q)' = Answer(q)
    BY <1>3 DEF Answer
  <1>8. Swapped(q)' = Swapped(q)
    BY <1>5 DEF Swapped
  <1>9. ListedBy(q)' = ListedBy(q)
    BY <1>5 DEF ListedBy
  <1> QED
    BY <1>6, <1>7, <1>8, <1>9 DEF Stands

(* A step of one caller leaves the others, and the listings, alone. *)
LEMMA OneCallerMoves ==
  ASSUME ServingInv, NEW r \in Readers, Call(r) \/ Search(r) \/ Reader(r)
  PROVE  ListingsStand /\ \A q \in Readers \ {r} : Stands(q)
  <1>1. UNCHANGED <<heap, updaterVars, stage>>
    BY OneReaderMoves
  <1>2. ListingsStand
    BY <1>1 DEF ListingsStand, Listing, updaterVars
  <1>3. ASSUME NEW q \in Readers \ {r} PROVE Stands(q)
    <2>1. UNCHANGED <<rpc[q], at[q], ptr[q], pos[q], table[q], goal[q], found[q]>>
      BY OneReaderMoves
    <2>2. ServingNext
      BY DEF ServingNext
    <2> QED
      BY <2>1, <2>2, CallerStands
  <1> QED
    BY <1>2, <1>3

(* The steps that the promise does not see. *)
LEMMA Housekeeping ==
  ASSUME ServingInv, ServingInv', [ServingNext]_vars,
         Tick \/ (\E v \in Vendors : Reclaim(v) \/ Sleep(v) \/ Wake(v) \/ LoopBack(v) \/ Exit(v))
              \/ UNCHANGED vars
  PROVE  UNCHANGED Promised!absVars
  <1>1. UNCHANGED <<current, initialized>>
    BY DEF Reclaim, Sleep, Wake, LoopBack, Exit, Tick, vars, updaterVars
  <1>2. \A v \in Vendors : current[v] # NULL => heap'[current[v]] = heap[current[v]]
    <2>1. ASSUME NEW v \in Vendors, NEW w \in Vendors, Reclaim(v), current[w] # NULL
          PROVE  heap'[current[w]] = heap[current[w]]
      <3>1. current[w] # old[v]
        <4>1. CASE w = v
          BY <2>1, <4>1 DEF Reclaim, UpdaterStep, ServingInv, IndInv, HandOver
        <4>2. CASE w # v
          <5>1. {current[w], old[w]} \cap {current[v], old[v]} \subseteq {NULL}
            BY <4>2 DEF ServingInv, IndInv, EveryListOwned, Snapshots
          <5> QED
            BY <2>1, <5>1
        <4> QED
          BY <4>1, <4>2
      <3>2. current[w] \in Addr
        BY <2>1 DEF ServingInv, IndInv, TypeOK
      <3> QED
        BY <2>1, <3>1, <3>2 DEF Reclaim, MarketFree
    <2>2. CASE \E v \in Vendors : Reclaim(v)
      BY <2>1, <2>2
    <2>3. CASE ~\E v \in Vendors : Reclaim(v)
      BY <2>3 DEF Sleep, Wake, LoopBack, Exit, Tick, vars
    <2> QED
      BY <2>2, <2>3
  <1>3. ListingsStand
    BY <1>1, <1>2 DEF ListingsStand, Listing
  <1>4. UNCHANGED <<rpc, at, ptr, pos, table, goal, found>>
    BY ReadersStand DEF Updater
  <1>5. \A q \in Readers : Stands(q)
    BY <1>4, CallerStands
  <1> QED
    BY <1>3, <1>5, Unchanged DEF ServingInv, IndInv, TypeOK

LEMMA PublishRefreshes ==
  ASSUME ServingInv, NEW v \in Vendors, Publish(v) \/ MarkInitialized(v)
  PROVE  [Promised!Next]_(Promised!absVars)
  <1>1. UNCHANGED <<rpc, at, ptr, pos, table, goal, found>>
    BY DEF Publish, MarkInitialized, readerVars
  <1>2. [ServingNext]_vars
    BY DEF ServingNext, Updater
  <1>3. \A q \in Readers : Stands(q)
    BY <1>1, <1>2, CallerStands
  <1>4. \A w \in Vendors \ {v} : Listing(w)' = Listing(w)
    <2>1. ASSUME NEW w \in Vendors \ {v}
          PROVE  /\ initialized'[w] = initialized[w]
                 /\ current'[w] = current[w]
      BY DEF Publish, MarkInitialized, ServingInv, IndInv, TypeOK
    <2>2. ASSUME NEW w \in Vendors \ {v}, current[w] # NULL
          PROVE  heap'[current[w]] = heap[current[w]]
      <3>1. heap[current[w]] # NULL /\ current[w] \in Addr
        BY <2>2, CurrentListed, NullAssumption DEF ServingInv, IndInv, TypeOK
      <3>2. ASSUME NEW a \in Malloc(v, {b \in Addr : heap[b] = NULL}), NEW l \in Listings,
                   heap' = [heap EXCEPT ![a] = l]
            PROVE  heap'[current[w]] = heap[current[w]]
        <4>1. a # current[w]
          BY <3>1, MallocFree
        <4> QED
          BY <3>1, <3>2, <4>1 DEF ServingInv, IndInv, TypeOK
      <3> QED
        BY <3>2 DEF Publish, MarkInitialized
    <2> QED
      BY <2>1, <2>2 DEF Listing
  <1>5. Listing(v)' \in Listings \cup {NULL} \/ Listing(v)' = Listing(v)
    <2>1. CASE ~initialized'[v]
      BY <2>1 DEF Publish, MarkInitialized, Listing, ServingInv, IndInv, TypeOK
    <2>2. CASE initialized'[v]
      <3>2. IndInv'
        BY <1>2, ServingStep DEF ServingInv
      <3>3. current'[v] # NULL => heap'[current'[v]] \in Listings
        BY <3>2 DEF IndInv, TypeOK, EveryListOwned, Snapshots
      <3> QED
        BY <2>2, <3>3 DEF Listing
    <2> QED
      BY <2>1, <2>2
  <1>6. CASE Listing(v)' \in Listings \cup {NULL}
    <2> DEFINE seen == [w \in Vendors |-> Listing(w)]
    <2>1. seen' = [seen EXCEPT ![v] = Listing(v)']
      BY <1>4
    <2>2. UNCHANGED <<[r \in Readers |-> NextVendor(r)], [r \in Readers |-> Answer(r)],
                      [r \in Readers |-> ListedBy(r)], goal>>
      BY <1>1, <1>3 DEF Stands
    <2>3. UNCHANGED [r \in Readers |-> Swapped(r)]
      BY <1>3, Zenon DEF Stands
    <2>4. Promised!Refresh(v)
      BY <1>6, <2>1, <2>2, <2>3 DEF Promised!Refresh, Promised!searchVars
    <2> QED
      BY <2>4 DEF Promised!Next, Promised!Vendors, Vendors
  <1>7. CASE Listing(v)' = Listing(v)
    <2>1. ListingsStand
      BY <1>4, <1>7 DEF ListingsStand
    <2> QED
      BY <1>1, <1>3, <2>1, Unchanged DEF ServingInv, IndInv, TypeOK
  <1> QED
    BY <1>5, <1>6, <1>7

(* The one caller that moves: what the promise's five functions become.    *)
LEMMA Moved ==
  ASSUME NEW r \in Readers, ListingsStand, \A q \in Readers \ {r} : Stands(q)
  PROVE  /\ [q \in Readers |-> NextVendor(q)]' =
              [[q \in Readers |-> NextVendor(q)] EXCEPT ![r] = NextVendor(r)']
         /\ [q \in Readers |-> Answer(q)]' =
              [[q \in Readers |-> Answer(q)] EXCEPT ![r] = Answer(r)']
         /\ [q \in Readers |-> Swapped(q)]' =
              [[q \in Readers |-> Swapped(q)] EXCEPT ![r] = Swapped(r)']
         /\ [q \in Readers |-> ListedBy(q)]' =
              [[q \in Readers |-> ListedBy(q)] EXCEPT ![r] = ListedBy(r)']
         /\ UNCHANGED [v \in Vendors |-> Listing(v)]
  <1>1. [q \in Readers |-> NextVendor(q)]' =
              [[q \in Readers |-> NextVendor(q)] EXCEPT ![r] = NextVendor(r)']
    BY DEF Stands
  <1>2. [q \in Readers |-> Answer(q)]' =
              [[q \in Readers |-> Answer(q)] EXCEPT ![r] = Answer(r)']
    BY DEF Stands
  <1>3. [q \in Readers |-> Swapped(q)]' =
              [[q \in Readers |-> Swapped(q)] EXCEPT ![r] = Swapped(r)']
    BY Zenon DEF Stands
  <1>4. [q \in Readers |-> ListedBy(q)]' =
              [[q \in Readers |-> ListedBy(q)] EXCEPT ![r] = ListedBy(r)']
    BY DEF Stands
  <1>5. UNCHANGED [v \in Vendors |-> Listing(v)]
    BY DEF ListingsStand
  <1> QED
    BY <1>1, <1>2, <1>3, <1>4, <1>5

(* A call begins, for all pairs or for one. *)
LEMMA CallBegins ==
  ASSUME ServingInv, NEW r \in Readers, Call(r) \/ Search(r)
  PROVE  Promised!Begin(r) \/ Promised!BeginSearch(r)
  <1>1. ListingsStand /\ \A q \in Readers \ {r} : Stands(q)
    BY OneCallerMoves
  <1>2. rpc[r] = "idle" /\ rpc'[r] \in {"await", "look"} /\ at'[r] = 1
        /\ table'[r] = [p \in Pairs |-> 0] /\ found' = found
    BY DEF Call, Search, ServingInv, IndInv, TypeOK
  <1>3. NextVendor(r) = 0 /\ NextVendor(r)' = 1
    BY <1>2 DEF NextVendor
  <1>4. Answer(r)' = [p \in Pairs |-> 0]
    BY <1>2 DEF Answer
  <1>5. ~Hits(r) /\ ~Hits(r)'
    BY <1>2 DEF Hits
  <1>6. Swapped(r)' = Swapped(r)
    BY <1>2 DEF Swapped
  <1>7. ListedBy(r)' = ListedBy(r)
    BY <1>2, <1>5 DEF ListedBy
  <1>8. CASE Call(r)
    <2>1. UNCHANGED goal
      BY <1>8 DEF Call
    <2> QED
      BY <1>1, <1>3, <1>4, <1>6, <1>7, <2>1, Moved DEF Promised!Begin, Promised!searchVars
  <1>9. CASE Search(r)
    <2>1. \E p \in Goals : goal' = [goal EXCEPT ![r] = p]
      BY <1>9 DEF Search
    <2> QED
      BY <1>1, <1>3, <1>4, <1>6, <1>7, <2>1, Moved DEF Promised!BeginSearch
  <1> QED
    BY <1>8, <1>9

(* What the cursor has ahead when a vendor's current list has been loaded. *)
LEMMA LoadedAhead ==
  ASSUME ServingInv, NEW r \in Readers, initialized[at[r]],
         UNCHANGED heap, ptr'[r] = current[at[r]], pos'[r] = 1
  PROVE  /\ Listing(at[r]) # <<>>
         /\ Listing(at[r]) = NULL => Ahead(r)' = {}
         /\ Listing(at[r]) # NULL => Ahead(r)' = Range(Listing(at[r]))
  <1>1. at[r] \in Vendors /\ IndInv
    BY DEF ServingInv, IndInv, TypeOK
  <1>2. CASE current[at[r]] = NULL
    BY <1>2, NullAssumption DEF Listing, Ahead
  <1>3. CASE current[at[r]] # NULL
    <2>1. heap[current[at[r]]] \in Listings /\ heap[current[at[r]]] # <<>>
      BY <1>1, <1>3, CurrentListed, ListingsAssumption
    <2>2. Listing(at[r]) = heap[current[at[r]]] /\ Listing(at[r]) # NULL
      BY <1>3, <2>1, NullAssumption DEF Listing
    <2>3. Ahead(r)' = Range(SubSeq(heap[current[at[r]]], 1, Len(heap[current[at[r]]])))
      BY <1>3 DEF Ahead
    <2> QED
      BY <2>1, <2>2, <2>3, WholeList
  <1> QED
    BY <1>2, <1>3

(* Loading the pointer adopts the vendor's whole listing. *)
LEMMA LoadAdopts ==
  ASSUME ServingInv, NEW r \in Readers, Load(r)
  PROVE  Promised!Adopt(r)
  <1>1. ListingsStand /\ \A q \in Readers \ {r} : Stands(q)
    BY OneCallerMoves DEF Reader
  <1>2. /\ rpc[r] = "await" /\ rpc'[r] = "walk" /\ initialized[at[r]] /\ at[r] \in Vendors
        /\ ptr'[r] = current[at[r]] /\ pos'[r] = 1
        /\ UNCHANGED <<heap, at, table, goal, found>>
    BY DEF Load, ServingInv, IndInv, TypeOK
  <1>3. goal[r] = NULL
    BY <1>2 DEF ServingInv, Reading
  <1>4. NextVendor(r) = at[r] /\ NextVendor(r)' = at[r] + 1
    BY <1>2 DEF NextVendor
  <1>5. ~Hits(r) /\ ~Hits(r)'
    BY <1>2 DEF Hits
  <1>6. Swapped(r)' = Swapped(r)
    BY <1>2 DEF Swapped
  <1>7. ListedBy(r)' = ListedBy(r)
    BY <1>2, <1>5 DEF ListedBy
  <1>8. /\ Listing(at[r]) # <<>>
        /\ \A p \in Pairs : p \in Ahead(r)'
                              <=> Listing(at[r]) # NULL /\ p \in Range(Listing(at[r]))
    BY <1>2, LoadedAhead
  <1>9. Answer(r)' = Promised!Adopted(Answer(r), Listing(at[r]), at[r])
    <2>1. Answer(r)' = [p \in Pairs |-> IF table[r][p] = 0 /\ p \in Ahead(r)'
                                        THEN at[r] ELSE table[r][p]]
      BY <1>2 DEF Answer
    <2>2. Answer(r) = [p \in Pairs |-> table[r][p]]
      BY <1>2 DEF Answer
    <2> QED
      BY <1>8, <2>1, <2>2 DEF Promised!Adopted, Promised!Range, Range
  <1> QED
    BY <1>1, <1>2, <1>3, <1>4, <1>6, <1>7, <1>8, <1>9, Moved
       DEF Promised!Adopt, Promised!searchVars, Promised!Vendors, Vendors

(* Putting the next node into the table changes no answer: its pair counts *)
(* as adopted already.                                                     *)
LEMMA VisitStutters ==
  ASSUME ServingInv, NEW r \in Readers, Visit(r)
  PROVE  UNCHANGED Promised!absVars
  <1>1. ListingsStand /\ \A q \in Readers \ {r} : Stands(q)
    BY OneCallerMoves DEF Reader
  <1> DEFINE list == heap[ptr[r]]
  <1>2. /\ ptr[r] # NULL /\ rpc[r] = "walk" /\ at[r] \in Vendors /\ ptr[r] \in Addr
        /\ UNCHANGED <<heap, rpc, at, goal, found>>
        /\ table'[r] = KhPut(table[r], list[pos[r]], at[r])
        /\ table[r] \in [Pairs -> 0 .. NumVendors]
    BY DEF Visit, ServingInv, IndInv, TypeOK
  <1>3. /\ ptr'[r] = IF pos[r] < Len(list) THEN ptr[r] ELSE NULL
        /\ pos'[r] = IF pos[r] < Len(list) THEN pos[r] + 1 ELSE 1
    BY DEF Visit, ServingInv, IndInv, TypeOK
  <1>4. list \in Listings /\ pos[r] \in 1 .. Len(list) /\ Len(list) \in Nat
    <2>1. [ServingNext]_vars
      BY DEF ServingNext, Reader
    <2>2. list \in Listings
      BY <1>2, <2>1, ServedListsStand DEF ServingInv
    <2> QED
      BY <1>2, <2>2, ListingType DEF ServingInv, IndInv, TypeOK, Reading
  <1>5. Ahead(r) = {list[pos[r]]} \cup Ahead(r)'
    <2>1. Ahead(r) = Range(SubSeq(list, pos[r], Len(list)))
      BY <1>2 DEF Ahead
    <2>2. Ahead(r)' = IF pos[r] < Len(list) THEN Range(SubSeq(list, pos[r] + 1, Len(list))) ELSE {}
      BY <1>2, <1>3 DEF Ahead
    <2> QED
      BY <1>4, <2>1, <2>2, RestOfList
  <1>6. Answer(r)' = Answer(r)
    <2>1. \A p \in Pairs : table'[r][p] = IF p = list[pos[r]] /\ table[r][p] = 0
                                          THEN at[r] ELSE table[r][p]
      BY <1>2 DEF KhPut
    <2>2. at[r] # 0
      BY <1>2 DEF Vendors
    <2> QED
      BY <1>2, <1>5, <2>1, <2>2 DEF Answer
  <1>7. ~Hits(r) /\ ~Hits(r)' /\ NextVendor(r)' = NextVendor(r)
    BY <1>2 DEF Hits, NextVendor
  <1>8. Swapped(r)' = Swapped(r) /\ ListedBy(r)' = ListedBy(r)
    BY <1>2, <1>7 DEF Swapped, ListedBy
  <1>9. Stands(r)
    BY <1>2, <1>6, <1>7, <1>8 DEF Stands
  <1> QED
    BY <1>1, <1>2, <1>9, Unchanged DEF ServingInv, IndInv, TypeOK

(* On to the next vendor, after the last node of a list. *)
LEMMA AdvanceStutters ==
  ASSUME ServingInv, NEW r \in Readers, Advance(r)
  PROVE  UNCHANGED Promised!absVars
  <1>1. ListingsStand /\ \A q \in Readers \ {r} : Stands(q)
    BY OneCallerMoves DEF Reader
  <1>2. /\ ptr[r] = NULL /\ rpc[r] = "walk" /\ at[r] \in Vendors
        /\ UNCHANGED <<heap, ptr, table, goal, found>>
        /\ \/ rpc'[r] = "await" /\ at'[r] = at[r] + 1
           \/ rpc'[r] = "built" /\ at'[r] = at[r]
    BY DEF Advance, ServingInv, IndInv, TypeOK
  <1>3. ~Hits(r) /\ ~Hits(r)' /\ NextVendor(r)' = NextVendor(r)
    BY <1>2 DEF Hits, NextVendor
  <1>4. Swapped(r)' = Swapped(r) /\ ListedBy(r)' = ListedBy(r)
    BY <1>2, <1>3 DEF Swapped, ListedBy
  <1>5. Answer(r)' = Answer(r)
    BY <1>2 DEF Answer, Ahead
  <1>6. Stands(r)
    BY <1>2, <1>3, <1>4, <1>5 DEF Stands
  <1> QED
    BY <1>1, <1>2, <1>6, Unchanged DEF ServingInv, IndInv, TypeOK

(* The table or the vendors found become the caller's. *)
LEMMA AnswerReturns ==
  ASSUME ServingInv, NEW r \in Readers,
         Reply(r) \/ (Move(r) /\ at[r] = NumVendors)
  PROVE  Promised!Return(r)
  <1>1. ListingsStand /\ \A q \in Readers \ {r} : Stands(q)
    BY OneCallerMoves DEF Reader
  <1>2. /\ rpc[r] \in {"built", "seekAgain", "next"} /\ rpc'[r] = "idle"
        /\ at[r] = NumVendors /\ UNCHANGED table
        /\ goal' = [goal EXCEPT ![r] = NULL] /\ found'[r] = {}
    <2>1. CASE Reply(r)
      BY <2>1 DEF Reply, ServingInv, Reading, IndInv, TypeOK
    <2>2. CASE Move(r) /\ at[r] = NumVendors
      BY <2>2, VendorsAssumption DEF Move, ServingInv, IndInv, TypeOK
    <2> QED
      BY <2>1, <2>2
  <1>3. NextVendor(r) = NumVendors + 1 /\ NextVendor(r)' = 0
    BY <1>2 DEF NextVendor
  <1>4. Answer(r)' = Answer(r)
    BY <1>2 DEF Answer
  <1>5. Swapped(r)' = Swapped(r) /\ ListedBy(r)' = {}
    BY <1>2 DEF Swapped, ListedBy, Hits
  <1> QED
    BY <1>1, <1>2, <1>3, <1>4, <1>5, Moved DEF Promised!Return

(* A vendor is asked for the pair when its list is loaded the first time,  *)
(* and for the opposite pair when it is loaded again.                      *)
LEMMA LookAsks ==
  ASSUME ServingInv, NEW r \in Readers, Look(r) \/ LookAgain(r)
  PROVE  Promised!Ask(r)
  <1>1. ListingsStand /\ \A q \in Readers \ {r} : Stands(q)
    BY OneCallerMoves DEF Reader
  <1>2. /\ rpc[r] \in {"look", "seek"} /\ at[r] \in Vendors /\ goal[r] \in Pairs
        /\ UNCHANGED <<heap, at, table, goal, found>>
    BY DEF Look, LookAgain, ServingInv, IndInv, TypeOK, Reading
  <1>3. ~Hits(r) /\ NextVendor(r) = at[r]
    BY DEF Hits, Ahead, NextVendor, Look, LookAgain
  <1>4. Swapped(r) = (rpc[r] = "seek") /\ ListedBy(r) = found[r]
    BY <1>3, Zenon DEF Swapped, ListedBy
  <1>5. Answer(r)' = Answer(r)
    BY <1>2 DEF Answer, Look, LookAgain, ServingInv, IndInv, TypeOK
  <1> DEFINE l == Listing(at[r])
             p == IF Swapped(r) THEN Opposite[goal[r]] ELSE goal[r]
             lists  == l \notin {<<>>, NULL} /\ p \in Range(l)
             leaves == lists \/ Swapped(r) \/ l = <<>>
  <1> DEFINE Asked == /\ ListedBy(r)' = IF lists THEN ListedBy(r) \cup {at[r]} ELSE ListedBy(r)
                      /\ NextVendor(r)' = IF leaves THEN at[r] + 1 ELSE at[r]
                      /\ Swapped(r)' = ~leaves
  <1>6. ASSUME Look(r), ~initialized[at[r]]
        PROVE  Asked
    <2>1. rpc[r] = "look" /\ rpc'[r] = "next"
      BY <1>6 DEF Look, ServingInv, IndInv, TypeOK
    <2>2. l = <<>>
      BY <1>6 DEF Listing
    <2>3. ~Hits(r)' /\ NextVendor(r)' = at[r] + 1
      BY <1>2, <2>1 DEF Hits, NextVendor
    <2>4. ~lists /\ leaves
      BY <2>2
    <2>5. Swapped(r)' = ~leaves
      BY <2>1, <2>4, Zenon DEF Swapped
    <2>6. ListedBy(r)' = IF lists THEN ListedBy(r) \cup {at[r]} ELSE ListedBy(r)
      BY <1>2, <1>4, <2>3, <2>4 DEF ListedBy
    <2>7. NextVendor(r)' = IF leaves THEN at[r] + 1 ELSE at[r]
      BY <2>3, <2>4
    <2> QED
      BY <2>5, <2>6, <2>7
  <1>7. ASSUME Look(r), initialized[at[r]]
        PROVE  Asked
    <2>1. /\ rpc[r] = "look" /\ rpc'[r] = "seek"
          /\ ptr'[r] = current[at[r]] /\ pos'[r] = 1
      BY <1>7 DEF Look, ServingInv, IndInv, TypeOK
    <2>2. l # <<>> /\ \A x \in Pairs : x \in Ahead(r)' <=> l # NULL /\ x \in Range(l)
      BY <1>2, <1>7, <2>1, LoadedAhead
    <2>3. Wanted(r)' = p
      BY <1>2, <1>4, <2>1 DEF Wanted
    <2>4. p = goal[r] /\ p \in Pairs /\ ~Swapped(r)
      BY <1>2, <1>4, <2>1
    <2>5. Hits(r)' <=> lists
      BY <2>1, <2>2, <2>3, <2>4 DEF Hits
    <2>6. leaves <=> lists
      BY <2>2, <2>4
    <2>7. NextVendor(r)' = IF leaves THEN at[r] + 1 ELSE at[r]
      BY <1>2, <2>1, <2>5, <2>6 DEF NextVendor
    <2>8. Swapped(r)' = ~leaves
      BY <2>1, <2>5, <2>6, Zenon DEF Swapped
    <2>9. ListedBy(r)' = IF lists THEN ListedBy(r) \cup {at[r]} ELSE ListedBy(r)
      BY <1>2, <1>4, <2>5 DEF ListedBy
    <2> QED
      BY <2>7, <2>8, <2>9
  <1>8. ASSUME LookAgain(r)
        PROVE  Asked
    <2>1. /\ rpc[r] = "seek" /\ rpc'[r] = "seekAgain"
          /\ ptr'[r] = current[at[r]] /\ pos'[r] = 1
          /\ initialized[at[r]]
      BY <1>8 DEF LookAgain, ServingInv, IndInv, TypeOK, Reading
    <2>2. l # <<>> /\ \A x \in Pairs : x \in Ahead(r)' <=> l # NULL /\ x \in Range(l)
      BY <1>2, <2>1, LoadedAhead
    <2>3. p = Opposite[goal[r]] /\ p \in Pairs /\ Swapped(r)
      BY <1>2, <1>4, <2>1, SearchAssumption
    <2>4. Wanted(r)' = p
      BY <1>2, <2>1, <2>3 DEF Wanted
    <2>5. Hits(r)' <=> lists
      BY <2>1, <2>2, <2>3, <2>4 DEF Hits
    <2>6. leaves /\ NextVendor(r)' = at[r] + 1
      BY <1>2, <2>1, <2>3 DEF NextVendor
    <2>7. Swapped(r)' = ~leaves
      BY <2>1, <2>6, Zenon DEF Swapped
    <2>8. ListedBy(r)' = IF lists THEN ListedBy(r) \cup {at[r]} ELSE ListedBy(r)
      BY <1>2, <1>4, <2>5 DEF ListedBy
    <2> QED
      BY <2>6, <2>7, <2>8
  <1>9. Asked
    BY <1>6, <1>7, <1>8
  <1>10. Promised!Lists(r) = lists
    <2>1. [q \in Readers |-> Swapped(q)][r] = Swapped(r)
      BY Zenon
    <2>2. [q \in Readers |-> NextVendor(q)][r] = at[r] /\ [v \in Vendors |-> Listing(v)][at[r]] = l
      BY <1>2, <1>3
    <2>3. (IF [q \in Readers |-> Swapped(q)][r] THEN Opposite[goal[r]] ELSE goal[r]) = p
      BY <2>1, Zenon
    <2>4. Promised!Lists(r) = (/\ [v \in Vendors |-> Listing(v)][at[r]] \notin {<<>>, NULL}
                               /\ p \in Promised!Range([v \in Vendors |-> Listing(v)][at[r]]))
      BY <2>2, <2>3, Zenon DEF Promised!Lists
    <2> QED
      BY <2>2, <2>4 DEF Promised!Range, Range
  <1>11. Promised!Leaves(r) = leaves
    <2>1. [q \in Readers |-> Swapped(q)][r] = Swapped(r)
      BY Zenon
    <2>2. [v \in Vendors |-> Listing(v)][[q \in Readers |-> NextVendor(q)][r]] = l
      BY <1>2, <1>3
    <2> QED
      BY <1>10, <2>1, <2>2, Zenon DEF Promised!Leaves
  <1> HIDE DEF lists, leaves
  <1>12. [q \in Readers |-> Swapped(q)]'
           = [[q \in Readers |-> Swapped(q)] EXCEPT ![r] = ~Promised!Leaves(r)]
    BY <1>1, <1>9, <1>11, Moved, Zenon
  <1>13. [q \in Readers |-> NextVendor(q)]'
           = [[q \in Readers |-> NextVendor(q)] EXCEPT ![r] = IF Promised!Leaves(r) THEN @ + 1 ELSE @]
    BY <1>1, <1>3, <1>9, <1>11, Moved
  <1>14. [q \in Readers |-> ListedBy(q)]'
           = [[q \in Readers |-> ListedBy(q)] EXCEPT ![r] = IF Promised!Lists(r) THEN @ \cup {at[r]} ELSE @]
    BY <1>1, <1>9, <1>10, Moved
  <1>15. UNCHANGED <<[v \in Vendors |-> Listing(v)], [q \in Readers |-> Answer(q)], goal>>
    BY <1>1, <1>2, <1>5, Moved
  <1>16. goal[r] # NULL /\ [q \in Readers |-> NextVendor(q)][r] = at[r]
    BY <1>2, <1>3, NullAssumption
  <1> QED
    BY <1>2, <1>12, <1>13, <1>14, <1>15, <1>16 DEF Promised!Ask, Promised!Vendors, Vendors

(* Comparing one node changes nothing of what the promise speaks of: a     *)
(* vendor counts as found once the pair is ahead of the cursor.            *)
LEMMA CompareStutters ==
  ASSUME ServingInv, NEW r \in Readers, Compare(r)
  PROVE  UNCHANGED Promised!absVars
  <1>1. ListingsStand /\ \A q \in Readers \ {r} : Stands(q)
    BY OneCallerMoves DEF Reader
  <1> DEFINE list == heap[ptr[r]]
             fits == list[pos[r]] = Wanted(r)
             goes == ~fits /\ pos[r] < Len(list)
  <1>2. /\ ptr[r] # NULL /\ rpc[r] \in {"seek", "seekAgain"}
        /\ UNCHANGED <<heap, at, goal, table>>
        /\ rpc'[r] = IF fits THEN "next" ELSE rpc[r]
        /\ found'[r] = IF fits THEN found[r] \cup {at[r]} ELSE found[r]
        /\ ptr'[r] = IF goes THEN ptr[r] ELSE NULL
        /\ pos'[r] = IF goes THEN pos[r] + 1 ELSE 1
    BY DEF Compare, ServingInv, IndInv, TypeOK
  <1>3. list \in Listings /\ pos[r] \in 1 .. Len(list) /\ Len(list) \in Nat
    <2>1. [ServingNext]_vars
      BY DEF ServingNext, Reader
    <2>2. list \in Listings
      BY <1>2, <2>1, ServedListsStand DEF ServingInv
    <2> QED
      BY <1>2, <2>2, ListingType DEF ServingInv, IndInv, TypeOK, Reading
  <1>4. Ahead(r) = {list[pos[r]]} \cup
                     (IF pos[r] < Len(list) THEN Range(SubSeq(list, pos[r] + 1, Len(list))) ELSE {})
    BY <1>2, <1>3, RestOfList DEF Ahead
  <1>5. CASE fits
    <2>1. Hits(r) /\ ~Hits(r)'
      BY <1>2, <1>4, <1>5 DEF Hits
    <2>2. NextVendor(r)' = NextVendor(r)
      BY <1>2, <1>5, <2>1 DEF NextVendor
    <2>3. Swapped(r)' = Swapped(r)
      BY <1>2, <1>5, <2>1 DEF Swapped
    <2>4. ListedBy(r)' = ListedBy(r)
      BY <1>2, <1>5, <2>1 DEF ListedBy
    <2>5. Answer(r)' = Answer(r)
      BY <1>2, <1>5 DEF Answer
    <2> QED
      BY <1>1, <1>2, <2>2, <2>3, <2>4, <2>5, Unchanged DEF Stands, ServingInv, IndInv, TypeOK
  <1>6. CASE ~fits
    <2>1. rpc'[r] = rpc[r] /\ Wanted(r)' = Wanted(r) /\ found'[r] = found[r]
      BY <1>2, <1>6 DEF Wanted
    <2>2. Ahead(r)' = IF pos[r] < Len(list) THEN Range(SubSeq(list, pos[r] + 1, Len(list))) ELSE {}
      BY <1>2, <1>6 DEF Ahead
    <2>3. Wanted(r) \in Ahead(r)' <=> Wanted(r) \in Ahead(r)
      BY <1>4, <1>6, <2>2
    <2>4. Hits(r)' = Hits(r)
      BY <2>1, <2>3 DEF Hits
    <2>5. NextVendor(r)' = NextVendor(r)
      BY <1>2, <2>1, <2>4 DEF NextVendor
    <2>6. Swapped(r)' = Swapped(r)
      BY <2>1, <2>4 DEF Swapped
    <2>7. ListedBy(r)' = ListedBy(r)
      BY <1>2, <2>1, <2>4 DEF ListedBy
    <2>8. Answer(r)' = Answer(r)
      BY <1>2, <2>1 DEF Answer
    <2> QED
      BY <1>1, <1>2, <2>5, <2>6, <2>7, <2>8, Unchanged DEF Stands, ServingInv, IndInv, TypeOK
  <1> QED
    BY <1>5, <1>6

LEMMA MoveStutters ==
  ASSUME ServingInv, NEW r \in Readers, Move(r), at[r] < NumVendors
  PROVE  UNCHANGED Promised!absVars
  <1>1. ListingsStand /\ \A q \in Readers \ {r} : Stands(q)
    BY OneCallerMoves DEF Reader
  <1>2. /\ ptr[r] = NULL /\ rpc[r] \in {"seekAgain", "next"} /\ rpc'[r] = "look"
        /\ at[r] \in Vendors /\ at'[r] = at[r] + 1
        /\ UNCHANGED <<heap, ptr, table, goal, found>>
    BY DEF Move, ServingInv, IndInv, TypeOK
  <1>3. ~Hits(r) /\ ~Hits(r)' /\ NextVendor(r)' = NextVendor(r)
    BY <1>2 DEF Hits, NextVendor, Ahead
  <1>4. Swapped(r)' = Swapped(r) /\ ListedBy(r)' = ListedBy(r)
    BY <1>2, <1>3 DEF Swapped, ListedBy
  <1>5. Answer(r)' = Answer(r)
    BY <1>2 DEF Answer
  <1>6. Stands(r)
    BY <1>2, <1>3, <1>4, <1>5 DEF Stands
  <1> QED
    BY <1>1, <1>2, <1>6, Unchanged DEF ServingInv, IndInv, TypeOK

-----------------------------------------------------------------------------
(* Every step of the cache is a step of the promise, or is not seen by it. *)
LEMMA StepKept ==
  ASSUME ServingInv, [ServingNext]_vars
  PROVE  [Promised!Next]_(Promised!absVars)
  <1>1. ServingInv'
    BY ServingStep
  <1>2. CASE Tick \/ (\E v \in Vendors : Reclaim(v) \/ Sleep(v) \/ Wake(v) \/ LoopBack(v) \/ Exit(v))
              \/ UNCHANGED vars
    BY <1>1, <1>2, Housekeeping
  <1>3. ASSUME NEW v \in Vendors, Publish(v) \/ MarkInitialized(v)
        PROVE  [Promised!Next]_(Promised!absVars)
    BY <1>3, PublishRefreshes
  <1>4. ASSUME NEW r \in Readers, Call(r) \/ Search(r)
        PROVE  Promised!Next
    BY <1>4, CallBegins DEF Promised!Next
  <1>5. ASSUME NEW r \in Readers, Load(r)
        PROVE  Promised!Next
    BY <1>5, LoadAdopts DEF Promised!Next
  <1>6. ASSUME NEW r \in Readers, Visit(r) \/ Advance(r) \/ Compare(r)
        PROVE  UNCHANGED Promised!absVars
    BY <1>6, VisitStutters, AdvanceStutters, CompareStutters
  <1>7. ASSUME NEW r \in Readers, Look(r) \/ LookAgain(r)
        PROVE  Promised!Next
    BY <1>7, LookAsks DEF Promised!Next
  <1>8. ASSUME NEW r \in Readers, Reply(r)
        PROVE  Promised!Next
    BY <1>8, AnswerReturns DEF Promised!Next
  <1>9. ASSUME NEW r \in Readers, Move(r)
        PROVE  [Promised!Next]_(Promised!absVars)
    <2>1. at[r] < NumVendors \/ at[r] = NumVendors
      BY VendorsAssumption DEF ServingInv, IndInv, TypeOK, Vendors
    <2>2. CASE at[r] < NumVendors
      BY <1>9, <2>2, MoveStutters
    <2>3. CASE at[r] = NumVendors
      BY <1>9, <2>3, AnswerReturns DEF Promised!Next
    <2> QED
      BY <2>1, <2>2, <2>3
  <1>10. ASSUME NEW r \in Readers, Fault(r) PROVE FALSE
    <2>1. ~Freed(at[r])
      BY DEF ServingInv, IndInv, TypeOK, Freed, Vendors
    <2> QED
      BY <1>10, <2>1, CursorsIntact DEF Fault, NoReadAfterFree, ServingInv
  <1> QED
    BY <1>2, <1>3, <1>4, <1>5, <1>6, <1>7, <1>8, <1>9, <1>10 DEF ServingNext, Updater, Reader

LEMMA StartKept == Init => Promised!Init
  <1> SUFFICES ASSUME Init PROVE Promised!Init
    OBVIOUS
  <1>1. \A v \in Vendors : Listing(v) = <<>>
    BY DEF Init, Listing
  <1>2. \A r \in Readers : ~Hits(r) /\ NextVendor(r) = 0
    BY DEF Init, Hits, NextVendor
  <1>3. \A r \in Readers : Answer(r) = [p \in Pairs |-> 0] /\ ListedBy(r) = {}
    BY <1>2 DEF Init, Answer, ListedBy
  <1>4. [r \in Readers |-> Swapped(r)] = [r \in Readers |-> FALSE]
    BY DEF Init, Swapped
  <1> QED
    BY <1>1, <1>2, <1>3, <1>4 DEF Promised!Init, Promised!Vendors, Vendors, Init

(* While the server serves, whatever the threads' interleaving: every      *)
(* answer of vendor_get_all_trading_pairs is built from one whole listing  *)
(* of each vendor, and every vendors_with_market asks each vendor in two   *)
(* whole listings.  This is the safety part of KeepsPromise.               *)
THEOREM PromiseKept ==
  ServingSpec => Promised!Init /\ [][Promised!Next]_(Promised!absVars)
  BY StartKept, StepKept, Serving, PTL DEF ServingSpec
=============================================================================
