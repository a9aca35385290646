-------------------------- MODULE MarketCacheProofs --------------------------
(***************************************************************************)
(* Theorems about MarketCache, for every number of vendors and readers,    *)
(* every set of listings and cells, and every MarketTimeout longer than a  *)
(* walk.  The argument is the one of IndInv: see there.                    *)
(***************************************************************************)
EXTENDS MarketCache, TLAPS

USE DEF Vendors

(* A cell that the allocator hands out is a free one. *)
LEMMA MallocFree ==
  ASSUME NEW v \in Vendors, NEW a \in Malloc(v, {b \in Addr : heap[b] = NULL})
  PROVE  a \in Addr /\ heap[a] = NULL
  <1>1. {b \in Addr : heap[b] = NULL} \in SUBSET Addr
    OBVIOUS
  <1>2. Malloc(v, {b \in Addr : heap[b] = NULL}) \subseteq {b \in Addr : heap[b] = NULL}
    BY <1>1, MallocAssumption
  <1> QED
    BY <1>2

(* The table stays a table of vendors when a pair is put into it. *)
LEMMA KhPutType ==
  ASSUME NEW tab \in [Pairs -> 0 .. NumVendors], NEW p, NEW v \in Vendors
  PROVE  KhPut(tab, p, v) \in [Pairs -> 0 .. NumVendors]
  <1>1. KhPut(tab, p, v) = [q \in Pairs |-> IF q = p /\ tab[p] = 0 THEN v ELSE tab[q]]
    BY DEF KhPut
  <1>2. \A q \in Pairs : tab[q] \in 0 .. NumVendors
    OBVIOUS
  <1>3. v \in 0 .. NumVendors
    BY VendorsAssumption
  <1> HIDE DEF Vendors
  <1> QED
    BY <1>1, <1>2, <1>3

(* Every variable starts, and stays, within its type; the count of seconds *)
(* does because a nap is begun below MarketTimeout only.                   *)
LEMMA TypeInit == Init => TypeOK
  <1>1. 1 \in Vendors /\ 0 \in Nat
    BY VendorsAssumption
  <1> QED
    BY <1>1, TimingAssumption, VendorsAssumption DEF Init, TypeOK

LEMMA TypeNext == TypeOK /\ GracePeriod /\ [Next]_vars => TypeOK'
  <1> SUFFICES ASSUME TypeOK, GracePeriod, [Next]_vars PROVE TypeOK'
    OBVIOUS
  <1> USE VendorsAssumption, TimingAssumption DEF TypeOK
  <1>1. ASSUME NEW v \in Vendors, Reclaim(v) PROVE TypeOK'
    BY <1>1 DEF Reclaim, UpdaterStep, MarketFree, readerVars
  <1>2. ASSUME NEW v \in Vendors, Publish(v) PROVE TypeOK'
    <2>1. CASE \E a \in Malloc(v, {b \in Addr : heap[b] = NULL}), l \in Listings :
                 /\ heap' = [heap EXCEPT ![a] = l]
                 /\ current' = [current EXCEPT ![v] = a]
      <3>1. PICK a \in Malloc(v, {b \in Addr : heap[b] = NULL}), l \in Listings :
                 /\ heap' = [heap EXCEPT ![a] = l]
                 /\ current' = [current EXCEPT ![v] = a]
        BY <2>1
      <3>2. a \in Addr
        BY MallocFree
      <3> QED
        BY <1>2, <3>1, <3>2 DEF Publish, UpdaterStep, readerVars
    <2>2. CASE current' = [current EXCEPT ![v] = NULL] /\ UNCHANGED heap
      BY <1>2, <2>2 DEF Publish, UpdaterStep, readerVars
    <2> QED
      BY <1>2, <2>1, <2>2 DEF Publish
  <1>3. ASSUME NEW v \in Vendors, MarkInitialized(v) PROVE TypeOK'
    BY <1>3 DEF MarkInitialized, UpdaterStep, readerVars
  <1>4. ASSUME NEW v \in Vendors, Sleep(v) PROVE TypeOK'
    BY <1>4 DEF Sleep, UpdaterStep, readerVars
  <1>5. ASSUME NEW v \in Vendors, Wake(v) PROVE TypeOK'
    <2>1. sTotal[v] + 1 \in 0 .. MarketTimeout
      BY <1>5 DEF Wake, UpdaterStep, GracePeriod
    <2> QED
      BY <1>5, <2>1 DEF Wake, UpdaterStep, readerVars
  <1>6. ASSUME NEW v \in Vendors, LoopBack(v) \/ Exit(v) PROVE TypeOK'
    BY <1>6 DEF LoopBack, Exit, UpdaterStep, readerVars
  <1>7. ASSUME NEW r \in Readers, Call(r) PROVE TypeOK'
    BY <1>7 DEF Call, updaterVars
  <1>8. ASSUME NEW r \in Readers, Load(r) PROVE TypeOK'
    BY <1>8 DEF Load, updaterVars
  <1>9. ASSUME NEW r \in Readers, Visit(r) PROVE TypeOK'
    <2> DEFINE list == heap[ptr[r]]
    <2>1. table' \in [Readers -> [Pairs -> 0 .. NumVendors]]
      <3>1. KhPut(table[r], list[pos[r]], at[r]) \in [Pairs -> 0 .. NumVendors]
        BY KhPutType
      <3> QED
        BY <1>9, <3>1 DEF Visit
    <2>2. ptr' \in [Readers -> Addr \cup {NULL}] /\ held' \in [Readers -> 0 .. MaxHold]
      BY <1>9 DEF Visit
    <2>3. pos' \in [Readers -> Nat \ {0}]
      <3>1. pos[r] + 1 \in Nat \ {0} /\ 1 \in Nat \ {0}
        OBVIOUS
      <3> QED
        BY <1>9, <3>1 DEF Visit
    <2> QED
      BY <1>9, <2>1, <2>2, <2>3 DEF Visit, updaterVars
  <1>10. ASSUME NEW r \in Readers, Advance(r) PROVE TypeOK'
    <2>1. CASE at[r] < NumVendors
      <3>1. at[r] + 1 \in Vendors
        BY <2>1
      <3> QED
        BY ZenonT(60), <1>10, <2>1, <3>1 DEF Advance, updaterVars
    <2>2. CASE ~(at[r] < NumVendors)
      BY <1>10, <2>2 DEF Advance, updaterVars
    <2> QED
      BY <2>1, <2>2
  <1>11. ASSUME NEW r \in Readers, Reply(r) \/ Fault(r) PROVE TypeOK'
    BY <1>11 DEF Reply, Fault, updaterVars
  <1>12. CASE BeginShutdown
    BY <1>12 DEF BeginShutdown, Stop, readerVars
  <1>13. CASE FreeVendor
    BY <1>13 DEF FreeVendor, Stop, MarketFree, readerVars
  <1>14. CASE Tick
    <2>1. held' \in [Readers -> 0 .. MaxHold]
      BY <1>14, TimingAssumption DEF Tick
    <2>2. rested' \in [Vendors -> BOOLEAN]
      BY <1>14, Zenon DEF Tick
    <2> QED
      BY <1>14, <2>1, <2>2, ZenonT(30) DEF Tick
  <1>15. CASE UNCHANGED vars
    BY <1>15 DEF vars, updaterVars, readerVars
  <1>16. ASSUME NEW r \in Readers, Search(r) PROVE TypeOK'
    BY <1>16, SearchAssumption DEF Search, updaterVars
  <1>17. ASSUME NEW r \in Readers, Look(r) \/ LookAgain(r) PROVE TypeOK'
    <2>1. CASE Look(r)
      <3>1. /\ ptr' \in [Readers -> Addr \cup {NULL}]
            /\ rpc' \in [Readers -> {"idle", "await", "walk", "built", "fault",
                                     "look", "seek", "seekAgain", "next"}]
        BY ZenonT(60), <2>1 DEF Look
      <3> QED
        BY SMTT(30), <2>1, <3>1 DEF Look, updaterVars
    <2>2. CASE LookAgain(r)
      BY <2>2 DEF LookAgain, updaterVars
    <2> QED
      BY <1>17, <2>1, <2>2
  <1>18. ASSUME NEW r \in Readers, Compare(r) PROVE TypeOK'
    <2>1. pos' \in [Readers -> Nat \ {0}]
      <3>1. pos[r] + 1 \in Nat \ {0} /\ 1 \in Nat \ {0}
        OBVIOUS
      <3> QED
        BY <1>18, <3>1 DEF Compare
    <2>2. ptr' \in [Readers -> Addr \cup {NULL}] /\ held' \in [Readers -> 0 .. MaxHold]
      BY <1>18 DEF Compare
    <2>3. found' \in [Readers -> SUBSET Vendors]
      <3>1. found[r] \cup {at[r]} \in SUBSET Vendors
        OBVIOUS
      <3> QED
        BY <1>18, <3>1 DEF Compare
    <2> QED
      BY <1>18, <2>1, <2>2, <2>3 DEF Compare, updaterVars
  <1>19. ASSUME NEW r \in Readers, Move(r) PROVE TypeOK'
    <2>1. CASE at[r] < NumVendors
      <3>1. at[r] + 1 \in Vendors
        BY <2>1
      <3> QED
        BY <1>19, <2>1, <3>1 DEF Move, updaterVars
    <2>2. CASE ~(at[r] < NumVendors)
      BY ZenonT(60), <1>19, <2>2 DEF Move, updaterVars
    <2> QED
      BY <2>1, <2>2
  <1> QED
    BY <1>1, <1>2, <1>3, <1>4, <1>5, <1>6, <1>7, <1>8, <1>9, <1>10, <1>11, <1>12,
       <1>13, <1>14, <1>15, <1>16, <1>17, <1>18, <1>19
       DEF Next, ServingNext, Updater, Reader

(* Lists are never lost nor freed twice: every allocated cell has exactly  *)
(* one owner, and its owner hands it over from current to old.             *)
LEMMA OwnedInit == Init => EveryListOwned /\ HandOver
  BY NullAssumption DEF Init, EveryListOwned, Snapshots, HandOver

LEMMA OwnedNext ==
  TypeOK /\ EveryListOwned /\ HandOver /\ GracePeriod /\ [Next]_vars
    => EveryListOwned' /\ HandOver'
  <1> SUFFICES ASSUME TypeOK, EveryListOwned, HandOver, GracePeriod, [Next]_vars
               PROVE  EveryListOwned' /\ HandOver'
    OBVIOUS
  <1> USE DEF EveryListOwned, Snapshots, HandOver
  <1>0. NULL \notin Addr /\ NULL \notin Listings
    BY NullAssumption
  <1> USE <1>0
  <1>1. ASSUME NEW v \in Vendors, Reclaim(v) PROVE EveryListOwned' /\ HandOver'
    <2>1. /\ upc' = [upc EXCEPT ![v] = "fetch"] /\ upc[v] = "reclaim"
          /\ heap' = [b \in Addr |-> IF b = old[v] THEN NULL ELSE heap[b]]
          /\ old' = [old EXCEPT ![v] = current[v]]
          /\ current' = current
      BY <1>1 DEF Reclaim, UpdaterStep, MarketFree
    <2>2. old' [v] = current[v] /\ \A w \in Vendors \ {v} : old'[w] = old[w] /\ upc'[w] = upc[w]
      BY <2>1 DEF TypeOK
    <2>3. HandOver'
      BY <2>1, <2>2 DEF TypeOK
    <2>4. \A a \in Addr : heap'[a] # NULL <=> a # old[v] /\ heap[a] # NULL
      BY <2>1
    <2>5. ASSUME NEW a \in Addr
          PROVE  (a # old[v] /\ heap[a] # NULL) <=> \E w \in Vendors : a \in {current'[w], old'[w]}
      <3>1. ASSUME a # old[v], heap[a] # NULL
            PROVE  \E w \in Vendors : a \in {current'[w], old'[w]}
        <4>1. PICK w \in Vendors : a \in {current[w], old[w]}
          BY <3>1
        <4> QED
          BY <3>1, <4>1, <2>1, <2>2
      <3>2. ASSUME NEW w \in Vendors, a \in {current'[w], old'[w]}
            PROVE  a # old[v] /\ heap[a] # NULL
        <4>1. a \in {current[w], old[w]}
          BY <3>2, <2>1, <2>2
        <4>2. w = v => a = current[v]
          BY <3>2, <2>1, <2>2
        <4>3. CASE w = v
          BY <4>2, <4>3, <2>1
        <4>4. CASE w # v
          <5>1. {current[w], old[w]} \cap {current[v], old[v]} \subseteq {NULL}
            BY <4>4
          <5>2. a # old[v]
            BY ZenonT(60), <4>1, <5>1
          <5> QED
            BY <4>1, <5>2
        <4> QED
          BY <4>1, <4>2, <4>3, <4>4
      <3> QED
        BY <3>1, <3>2
    <2>6. \A w, u \in Vendors : w # u => {current'[w], old'[w]} \cap {current'[u], old'[u]} \subseteq {NULL}
      BY <2>1, <2>2
    <2> QED
      BY <2>3, <2>4, <2>5, <2>6
  <1>2. ASSUME NEW v \in Vendors, Publish(v) PROVE EveryListOwned' /\ HandOver'
    <2>1. CASE \E a \in Malloc(v, {b \in Addr : heap[b] = NULL}), l \in Listings :
                 /\ heap' = [heap EXCEPT ![a] = l]
                 /\ current' = [current EXCEPT ![v] = a]
      <3>1. PICK a \in Malloc(v, {b \in Addr : heap[b] = NULL}), l \in Listings :
                 /\ heap' = [heap EXCEPT ![a] = l]
                 /\ current' = [current EXCEPT ![v] = a]
        BY <2>1
      <3>2. a \in Addr /\ heap[a] = NULL /\ l # NULL
        BY MallocFree
      <3> QED
        BY <1>2, <3>1, <3>2 DEF Publish, UpdaterStep, TypeOK
    <2>2. CASE current' = [current EXCEPT ![v] = NULL] /\ UNCHANGED heap
      BY <1>2, <2>2 DEF Publish, UpdaterStep, TypeOK
    <2> QED
      BY <1>2, <2>1, <2>2 DEF Publish
  <1>3. ASSUME NEW v \in Vendors,
               MarkInitialized(v) \/ Sleep(v) \/ Wake(v) \/ LoopBack(v) \/ Exit(v)
        PROVE  EveryListOwned' /\ HandOver'
    <2>1. /\ UNCHANGED <<heap, current, old>>
          /\ upc[v] # "fetch" /\ upc'[v] # "fetch"
          /\ \A w \in Vendors \ {v} : upc'[w] = upc[w]
      <3>1. CASE MarkInitialized(v)
        BY <3>1 DEF MarkInitialized, UpdaterStep, TypeOK
      <3>2. CASE Sleep(v)
        BY <3>2 DEF Sleep, UpdaterStep, TypeOK
      <3>3. CASE Wake(v)
        BY <3>3 DEF Wake, UpdaterStep, TypeOK
      <3>4. CASE LoopBack(v)
        BY <3>4 DEF LoopBack, UpdaterStep, TypeOK
      <3>5. CASE Exit(v)
        BY <3>5 DEF Exit, UpdaterStep, TypeOK
      <3> QED
        BY <1>3, <3>1, <3>2, <3>3, <3>4, <3>5
    <2> QED
      BY <2>1
  <1>4. CASE FreeVendor
    <2>1. /\ stage \in Vendors /\ upc[stage] = "done"
          /\ heap' = [b \in Addr |-> IF b = current[stage] THEN NULL ELSE heap[b]]
          /\ old' = old /\ upc' = upc
          /\ current'[stage] = NULL
          /\ \A w \in Vendors \ {stage} : current'[w] = current[w]
      BY <1>4 DEF FreeVendor, MarketFree, TypeOK
    <2>2. HandOver'
      BY <2>1
    <2>3. \A w, u \in Vendors : w # u => {current'[w], old'[w]} \cap {current'[u], old'[u]} \subseteq {NULL}
      BY <2>1
    <2>4. ASSUME NEW a \in Addr
          PROVE  heap'[a] # NULL <=> \E w \in Vendors : a \in {current'[w], old'[w]}
      <3>1. ASSUME heap'[a] # NULL
            PROVE  \E w \in Vendors : a \in {current'[w], old'[w]}
        <4>1. heap[a] # NULL /\ a # current[stage]
          BY <2>1, <3>1
        <4>2. PICK w \in Vendors : a \in {current[w], old[w]}
          BY <4>1
        <4> QED
          BY <4>1, <4>2, <2>1
      <3>2. ASSUME NEW w \in Vendors, a \in {current'[w], old'[w]}
            PROVE  heap'[a] # NULL
        <4>1. a \in {current[w], old[w]} /\ (w = stage => a = old[stage])
          BY <3>2, <2>1
        <4>2. CASE w = stage
          BY <4>1, <4>2, <2>1
        <4>3. CASE w # stage
          <5>1. {current[w], old[w]} \cap {current[stage], old[stage]} \subseteq {NULL}
            BY <4>3, <2>1
          <5>2. a # current[stage]
            BY ZenonT(60), <4>1, <5>1
          <5> QED
            BY <4>1, <5>2, <2>1
        <4> QED
          BY <4>2, <4>3
      <3> QED
        BY <3>1, <3>2
    <2> QED
      BY <2>2, <2>3, <2>4
  <1>5. CASE UNCHANGED <<heap, current, old, upc>>
    BY <1>5
  <1>6. ASSUME NEW r \in Readers, Call(r) \/ Search(r) \/ Reader(r)
        PROVE  UNCHANGED <<heap, current, old, upc>>
    BY <1>6 DEF Reader, Call, Search, Load, Visit, Advance, Reply, Look, Compare,
                LookAgain, Move, Fault, updaterVars
  <1>7. CASE BeginShutdown \/ Tick \/ UNCHANGED vars
    BY <1>5, <1>7 DEF BeginShutdown, Tick, vars, updaterVars
  <1> QED
    BY <1>1, <1>2, <1>3, <1>4, <1>5, <1>6, <1>7 DEF Next, ServingNext, Updater

(* A reader that still walks a replaced list has held it for as long as the *)
(* vendor has slept since the swap.                                         *)
LEMMA GraceInit == Init => GracePeriod
  BY DEF Init, GracePeriod, Freed

LEMMA GraceNext ==
  TypeOK /\ EveryListOwned /\ HandOver /\ GracePeriod /\ [Next]_vars => GracePeriod'
  <1> SUFFICES ASSUME TypeOK, EveryListOwned, HandOver, GracePeriod, [Next]_vars
               PROVE  GracePeriod'
    OBVIOUS
  <1>a. \A v \in Vendors : sTotal[v] \in 0 .. MarketTimeout
    BY DEF TypeOK
  <1>b. ASSUME NEW v \in Vendors, Publish(v)
        PROVE  \A w \in Vendors \ {v} : current'[w] = current[w]
    BY <1>b DEF Publish, TypeOK
  <1> USE TimingAssumption DEF TypeOK, GracePeriod, Protected, Elapsed, Freed
  <1>1. ASSUME NEW v \in Vendors, Reclaim(v) PROVE GracePeriod'
    BY <1>1 DEF Reclaim, UpdaterStep, readerVars
  <1>2. ASSUME NEW v \in Vendors, Publish(v) PROVE GracePeriod'
    <2>1. /\ upc[v] = "fetch" /\ old[v] = current[v]
          /\ upc' = [upc EXCEPT ![v] = "mark"]
          /\ \A w \in Vendors \ {v} : current'[w] = current[w]
          /\ UNCHANGED <<old, running, sTotal, rested, rpc, at, ptr, held, stage>>
      BY <1>2, <1>b DEF Publish, UpdaterStep, readerVars, HandOver
    <2>2. ASSUME NEW r \in Readers, ptr[r] # NULL, Protected(r)
          PROVE  Protected(r)'
      <3>1. CASE at[r] = v
        BY <2>1, <2>2, <3>1
      <3>2. CASE at[r] # v
        BY <2>1, <2>2, <3>2
      <3> QED
        BY <3>1, <3>2
    <2> QED
      BY <2>1, <2>2
  <1>3. ASSUME NEW v \in Vendors, MarkInitialized(v) PROVE GracePeriod'
    BY <1>3 DEF MarkInitialized, UpdaterStep, readerVars
  <1>4. ASSUME NEW v \in Vendors, Sleep(v) PROVE GracePeriod'
    BY <1>4 DEF Sleep, UpdaterStep, readerVars
  <1>5. ASSUME NEW v \in Vendors, Wake(v) PROVE GracePeriod'
    BY <1>5 DEF Wake, UpdaterStep, readerVars
  <1>6. ASSUME NEW v \in Vendors, LoopBack(v) PROVE GracePeriod'
    <2>1. sTotal[v] = MarketTimeout /\ ~rested[v] /\ upc[v] = "test"
      <3>1. upc[v] = "test" /\ sTotal[v] >= MarketTimeout
        BY <1>6 DEF LoopBack, UpdaterStep
      <3>2. sTotal[v] \in 0 .. MarketTimeout
        BY <1>a
      <3>3. sTotal[v] = MarketTimeout
        BY <3>1, <3>2
      <3>4. ~rested[v]
        BY <3>1
      <3> QED
        BY <3>1, <3>3, <3>4
    <2>2. /\ upc' = [upc EXCEPT ![v] = "reclaim"]
          /\ UNCHANGED <<current, old, running, sTotal, rested, rpc, at, ptr, held, stage>>
      BY <1>6 DEF LoopBack, UpdaterStep, readerVars
    <2>3. ASSUME NEW r \in Readers, ptr[r] # NULL, Protected(r)
          PROVE  Protected(r)'
      BY <2>1, <2>2, <2>3
    <2> QED
      BY <2>1, <2>2, <2>3
  <1>7. ASSUME NEW v \in Vendors, Exit(v) PROVE GracePeriod'
    BY <1>7 DEF Exit, UpdaterStep, readerVars
  <1>8. ASSUME NEW r \in Readers, Call(r) PROVE GracePeriod'
    BY <1>8 DEF Call, updaterVars
  <1>9. ASSUME NEW r \in Readers, Load(r) PROVE GracePeriod'
    BY <1>9 DEF Load, updaterVars
  <1>10. ASSUME NEW r \in Readers, Visit(r) PROVE GracePeriod'
    BY <1>10 DEF Visit, updaterVars
  <1>11. ASSUME NEW r \in Readers, Advance(r) PROVE GracePeriod'
    <2>1. /\ UNCHANGED <<current, old, upc, sTotal, rested, held, ptr, stage>>
          /\ ptr[r] = NULL /\ rpc'[r] # "fault"
          /\ \A q \in Readers \ {r} : rpc'[q] = rpc[q] /\ at'[q] = at[q]
      BY <1>11 DEF Advance, updaterVars
    <2> QED
      BY ZenonT(60), <2>1
  <1>12. ASSUME NEW r \in Readers, Reply(r) PROVE GracePeriod'
    BY <1>12 DEF Reply, updaterVars
  <1>13. ASSUME NEW r \in Readers, Fault(r) PROVE GracePeriod'
    BY <1>13, NullAssumption
       DEF Fault, Dangling, Intact, Freed, EveryListOwned, Snapshots, updaterVars
  <1>14. CASE BeginShutdown
    BY <1>14 DEF BeginShutdown, readerVars
  <1>15. CASE FreeVendor
    BY <1>15 DEF FreeVendor, readerVars
  <1>16. CASE Tick
    <2>1. /\ UNCHANGED <<current, old, running, upc, sTotal, rpc, at, ptr, stage>>
          /\ \A v \in Vendors : rested'[v] = (rested[v] \/ upc[v] = "nap")
          /\ \A r \in Readers : ptr[r] # NULL => held'[r] = held[r] + 1
      BY <1>16 DEF Tick
    <2>2. ASSUME NEW r \in Readers, ptr[r] # NULL, Protected(r)
          PROVE  Protected(r)'
      <3>1. at[r] \in Vendors /\ held[r] \in Nat /\ sTotal[at[r]] \in Nat
        OBVIOUS
      <3>2. held'[r] >= Elapsed(at[r])' \/ ~(held[r] >= Elapsed(at[r]))
        BY <2>1, <2>2, <3>1
      <3> QED
        BY <2>1, <2>2, <3>1, <3>2
    <2> QED
      BY <2>1, <2>2
  <1>17. CASE UNCHANGED vars
    BY <1>17 DEF vars, updaterVars, readerVars
  <1>18. ASSUME NEW r \in Readers, Search(r) PROVE GracePeriod'
    BY <1>18 DEF Search, updaterVars
  <1>19. ASSUME NEW r \in Readers, Look(r) PROVE GracePeriod'
    BY <1>19 DEF Look, updaterVars
  <1>20. ASSUME NEW r \in Readers, LookAgain(r) PROVE GracePeriod'
    BY <1>20 DEF LookAgain, updaterVars
  <1>21. ASSUME NEW r \in Readers, Compare(r) PROVE GracePeriod'
    <2>1. /\ UNCHANGED <<heap, current, old, running, upc, sTotal, rested, at, stage>>
          /\ rpc[r] \in {"seek", "seekAgain"} /\ ptr[r] # NULL
          /\ \A q \in Readers \ {r} :
                rpc'[q] = rpc[q] /\ ptr'[q] = ptr[q] /\ held'[q] = held[q]
          /\ ptr'[r] # NULL => rpc'[r] = rpc[r] /\ ptr'[r] = ptr[r] /\ held'[r] = held[r]
          /\ rpc'[r] # "fault"
      BY <1>21 DEF Compare, updaterVars
    <2>2. ASSUME stage = 0, NEW q \in Readers
          PROVE  /\ rpc'[q] # "fault"
                 /\ ptr'[q] # NULL => rpc'[q] \in {"walk", "seek", "seekAgain"} /\ Protected(q)'
      <3>1. CASE q = r
        BY <2>1, <2>2, <3>1
      <3>2. CASE q # r
        BY <2>1, <2>2, <3>2
      <3> QED
        BY <3>1, <3>2
    <2> QED
      BY <2>1, <2>2
  <1>22. ASSUME NEW r \in Readers, Move(r) PROVE GracePeriod'
    BY SMTT(30), <1>22 DEF Move, updaterVars
  <1> QED
    BY <1>1, <1>2, <1>3, <1>4, <1>5, <1>6, <1>7, <1>8, <1>9, <1>10, <1>11, <1>12,
       <1>13, <1>14, <1>15, <1>16, <1>17, <1>18, <1>19, <1>20, <1>21, <1>22
       DEF Next, ServingNext, Updater, Reader

-----------------------------------------------------------------------------
LEMMA IndInvInit == Init => IndInv
  BY TypeInit, OwnedInit, GraceInit DEF IndInv

LEMMA IndInvNext == IndInv /\ [Next]_vars => IndInv'
  BY TypeNext, OwnedNext, GraceNext DEF IndInv

(* The conjunction is inductive, and so holds in every reachable state.    *)
THEOREM Inductive == Spec => []IndInv
  BY IndInvInit, IndInvNext, PTL DEF Spec

(* The variables of the cache always have their types. *)
THEOREM TypeCorrect == Spec => []TypeOK
  <1>1. IndInv => TypeOK
    BY DEF IndInv
  <1> QED
    BY <1>1, Inductive, PTL

(* No market list is ever lost or owned twice, however often the vendors   *)
(* refresh and wherever the shutdown meets them.                           *)
THEOREM NoLeakNoDoubleFree == Spec => []EveryListOwned
  <1>1. IndInv => EveryListOwned
    BY DEF IndInv
  <1> QED
    BY <1>1, Inductive, PTL

(* A cursor is in a list that is allocated and still the vendor's own.     *)
LEMMA CursorsIntact == IndInv => NoReadAfterFree
  <1> SUFFICES ASSUME IndInv, NEW r \in Readers, ~Freed(at[r])
               PROVE  rpc[r] # "fault" /\ ~Dangling(r)
    BY DEF NoReadAfterFree
  <1>1. rpc[r] # "fault"
    BY DEF IndInv, GracePeriod
  <1>2. ASSUME ptr[r] # NULL PROVE Intact(r)
    BY <1>2, NullAssumption
       DEF IndInv, GracePeriod, Protected, EveryListOwned, Snapshots, Intact, TypeOK
  <1> QED
    BY <1>1, <1>2 DEF Dangling

(* Nobody's list changes or is freed under them, but in the shutdown.      *)
LEMMA ListsStand ==
  ASSUME IndInv, [Next]_vars, NEW r \in Readers, ptr[r] # NULL, Protected(r),
         FreeVendor => ptr[r] # current[stage]
  PROVE  heap[ptr[r]] \in Listings /\ heap'[ptr[r]] = heap[ptr[r]]
  <1>1. /\ ptr[r] \in Addr /\ at[r] \in Vendors
        /\ NULL \notin Addr
    BY NullAssumption DEF IndInv, TypeOK
  <1>2. ptr[r] \in Snapshots(at[r])
    BY <1>1 DEF Protected, Snapshots
  <1>3. heap[ptr[r]] # NULL /\ heap[ptr[r]] \in Listings
    BY <1>1, <1>2 DEF IndInv, EveryListOwned, TypeOK
  <1>4. ASSUME NEW v \in Vendors, Reclaim(v) PROVE heap'[ptr[r]] = heap[ptr[r]]
    <2>1. ptr[r] # old[v]
      <3>1. CASE at[r] # v
        <4>1. Snapshots(at[r]) \cap Snapshots(v) \subseteq {NULL}
          BY <1>1, <3>1 DEF IndInv, EveryListOwned
        <4>2. old[v] \in Snapshots(v)
          BY DEF Snapshots
        <4> QED
          BY <1>1, <1>2, <4>1, <4>2
      <3>2. CASE at[r] = v /\ ptr[r] = current[v]
        BY <1>1, <1>4, <3>2 DEF IndInv, HandOver, Reclaim, UpdaterStep
      <3>3. CASE at[r] = v /\ ptr[r] # current[v]
        <4>1. upc[v] = "reclaim"
          BY <1>4 DEF Reclaim, UpdaterStep
        <4>2. ptr[r] = old[v] /\ held[r] >= Elapsed(v)
          BY <1>1, <3>3, <4>1 DEF Protected
        <4>3. sTotal[v] = MarketTimeout
          BY <1>1, <4>1, <4>2 DEF IndInv, GracePeriod
        <4>4. held[r] \in 0 .. MaxHold
          BY DEF IndInv, TypeOK
        <4> QED
          BY <4>2, <4>3, <4>4, TimingAssumption DEF Elapsed
      <3> QED
        BY <1>1, <3>1, <3>2, <3>3
    <2> QED
      BY <1>1, <1>4, <2>1 DEF Reclaim, MarketFree
  <1>5. ASSUME NEW v \in Vendors, Publish(v) PROVE heap'[ptr[r]] = heap[ptr[r]]
    <2>1. CASE \E a \in Malloc(v, {b \in Addr : heap[b] = NULL}), l \in Listings :
                 /\ heap' = [heap EXCEPT ![a] = l]
                 /\ current' = [current EXCEPT ![v] = a]
      <3>1. PICK a \in Malloc(v, {b \in Addr : heap[b] = NULL}), l \in Listings :
                 heap' = [heap EXCEPT ![a] = l]
        BY <2>1
      <3>2. heap[a] = NULL
        BY MallocFree
      <3> QED
        BY <1>1, <1>3, <3>1, <3>2 DEF IndInv, TypeOK
    <2> QED
      BY <1>5, <2>1 DEF Publish
  <1>6. ASSUME NEW v \in Vendors,
               MarkInitialized(v) \/ Sleep(v) \/ Wake(v) \/ LoopBack(v) \/ Exit(v)
        PROVE  heap' = heap
    BY <1>6 DEF MarkInitialized, Sleep, Wake, LoopBack, Exit
  <1>7. ASSUME NEW q \in Readers, Call(q) \/ Search(q) \/ Reader(q) PROVE heap' = heap
    BY <1>7 DEF Reader, Call, Search, Load, Visit, Advance, Reply, Look, Compare,
                LookAgain, Move, Fault
  <1>8. CASE Tick \/ BeginShutdown \/ UNCHANGED vars
    BY <1>3, <1>8 DEF Tick, BeginShutdown, vars
  <1>9. CASE FreeVendor
    BY <1>1, <1>3, <1>9 DEF FreeVendor, MarketFree
  <1> QED
    BY <1>3, <1>4, <1>5, <1>6, <1>7, <1>8, <1>9 DEF Next, ServingNext, Updater

(* Walking without a lock is safe, if a walk over one list takes fewer     *)
(* seconds than market_timeout: no reader is ever about to read a freed    *)
(* list but one that is at a vendor the shutdown has freed.                *)
THEOREM GracePeriodSuffices == Spec => []NoReadAfterFree
  BY CursorsIntact, Inductive, PTL
=============================================================================
