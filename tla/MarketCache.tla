----------------------------- MODULE MarketCache -----------------------------
(***************************************************************************)
(* The market cache of book/vendor.c.  Each vendor has an update thread    *)
(* that downloads the vendor's markets every MarketTimeout seconds and     *)
(* publishes them as a linked list behind the plain pointer                *)
(* vendor->current_market.  Connection threads walk these lists with no    *)
(* lock; what protects them is that a replaced list is freed only one      *)
(* refresh period later.  The main thread shuts the vendors down one after *)
(* the other, in list order, whether or not anybody is still walking.      *)
(*                                                                         *)
(* A list is one cell of the heap: its nodes are allocated together,       *)
(* never change, and are freed together by market_free.  Time passes in    *)
(* whole seconds (Tick).  MaxHold is the one timing assumption: a walk     *)
(* over one vendor's list takes at most that many ticks.                   *)
(***************************************************************************)
EXTENDS Naturals, Sequences, Functions

CONSTANTS
  NumVendors,     \* vendors are 1 .. NumVendors, in the order of the vendor list
  Readers,        \* threads that call vendor_get_all_trading_pairs, or search
  Pairs,          \* trading pairs, the "base~market" keys of the hash table
  Opposite,       \* for each pair, the one with its two currencies swapped
  Goals,          \* the pairs that searches look for
  Listings,       \* the lists a download may yield, as sequences of pairs
  Addr,           \* heap cells, each able to hold one market list
  NULL,           \* the null pointer; also the content of an unallocated cell
  MarketTimeout,  \* market_timeout: seconds between two downloads
  MaxHold,        \* ticks a thread may need to walk one list
  FetchMayFail,   \* whether markets_get may return NULL
  Malloc(_, _)    \* the cells, of a free set, that a vendor's thread may be given

ASSUME VendorsAssumption  == NumVendors \in Nat \ {0}
ASSUME SearchAssumption   == Opposite \in [Pairs -> Pairs] /\ Goals \subseteq Pairs
ASSUME ListingsAssumption == Listings \subseteq Seq(Pairs) \ {<<>>}
ASSUME NullAssumption     == NULL \notin Addr \cup Listings \cup Pairs \cup {<<>>}
ASSUME TimingAssumption   == /\ MarketTimeout \in Nat \ {0}
                             /\ MaxHold \in Nat
                             /\ MaxHold < MarketTimeout
ASSUME FetchAssumption    == FetchMayFail \in BOOLEAN
ASSUME MallocAssumption   ==
  \A v \in 1 .. NumVendors, free \in SUBSET Addr : Malloc(v, free) \subseteq free

Vendors == 1 .. NumVendors

VARIABLES
  heap,         \* content of each cell: a listing, or NULL when not allocated
  current,      \* vendor->current_market
  old,          \* to_be_deleted, local to the vendor's update thread
  initialized,  \* vendor->IsInitialized
  running,      \* vendor->running
  upc,          \* where each update thread is
  sTotal,       \* sTotal: seconds slept since the last download
  rested,       \* the sleep(1) in progress has lasted a second
  rpc,          \* where each reader is
  at,           \* the vendor a reader is at (current, the list cursor)
  ptr,          \* current_market, the reader's cursor: its list, NULL at the end
  pos,          \* ... and the node of that list
  held,         \* ticks since the reader loaded vendor->current_market
  table,        \* hashtable: the vendor each pair was inserted for, 0 for none
  goal,         \* the pair that vendors_with_market looks for
  found,        \* new_list: the vendors it has found
  stage         \* vendor_list_free: 0 not called, v while freeing v, then N + 1

updaterVars == <<current, old, initialized, running, upc, sTotal, rested>>
readerVars  == <<rpc, at, ptr, pos, held, table, goal, found>>
vars        == <<heap, updaterVars, readerVars, stage>>

(* vendors_get_all: every vendor exists and its thread has been started.   *)
Init ==
  /\ heap = [a \in Addr |-> NULL]
  /\ current = [v \in Vendors |-> NULL]
  /\ old = [v \in Vendors |-> NULL]
  /\ initialized = [v \in Vendors |-> FALSE]
  /\ running = [v \in Vendors |-> TRUE]
  /\ upc = [v \in Vendors |-> "reclaim"]
  /\ sTotal = [v \in Vendors |-> 0]
  /\ rested = [v \in Vendors |-> FALSE]
  /\ rpc = [r \in Readers |-> "idle"]
  /\ at = [r \in Readers |-> 1]
  /\ ptr = [r \in Readers |-> NULL]
  /\ pos = [r \in Readers |-> 1]
  /\ held = [r \in Readers |-> 0]
  /\ table = [r \in Readers |-> [p \in Pairs |-> 0]]
  /\ goal = [r \in Readers |-> NULL]
  /\ found = [r \in Readers |-> {}]
  /\ stage = 0

(* market_free, which accepts a null pointer. *)
MarketFree(a) == [b \in Addr |-> IF b = a THEN NULL ELSE heap[b]]

-----------------------------------------------------------------------------
(* The update thread of vendor v. *)

UpdaterStep(v, from, to) == upc[v] = from /\ upc' = [upc EXCEPT ![v] = to]

(* Mutant: the replaced list is never freed. *)
ReclaimLeaking(v) ==
  /\ UpdaterStep(v, "reclaim", "fetch")
  /\ old' = [old EXCEPT ![v] = current[v]]
  /\ UNCHANGED <<heap, current, initialized, running, sTotal, rested, readerVars, stage>>

Reclaim(v) ==
  /\ UpdaterStep(v, "reclaim", "fetch")
  /\ heap' = MarketFree(old[v])
  /\ old' = [old EXCEPT ![v] = current[v]]
  /\ UNCHANGED <<current, initialized, running, sTotal, rested, readerVars, stage>>

(* markets_get has returned; only its result leaves the thread. *)
Publish(v) ==
  /\ UpdaterStep(v, "fetch", "mark")
  /\ \/ \E a \in Malloc(v, {b \in Addr : heap[b] = NULL}), l \in Listings :
          /\ heap' = [heap EXCEPT ![a] = l]
          /\ current' = [current EXCEPT ![v] = a]
     \/ /\ FetchMayFail
        /\ current' = [current EXCEPT ![v] = NULL]
        /\ UNCHANGED heap
  /\ UNCHANGED <<old, initialized, running, sTotal, rested, readerVars, stage>>

(* Mutants: sTotal is set to zero once, before the loop; and a vendor is    *)
(* initialized by a successful download only.                              *)
MarkInitializedNoReset(v) ==
  /\ UpdaterStep(v, "mark", "test")
  /\ initialized' = [initialized EXCEPT ![v] = TRUE]
  /\ UNCHANGED <<heap, current, old, running, sTotal, rested, readerVars, stage>>

MarkInitializedIfAny(v) ==
  /\ UpdaterStep(v, "mark", "test")
  /\ initialized' = [initialized EXCEPT ![v] = @ \/ current[v] # NULL]
  /\ sTotal' = [sTotal EXCEPT ![v] = 0]
  /\ UNCHANGED <<heap, current, old, running, rested, readerVars, stage>>

MarkInitialized(v) ==
  /\ UpdaterStep(v, "mark", "test")
  /\ initialized' = [initialized EXCEPT ![v] = TRUE]
  /\ sTotal' = [sTotal EXCEPT ![v] = 0]
  /\ UNCHANGED <<heap, current, old, running, rested, readerVars, stage>>

(* Mutant: the loop compares with <=. *)
SleepOnceMore(v) ==
  /\ UpdaterStep(v, "test", "nap")
  /\ running[v] /\ sTotal[v] <= MarketTimeout
  /\ UNCHANGED <<heap, current, old, initialized, running, sTotal, rested, readerVars, stage>>

(* while (vendor->running && sTotal < market_timeout) sleep(1) *)
Sleep(v) ==
  /\ UpdaterStep(v, "test", "nap")
  /\ running[v] /\ sTotal[v] < MarketTimeout
  /\ UNCHANGED <<heap, current, old, initialized, running, sTotal, rested, readerVars, stage>>

(* Mutant: the seconds are not counted. *)
WakeUncounted(v) ==
  /\ UpdaterStep(v, "nap", "test")
  /\ rested[v]
  /\ rested' = [rested EXCEPT ![v] = FALSE]
  /\ UNCHANGED <<heap, current, old, initialized, running, sTotal, readerVars, stage>>

Wake(v) ==
  /\ UpdaterStep(v, "nap", "test")
  /\ rested[v]
  /\ sTotal' = [sTotal EXCEPT ![v] = @ + 1]
  /\ rested' = [rested EXCEPT ![v] = FALSE]
  /\ UNCHANGED <<heap, current, old, initialized, running, readerVars, stage>>

LoopBack(v) ==
  /\ UpdaterStep(v, "test", "reclaim")
  /\ running[v] /\ sTotal[v] >= MarketTimeout
  /\ UNCHANGED <<heap, current, old, initialized, running, sTotal, rested, readerVars, stage>>

(* pthread_exit; the list in to_be_deleted is left behind. *)
Exit(v) ==
  /\ UpdaterStep(v, "test", "done")
  /\ ~running[v]
  /\ UNCHANGED <<heap, current, old, initialized, running, sTotal, rested, readerVars, stage>>

-----------------------------------------------------------------------------
(* A call of vendor_get_all_trading_pairs by reader r. *)

Freed(v) == stage > v

Call(r) ==
  /\ rpc[r] = "idle"
  /\ rpc' = [rpc EXCEPT ![r] = "await"]
  /\ at' = [at EXCEPT ![r] = 1]
  /\ table' = [table EXCEPT ![r] = [p \in Pairs |-> 0]]
  /\ UNCHANGED <<heap, updaterVars, ptr, pos, held, goal, found, stage>>

(* Mutant: the reader does not wait for the first download. *)
LoadAtOnce(r) ==
  /\ rpc[r] = "await" /\ ~Freed(at[r])
  /\ rpc' = [rpc EXCEPT ![r] = "walk"]
  /\ ptr' = [ptr EXCEPT ![r] = current[at[r]]]
  /\ pos' = [pos EXCEPT ![r] = 1]
  /\ held' = [held EXCEPT ![r] = 0]
  /\ UNCHANGED <<heap, updaterVars, at, table, goal, found, stage>>

(* while (!IsInitialized) sleep(1); then current_market is read once. *)
Load(r) ==
  /\ rpc[r] = "await"
  /\ ~Freed(at[r])
  /\ initialized[at[r]]
  /\ rpc' = [rpc EXCEPT ![r] = "walk"]
  /\ ptr' = [ptr EXCEPT ![r] = current[at[r]]]
  /\ pos' = [pos EXCEPT ![r] = 1]
  /\ held' = [held EXCEPT ![r] = 0]
  /\ UNCHANGED <<heap, updaterVars, at, table, goal, found, stage>>

(* The list under the cursor is allocated, and still the vendor's own: a   *)
(* cell that was freed and handed out again is not.                        *)
Intact(r) == heap[ptr[r]] # NULL /\ ptr[r] \in {current[at[r]], old[at[r]]}

(* Mutant: what kh_put returned is not looked at, and the value replaced. *)
KhPutReplacing(tab, p, v) == [tab EXCEPT ![p] = v]

(* kh_put: a pair that is in the table keeps the vendor it was put for. *)
KhPut(tab, p, v) == [tab EXCEPT ![p] = IF tab[p] = 0 THEN v ELSE tab[p]]

(* One node goes into the table, and the cursor to its next. *)
Visit(r) ==
  /\ rpc[r] = "walk" /\ ptr[r] # NULL
  /\ Intact(r)
  /\ LET list == heap[ptr[r]]
     IN  /\ table' = [table EXCEPT ![r] = KhPut(table[r], list[pos[r]], at[r])]
         /\ ptr' = [ptr EXCEPT ![r] = IF pos[r] < Len(list) THEN @ ELSE NULL]
         /\ pos' = [pos EXCEPT ![r] = IF pos[r] < Len(list) THEN @ + 1 ELSE 1]
         /\ held' = [held EXCEPT ![r] = IF pos[r] < Len(list) THEN @ ELSE 0]
  /\ UNCHANGED <<heap, updaterVars, rpc, at, goal, found, stage>>

Advance(r) ==
  /\ rpc[r] = "walk" /\ ptr[r] = NULL
  /\ ~Freed(at[r])
  /\ IF at[r] < NumVendors
     THEN /\ rpc' = [rpc EXCEPT ![r] = "await"]
          /\ at' = [at EXCEPT ![r] = @ + 1]
     ELSE /\ rpc' = [rpc EXCEPT ![r] = "built"]
          /\ UNCHANGED at
  /\ UNCHANGED <<heap, updaterVars, ptr, pos, held, table, goal, found, stage>>

(* The table becomes the result list, and the caller's property. *)
Reply(r) ==
  /\ rpc[r] = "built"
  /\ rpc' = [rpc EXCEPT ![r] = "idle"]
  /\ UNCHANGED <<heap, updaterVars, at, ptr, pos, held, table, goal, found, stage>>

(* A call of vendors_with_market by reader r. *)

Search(r) ==
  /\ rpc[r] = "idle"
  /\ rpc' = [rpc EXCEPT ![r] = "look"]
  /\ at' = [at EXCEPT ![r] = 1]
  /\ table' = [table EXCEPT ![r] = [p \in Pairs |-> 0]]
  /\ \E p \in Goals : goal' = [goal EXCEPT ![r] = p]
  /\ UNCHANGED <<heap, updaterVars, ptr, pos, held, found, stage>>

(* A vendor that is not initialized is passed over. *)
Look(r) ==
  /\ rpc[r] = "look"
  /\ ~Freed(at[r])
  /\ IF initialized[at[r]]
     THEN rpc' = [rpc EXCEPT ![r] = "seek"] /\ ptr' = [ptr EXCEPT ![r] = current[at[r]]]
     ELSE rpc' = [rpc EXCEPT ![r] = "next"] /\ UNCHANGED ptr
  /\ pos' = [pos EXCEPT ![r] = 1]
  /\ held' = [held EXCEPT ![r] = 0]
  /\ UNCHANGED <<heap, updaterVars, at, table, goal, found, stage>>

(* Not found: "try it the opposite way", in what is now the current list. *)
LookAgain(r) ==
  /\ rpc[r] = "seek" /\ ptr[r] = NULL
  /\ ~Freed(at[r])
  /\ rpc' = [rpc EXCEPT ![r] = "seekAgain"]
  /\ ptr' = [ptr EXCEPT ![r] = current[at[r]]]
  /\ pos' = [pos EXCEPT ![r] = 1]
  /\ held' = [held EXCEPT ![r] = 0]
  /\ UNCHANGED <<heap, updaterVars, at, table, goal, found, stage>>

Wanted(r) == IF rpc[r] = "seekAgain" THEN Opposite[goal[r]] ELSE goal[r]

(* market_get compares one node, and stops at the first that fits. *)
Compare(r) ==
  /\ rpc[r] \in {"seek", "seekAgain"} /\ ptr[r] # NULL
  /\ Intact(r)
  /\ LET fits == heap[ptr[r]][pos[r]] = Wanted(r)
         goes == ~fits /\ pos[r] < Len(heap[ptr[r]])
     IN  /\ rpc' = [rpc EXCEPT ![r] = IF fits THEN "next" ELSE @]
         /\ found' = [found EXCEPT ![r] = IF fits THEN @ \cup {at[r]} ELSE @]
         /\ ptr' = [ptr EXCEPT ![r] = IF goes THEN @ ELSE NULL]
         /\ pos' = [pos EXCEPT ![r] = IF goes THEN @ + 1 ELSE 1]
         /\ held' = [held EXCEPT ![r] = IF goes THEN @ ELSE 0]
  /\ UNCHANGED <<heap, updaterVars, at, table, goal, stage>>

(* The next entry of the vendor list, or the end: new_list is the caller's. *)
Move(r) ==
  /\ rpc[r] \in {"seekAgain", "next"} /\ ptr[r] = NULL
  /\ ~Freed(at[r])
  /\ IF at[r] < NumVendors
     THEN /\ rpc' = [rpc EXCEPT ![r] = "look"]
          /\ at' = [at EXCEPT ![r] = @ + 1]
          /\ UNCHANGED <<goal, found>>
     ELSE /\ rpc' = [rpc EXCEPT ![r] = "idle"]
          /\ goal' = [goal EXCEPT ![r] = NULL]
          /\ found' = [found EXCEPT ![r] = {}]
          /\ UNCHANGED at
  /\ UNCHANGED <<heap, updaterVars, ptr, pos, held, table, stage>>

-----------------------------------------------------------------------------
(* Undefined behaviour: the node, the vendor or the vendor list entry that *)
(* the reader is about to dereference has been freed.                      *)
Dangling(r) ==
  \/ ptr[r] # NULL /\ ~Intact(r)
  \/ ptr[r] = NULL /\ rpc[r] \notin {"idle", "built", "fault"} /\ Freed(at[r])

Fault(r) ==
  /\ Dangling(r)
  /\ rpc' = [rpc EXCEPT ![r] = "fault"]
  /\ ptr' = [ptr EXCEPT ![r] = NULL]
  /\ UNCHANGED <<heap, updaterVars, at, pos, held, table, goal, found, stage>>

-----------------------------------------------------------------------------
(* The main thread in vendor_list_free(vendor_list, 1). *)

(* Mutant: vendor_free joins the thread without telling it to stop. *)
StopNobody(v) == [w \in Vendors |-> running[w]]

Stop(v) == [w \in Vendors |-> running[w] /\ w # v]

BeginShutdown ==
  /\ stage = 0
  /\ stage' = 1
  /\ running' = Stop(1)
  /\ UNCHANGED <<heap, current, old, initialized, upc, sTotal, rested, readerVars>>

(* vendor_free: the join returns, the last list and the vendor are freed,  *)
(* and the next vendor's thread is told to stop.                           *)
FreeVendor ==
  /\ stage \in Vendors
  /\ upc[stage] = "done"
  /\ heap' = MarketFree(current[stage])
  /\ current' = [current EXCEPT ![stage] = NULL]
  /\ stage' = stage + 1
  /\ running' = Stop(stage + 1)
  /\ UNCHANGED <<old, initialized, upc, sTotal, rested, readerVars>>

-----------------------------------------------------------------------------
(* A second passes.  No walk lasts more than MaxHold of them. *)
Tick ==
  /\ \A r \in Readers : ptr[r] # NULL => held[r] < MaxHold
  /\ held' = [r \in Readers |-> IF ptr[r] # NULL THEN held[r] + 1 ELSE held[r]]
  /\ rested' = [v \in Vendors |-> rested[v] \/ upc[v] = "nap"]
  /\ UNCHANGED <<heap, current, old, initialized, running, upc, sTotal,
                 rpc, at, ptr, pos, table, goal, found, stage>>

Updater(v) ==
  \/ Reclaim(v) \/ Publish(v) \/ MarkInitialized(v)
  \/ Sleep(v) \/ Wake(v) \/ LoopBack(v) \/ Exit(v)

Reader(r) ==
  \/ Load(r) \/ Visit(r) \/ Advance(r) \/ Reply(r)
  \/ Look(r) \/ Compare(r) \/ LookAgain(r) \/ Move(r)
  \/ Fault(r)

ServingNext ==
  \/ Tick
  \/ \E v \in Vendors : Updater(v)
  \/ \E r \in Readers : Call(r) \/ Search(r) \/ Reader(r)

Next == ServingNext \/ BeginShutdown \/ FreeVendor

(***************************************************************************)
(* The scheduler runs every thread that can run, seconds pass, and a       *)
(* download ends, with a list or with an error.  Nobody has to call, and   *)
(* the server need not be shut down, but a shutdown once begun goes on.    *)
(***************************************************************************)
Fairness ==
  /\ WF_vars(Tick)
  /\ WF_vars(FreeVendor)
  /\ \A v \in Vendors : WF_vars(Updater(v))
  /\ \A r \in Readers : WF_vars(Reader(r))

Spec == Init /\ [][Next]_vars /\ Fairness

(* The cache while the server serves: vendor_list_free is never called. *)
ServingSpec == Init /\ [][ServingNext]_vars /\ Fairness

-----------------------------------------------------------------------------
(* Properties. *)

(* Every variable stays within its type. *)
TypeOK ==
  /\ heap \in [Addr -> Listings \cup {NULL}]
  /\ current \in [Vendors -> Addr \cup {NULL}]
  /\ old \in [Vendors -> Addr \cup {NULL}]
  /\ initialized \in [Vendors -> BOOLEAN]
  /\ running \in [Vendors -> BOOLEAN]
  /\ upc \in [Vendors -> {"reclaim", "fetch", "mark", "test", "nap", "done"}]
  /\ sTotal \in [Vendors -> 0 .. MarketTimeout]
  /\ rested \in [Vendors -> BOOLEAN]
  /\ rpc \in [Readers -> {"idle", "await", "walk", "built", "fault",
                          "look", "seek", "seekAgain", "next"}]
  /\ at \in [Readers -> Vendors]
  /\ ptr \in [Readers -> Addr \cup {NULL}]
  /\ pos \in [Readers -> Nat \ {0}]
  /\ held \in [Readers -> 0 .. MaxHold]
  /\ table \in [Readers -> [Pairs -> 0 .. NumVendors]]
  /\ goal \in [Readers -> Pairs \cup {NULL}]
  /\ found \in [Readers -> SUBSET Vendors]
  /\ stage \in 0 .. NumVendors + 1

(* While the server serves, the comment of vendor_update_loop ("keeping    *)
(* the old one around for a bit") is enough: no thread ever comes to read  *)
(* a list that was freed under it, however updates and walks interleave.   *)
(* The shutdown harms only who is at a vendor that it has freed.           *)
NoReadAfterFree ==
  \A r \in Readers : rpc[r] = "fault" \/ Dangling(r) => Freed(at[r])

(* No list is lost and none is freed twice: the allocated cells are exactly *)
(* those the vendors hold as their current or their replaced list, no two   *)
(* vendors hold the same one, and so there are never more than two a vendor. *)
Snapshots(v) == {current[v], old[v]}

EveryListOwned ==
  /\ \A a \in Addr : heap[a] # NULL <=> \E v \in Vendors : a \in Snapshots(v)
  /\ \A v, w \in Vendors : v # w => Snapshots(v) \cap Snapshots(w) \subseteq {NULL}

(***************************************************************************)
(* Why: the strengthening that makes the two properties above inductive.   *)
(* Between the swap and the next one a vendor's two lists are different    *)
(* cells (HandOver); a reader that still walks the replaced one has held   *)
(* it for at least the seconds slept since the swap (Protected), which are *)
(* MarketTimeout, more than any walk lasts, when the list is reclaimed.    *)
(***************************************************************************)
HandOver ==
  \A v \in Vendors :
    IF upc[v] = "fetch" THEN old[v] = current[v]
                        ELSE current[v] # NULL => current[v] # old[v]

Elapsed(v) == sTotal[v] + (IF rested[v] THEN 1 ELSE 0)

Protected(r) ==
  \/ ptr[r] = current[at[r]]
  \/ /\ ptr[r] = old[at[r]]
     /\ upc[at[r]] \in {"test", "nap", "reclaim"} => held[r] >= Elapsed(at[r])

GracePeriod ==
  /\ \A v \in Vendors :
       /\ upc[v] = "nap" => sTotal[v] < MarketTimeout
       /\ rested[v] => upc[v] = "nap"
       /\ upc[v] = "reclaim" => old[v] = NULL \/ sTotal[v] = MarketTimeout
       /\ Freed(v) => upc[v] = "done" /\ current[v] = NULL
  /\ \A r \in Readers :
       /\ ptr[r] # NULL => /\ rpc[r] \in {"walk", "seek", "seekAgain"}
                           /\ Protected(r) \/ Freed(at[r])
       /\ rpc[r] = "fault" => Freed(at[r])

IndInv == TypeOK /\ EveryListOwned /\ HandOver /\ GracePeriod

(* A call that has begun returns, or a shutdown begins meanwhile. *)
CallReturns ==
  \A r \in Readers : rpc[r] = "await" ~> (rpc[r] = "idle" \/ stage > 0)

(* Markets never go stale for good: a vendor downloads again and again until *)
(* it is told to stop.                                                       *)
KeepsRefreshing == \A v \in Vendors : []<>(upc[v] = "fetch" \/ ~running[v])

(* vendor_list_free, once called, joins every update thread and returns, at *)
(* whatever point of its loop each thread was told to stop.                 *)
ShutdownEnds == stage = 1 ~> stage = NumVendors + 1

(* "Shut down all vendors in list and deallocate memory" (vendor.h): once   *)
(* vendor_list_free has returned no market list is left allocated.          *)
ShutdownDeallocates == stage = NumVendors + 1 => \A a \in Addr : heap[a] = NULL

(***************************************************************************)
(* The promise of TradingPairs.  A vendor's listing takes effect when the  *)
(* pointer is swapped (for the first one, when the vendor is marked        *)
(* initialized), and a reader adopts it when it loads the pointer: the     *)
(* nodes it has still to visit count as adopted.                           *)
(***************************************************************************)
Listing(v) ==
  IF ~initialized[v] THEN <<>>
  ELSE IF current[v] = NULL THEN NULL ELSE heap[current[v]]

(* The nodes a reader has still to come to, and what it will find there. *)
Ahead(r) ==
  IF ptr[r] = NULL THEN {} ELSE Range(SubSeq(heap[ptr[r]], pos[r], Len(heap[ptr[r]])))

Hits(r) == rpc[r] \in {"seek", "seekAgain"} /\ Wanted(r) \in Ahead(r)

NextVendor(r) ==
  IF rpc[r] \in {"idle", "fault"} THEN 0
  ELSE IF rpc[r] \in {"await", "look"} \/ (rpc[r] = "seek" /\ ~Hits(r)) THEN at[r]
  ELSE at[r] + 1

Answer(r) ==
  [p \in Pairs |-> IF rpc[r] = "walk" /\ table[r][p] = 0 /\ p \in Ahead(r)
                   THEN at[r] ELSE table[r][p]]

Swapped(r) == rpc[r] = "seek" /\ ~Hits(r)

ListedBy(r) == IF Hits(r) THEN found[r] \cup {at[r]} ELSE found[r]

Promised == INSTANCE TradingPairs WITH
  listing  <- [v \in Vendors |-> Listing(v)],
  next     <- [r \in Readers |-> NextVendor(r)],
  answer   <- [r \in Readers |-> Answer(r)],
  sought   <- goal,
  swapped  <- [r \in Readers |-> Swapped(r)],
  listedBy <- [r \in Readers |-> ListedBy(r)],
  Pending  <- <<>>

(* While it serves, the cache keeps the promise: every answer is built from *)
(* one whole listing of each vendor, never from a mixture of an old and a   *)
(* new one, and the first vendor that lists a pair gives it.  A search      *)
(* finds the vendors that listed the pair in one of two whole listings,     *)
(* the earlier one for the pair and the later one for its opposite.         *)
KeepsPromise == Promised!Spec

(* Why: while the server serves, what a caller looks for goes with where   *)
(* it is, it reads of initialized vendors only, and its cursor is in a      *)
(* list.                                                                    *)
Reading ==
  \A r \in Readers :
    /\ rpc[r] \in {"idle", "await", "walk", "built"} => goal[r] = NULL /\ found[r] = {}
    /\ rpc[r] \in {"look", "seek", "seekAgain", "next"} => goal[r] \in Pairs
    /\ rpc[r] \in {"walk", "seek", "seekAgain"} => initialized[at[r]]
    /\ rpc[r] = "built" => at[r] = NumVendors
    /\ ptr[r] # NULL => pos[r] <= Len(heap[ptr[r]])

ServingInv == IndInv /\ stage = 0 /\ Reading
=============================================================================
