----------------------------- MODULE BridgeProofs -----------------------------
(***************************************************************************)
(* Theorems about the whole bridge.  Each of its steps is a step of the    *)
(* cache or changes nothing of it, and so the invariant of MarketCache     *)
(* holds; with the ties between the two parts each of its steps is also a  *)
(* step of the server or changes nothing of it.  What ServerProofs and     *)
(* MarketCacheProofs prove of the parts is then true of the whole.         *)
(***************************************************************************)
EXTENDS Bridge, TLAPS

SP == INSTANCE ServerProofs
MP == INSTANCE MarketCacheProofs WITH Readers <- Clients

(* The instances of the proof modules speak of the same parts. *)
LEMMA SameCache ==
  /\ MP!Init <=> M!Init
  /\ [MP!Next]_(MP!vars) <=> [M!Next]_(M!vars)
  /\ MP!IndInv <=> M!IndInv
  /\ MP!NoReadAfterFree <=> M!NoReadAfterFree
  <1>1. MP!Init <=> M!Init
    BY DEF MP!Init, M!Init, MP!Vendors, M!Vendors
  <1>2. MP!vars = M!vars /\ MP!vars' = M!vars'
    BY DEF MP!vars, M!vars, MP!updaterVars, M!updaterVars, MP!readerVars, M!readerVars
  <1>3. MP!TypeOK <=> M!TypeOK
    BY DEF MP!TypeOK, M!TypeOK, MP!Vendors, M!Vendors
  <1>4. MP!EveryListOwned <=> M!EveryListOwned
    BY DEF MP!EveryListOwned, M!EveryListOwned, MP!Snapshots, M!Snapshots, MP!Vendors, M!Vendors
  <1>5. MP!HandOver <=> M!HandOver
    BY DEF MP!HandOver, M!HandOver, MP!Vendors, M!Vendors
  <1>6. MP!GracePeriod <=> M!GracePeriod
    BY DEF MP!GracePeriod, M!GracePeriod, MP!Protected, M!Protected, MP!Elapsed, M!Elapsed,
           MP!Freed, M!Freed, MP!Vendors, M!Vendors
  <1>7. MP!IndInv <=> M!IndInv
    BY <1>3, <1>4, <1>5, <1>6 DEF MP!IndInv, M!IndInv
  <1>8. MP!NoReadAfterFree <=> M!NoReadAfterFree
    BY DEF MP!NoReadAfterFree, M!NoReadAfterFree, MP!Dangling, M!Dangling, MP!Intact, M!Intact,
           MP!Freed, M!Freed
  <1>9. MP!Next <=> M!Next
    BY DEF MP!Next, MP!ServingNext, MP!Updater, MP!Reader, MP!Vendors, MP!updaterVars,
           MP!readerVars, MP!UpdaterStep, MP!MarketFree, MP!Reclaim, MP!Publish,
           MP!MarkInitialized, MP!Sleep, MP!Wake, MP!LoopBack, MP!Exit, MP!Tick, MP!Call,
           MP!Load, MP!Visit, MP!Advance, MP!Reply, MP!Search, MP!Look, MP!LookAgain,
           MP!Compare, MP!Move, MP!Fault, MP!Freed, MP!Intact, MP!KhPut, MP!Wanted,
           MP!Dangling, MP!BeginShutdown, MP!FreeVendor, MP!Stop,
           M!Next, M!ServingNext, M!Updater, M!Reader, M!Vendors, M!updaterVars,
           M!readerVars, M!UpdaterStep, M!MarketFree, M!Reclaim, M!Publish,
           M!MarkInitialized, M!Sleep, M!Wake, M!LoopBack, M!Exit, M!Tick, M!Call,
           M!Load, M!Visit, M!Advance, M!Reply, M!Search, M!Look, M!LookAgain,
           M!Compare, M!Move, M!Fault, M!Freed, M!Intact, M!KhPut, M!Wanted,
           M!Dangling, M!BeginShutdown, M!FreeVendor, M!Stop
  <1> QED
    BY <1>1, <1>2, <1>7, <1>8, <1>9

LEMMA SameServer ==
  /\ SP!Init <=> S!Init
  /\ [SP!Next]_(SP!vars) <=> [S!Next]_(S!vars)
  /\ SP!IndInv <=> S!IndInv
  <1>1. SP!Init <=> S!Init
    BY DEF SP!Init, S!Init
  <1>2. SP!vars = S!vars /\ SP!vars' = S!vars'
    BY DEF SP!vars, S!vars, SP!mainVars, S!mainVars, SP!threadVars, S!threadVars,
           SP!peerVars, S!peerVars
  <1>3. SP!TypeOK <=> S!TypeOK
    BY DEF SP!TypeOK, S!TypeOK, SP!Errors, S!Errors
  <1>4. SP!Queued <=> S!Queued
    BY DEF SP!Queued, S!Queued
  <1>5. SP!Threads <=> S!Threads
    BY DEF SP!Threads, S!Threads
  <1>6. SP!Accepted <=> S!Accepted
    BY DEF SP!Accepted, S!Accepted
  <1>7. /\ SP!ThreadsCounted <=> S!ThreadsCounted
        /\ SP!StoppedForGood <=> S!StoppedForGood
    <2>1. SP!Spawned = S!Spawned
      BY DEF SP!Spawned, S!Spawned
    <2>2. SP!Cardinality(S!Spawned) = S!Cardinality(S!Spawned)
      BY DEF SP!Cardinality, S!Cardinality
    <2>3. SP!IsFiniteSet(S!Spawned) <=> S!IsFiniteSet(S!Spawned)
      BY DEF SP!IsFiniteSet, S!IsFiniteSet
    <2>4. SP!ThreadsCounted <=> S!ThreadsCounted
      BY <2>1, <2>2, <2>3 DEF SP!ThreadsCounted, S!ThreadsCounted
    <2>5. SP!StoppedForGood <=> S!StoppedForGood
      BY <2>1, <2>2 DEF SP!StoppedForGood, S!StoppedForGood
    <2> QED
      BY <2>4, <2>5
  <1>8. SP!SocketsOwned <=> S!SocketsOwned
    BY DEF SP!SocketsOwned, S!SocketsOwned, SP!OpenFds, S!OpenFds
  <1>9. SP!OnlyExhaustionAborts <=> S!OnlyExhaustionAborts
    BY DEF SP!OnlyExhaustionAborts, S!OnlyExhaustionAborts
  <1>10. SP!WaitsAtChunkBoundary <=> S!WaitsAtChunkBoundary
    BY DEF SP!WaitsAtChunkBoundary, S!WaitsAtChunkBoundary
  <1>11. SP!AnswersAQuestion <=> S!AnswersAQuestion
    BY DEF SP!AnswersAQuestion, S!AnswersAQuestion
  <1>12. SP!IndInv <=> S!IndInv
    BY <1>3, <1>4, <1>5, <1>6, <1>7, <1>8, <1>9, <1>10, <1>11 DEF SP!IndInv, S!IndInv
  <1>13. SP!Next <=> S!Next
    BY DEF SP!Next, SP!MainThread, SP!Connection, SP!Peer, SP!mainVars, SP!threadVars,
           SP!peerVars, SP!OpenFds, SP!Spawned, SP!Cardinality, S!Cardinality, SP!Errors, SP!Available, SP!MainStep,
           SP!ThreadStep, SP!Listen, SP!SetupFails, SP!TestRun, SP!EnterAccept,
           SP!AcceptReturns, SP!CheckRun, SP!Spawn, SP!SpawnNoMemory, SP!FreeVendors,
           SP!VendorsFreed, SP!Return, SP!Terminate, SP!Read, SP!ReadsOn, SP!ReadNothing,
           SP!ReadError, SP!Dispatch, SP!Recognised, SP!WakeMain, SP!EndQuery,
           SP!QueryCrashes, SP!Write, SP!WriteError, SP!Cleanup, SP!Connect, SP!Send,
           SP!Fin, SP!Reset,
           S!Next, S!MainThread, S!Connection, S!Peer, S!mainVars, S!threadVars,
           S!peerVars, S!OpenFds, S!Spawned, S!Errors, S!Available, S!MainStep,
           S!ThreadStep, S!Listen, S!SetupFails, S!TestRun, S!EnterAccept,
           S!AcceptReturns, S!CheckRun, S!Spawn, S!SpawnNoMemory, S!FreeVendors,
           S!VendorsFreed, S!Return, S!Terminate, S!Read, S!ReadsOn, S!ReadNothing,
           S!ReadError, S!Dispatch, S!Recognised, S!WakeMain, S!EndQuery,
           S!QueryCrashes, S!Write, S!WriteError, S!Cleanup, S!Connect, S!Send,
           S!Fin, S!Reset
  <1> QED
    BY <1>1, <1>2, <1>12, <1>13

(* Their assumptions are met here, and so their results hold of the parts. *)
LEMMA CacheInduction ==
  /\ M!Init => M!IndInv
  /\ M!IndInv /\ [M!Next]_(M!vars) => M!IndInv'
  /\ M!IndInv => M!NoReadAfterFree
  <1>1. /\ MP!Init => MP!IndInv
        /\ MP!IndInv /\ [MP!Next]_(MP!vars) => MP!IndInv'
        /\ MP!IndInv => MP!NoReadAfterFree
    BY MP!IndInvInit, MP!IndInvNext, MP!CursorsIntact, CacheAssumptions
  <1> QED
    BY <1>1, SameCache, PTL

LEMMA ServerInduction ==
  /\ S!Init => S!IndInv
  /\ S!IndInv /\ [S!Next]_(S!vars) => S!IndInv'
  <1>1. /\ SP!Init => SP!IndInv
        /\ SP!IndInv /\ [SP!Next]_(SP!vars) => SP!IndInv'
    BY SP!IndInvInit, SP!IndInvNext, ServerAssumptions DEF SP!Errors, S!Errors
  <1> QED
    BY <1>1, SameServer, PTL

-----------------------------------------------------------------------------
(* What each of the bridge's steps is for its two parts. *)
LEMMA CacheStep == [Next]_vars => [M!Next]_(M!vars)
  <1> SUFFICES ASSUME [Next]_vars PROVE [M!Next]_(M!vars)
    OBVIOUS
  <1>1. UNCHANGED cacheVars => UNCHANGED M!vars
    BY DEF cacheVars, M!vars, M!updaterVars, M!readerVars
  <1>2. ASSUME Main PROVE [M!Next]_(M!vars)
    BY <1>1, <1>2 DEF Main, Alone, M!Next
  <1>3. ASSUME NEW c \in Clients, Connection(c) PROVE [M!Next]_(M!vars)
    <2>1. CASE UNCHANGED cacheVars
      BY <1>1, <2>1
    <2>2. CASE Dispatch(c) /\ ~UNCHANGED cacheVars
      BY <2>2 DEF Dispatch, M!Next, M!ServingNext
    <2>3. CASE Query(c)
      BY <2>3 DEF Query, M!Next, M!ServingNext, M!Reader
    <2>4. CASE EndQuery(c)
      BY <2>4 DEF EndQuery, M!Next, M!ServingNext, M!Reader
    <2>5. CASE Fault(c)
      BY <2>5 DEF Fault, M!Next, M!ServingNext, M!Reader
    <2> QED
      BY <1>3, <2>1, <2>2, <2>3, <2>4, <2>5 DEF Connection, Alone
  <1>4. CASE Tick
    BY <1>4 DEF Tick, M!Next, M!ServingNext
  <1>5. ASSUME NEW v \in M!Vendors, Updater(v) PROVE [M!Next]_(M!vars)
    BY <1>5 DEF Updater, M!Next, M!ServingNext
  <1>6. CASE Alone(S!Terminate) \/ (\E c \in Clients : Alone(S!Peer(c))) \/ UNCHANGED vars
    BY <1>1, <1>6 DEF Alone, vars
  <1> QED
    BY <1>2, <1>3, <1>4, <1>5, <1>6 DEF Next

(* The two steps that the server's own step relation has to allow for: a   *)
(* query that faults, which happens while the vendors are freed only, and  *)
(* the waits, of which the server knows nothing.                           *)
LEMMA FaultsLate ==
  ASSUME M!IndInv, Ties, NEW c \in Clients, M!Fault(c) \/ rpc[c] = "fault" \/ M!Dangling(c)
  PROVE  main \in {"freeing", "closing"} /\ ~run
  <1>1. M!Freed(at[c])
    BY CacheInduction DEF M!Fault, M!NoReadAfterFree
  <1>2. stage > 0
    BY <1>1 DEF M!Freed, M!IndInv, M!TypeOK, M!Vendors
  <1> QED
    BY <1>2 DEF Ties

LEMMA ServerStep ==
  ASSUME M!IndInv, Ties, [Next]_vars
  PROVE  [S!Next]_(S!vars)
  <1>1. UNCHANGED serverVars => UNCHANGED S!vars
    BY DEF serverVars, S!vars, S!mainVars, S!threadVars, S!peerVars
  <1>2. ASSUME Main PROVE [S!Next]_(S!vars)
    BY <1>1, <1>2 DEF Main, Alone, S!Next, S!MainThread
  <1>3. ASSUME NEW c \in Clients, Connection(c) PROVE [S!Next]_(S!vars)
    <2>1. CASE UNCHANGED serverVars
      BY <1>1, <2>1
    <2>2. CASE Dispatch(c) \/ EndQuery(c)
      BY <2>2 DEF Dispatch, EndQuery, S!Next, S!Connection
    <2>3. CASE Fault(c) /\ ~UNCHANGED serverVars
      <3>1. main \in {"freeing", "closing"}
        BY <2>3, FaultsLate DEF Fault
      <3>2. S!QueryCrashes(c)
        BY <2>3, <3>1 DEF Fault, S!QueryCrashes, S!mainVars, S!threadVars, S!peerVars
      <3> QED
        BY <3>2 DEF S!Next, S!Connection
    <2>4. CASE Query(c)
      BY <1>1, <2>4 DEF Query
    <2> QED
      BY <1>3, <2>1, <2>2, <2>3, <2>4 DEF Connection, Alone, S!Next, S!Connection
  <1>4. CASE Tick \/ (\E v \in M!Vendors : Updater(v)) \/ UNCHANGED vars
    BY <1>1, <1>4 DEF Tick, Updater, vars
  <1>5. CASE Alone(S!Terminate) \/ (\E c \in Clients : Alone(S!Peer(c)))
    BY <1>5 DEF Alone, S!Next
  <1> QED
    BY <1>2, <1>3, <1>4, <1>5 DEF Next

-----------------------------------------------------------------------------
(* The ties between the two parts hold. *)
LEMMA TiesInit == Init => Ties
  BY DEF Init, Ties, S!Init, M!Init

LEMMA TiesNext == S!IndInv /\ M!IndInv /\ Ties /\ [Next]_vars => Ties'
  <1> SUFFICES ASSUME S!IndInv, M!IndInv, Ties, [Next]_vars PROVE Ties'
    OBVIOUS
  <1> USE DEF Ties, Alone, cacheVars, S!mainVars, S!threadVars, S!peerVars, M!updaterVars, M!readerVars
  <1>a. /\ S!TypeOK /\ M!TypeOK
        /\ main = "spawn" => newsock \in Clients
        /\ main = "spawn" => thread[newsock] = "none"
    BY DEF S!IndInv, M!IndInv, S!Accepted
  <1>1. CASE Alone(S!Listen) \/ Alone(S!SetupFails) \/ Alone(S!TestRun) \/ Alone(S!EnterAccept)
             \/ Alone(S!CheckRun) \/ Alone(S!SpawnNoMemory) \/ Alone(S!Return)
    BY <1>1 DEF S!Listen, S!SetupFails, S!TestRun, S!EnterAccept, S!CheckRun,
                S!SpawnNoMemory, S!Return, S!MainStep
  <1>2. CASE Alone(S!AcceptReturns)
    BY <1>2 DEF S!AcceptReturns, S!MainStep
  <1>3. CASE Alone(S!Spawn)
    BY <1>a, <1>3 DEF S!Spawn, S!MainStep, S!TypeOK
  <1>4. CASE S!FreeVendors /\ M!BeginShutdown
    BY <1>4 DEF S!FreeVendors, M!BeginShutdown, S!MainStep
  <1>5. CASE main = "freeing" /\ M!FreeVendor /\ UNCHANGED serverVars
    BY <1>5 DEF M!FreeVendor, serverVars
  <1>6. CASE Alone(S!VendorsFreed)
    BY <1>6 DEF S!VendorsFreed, S!MainStep
  <1>7. CASE Alone(S!Terminate)
    BY <1>7 DEF S!Terminate
  <1>8. ASSUME NEW c \in Clients, Alone(S!Peer(c)) PROVE Ties'
    <2>1. UNCHANGED <<main, run, stage, status, thread, rpc>>
      BY <1>8 DEF S!Peer, S!Connect, S!Send, S!Fin, S!Reset
    <2>2. ~PeersMayReset => \A d \in Clients : peer'[d] # "reset"
      BY <1>8, <1>a DEF S!Peer, S!Connect, S!Send, S!Fin, S!Reset, S!TypeOK
    <2> QED
      BY <2>1, <2>2
  <1>9. CASE Tick
    BY <1>9 DEF Tick, M!Tick, serverVars
  <1>10. ASSUME NEW v \in M!Vendors, Updater(v) PROVE Ties'
    BY <1>10 DEF Updater, M!Updater, M!Reclaim, M!Publish, M!MarkInitialized, M!Sleep, M!Wake,
                 M!LoopBack, M!Exit, serverVars
  <1>11. ASSUME NEW c \in Clients, Connection(c) PROVE Ties'
    <2>1. CASE Alone(S!Read(c))
      BY <1>a, <2>1 DEF S!Read, S!ThreadStep, S!TypeOK
    <2>2. CASE Alone(S!ReadNothing(c))
      BY <1>a, <2>2 DEF S!ReadNothing, S!ThreadStep, S!TypeOK
    <2>3. CASE Alone(S!ReadError(c))
      BY <1>a, <2>3 DEF S!ReadError, S!TypeOK
    <2>4. CASE Alone(S!WakeMain(c))
      BY <1>a, <2>4 DEF S!WakeMain, S!ThreadStep, S!TypeOK
    <2>5. CASE Alone(S!Write(c))
      BY <1>a, <2>5 DEF S!Write, S!ThreadStep, S!TypeOK
    <2>6. CASE Alone(S!WriteError(c))
      BY <1>a, <2>6 DEF S!WriteError, S!TypeOK
    <2>7. CASE Alone(S!Cleanup(c))
      BY <1>a, <2>7 DEF S!Cleanup, S!ThreadStep, S!TypeOK
    <2>8. CASE Dispatch(c)
      <3>1. PICK k \in S!Recognised(c) :
              /\ run' = (run /\ k # "exit")
              /\ thread[c] = "dispatch"
              /\ thread' = [thread EXCEPT ![c] = CASE k = "exit"  -> "wake"
                                                   [] k = "pairs" -> "query"
                                                   [] k = "none"  -> "cleanup"]
        BY <2>8 DEF Dispatch, S!Dispatch, S!ThreadStep
      <3> DEFINE next == CASE k = "exit"  -> "wake"
                           [] k = "pairs" -> "query"
                           [] k = "none"  -> "cleanup"
      <3>2. thread' = [thread EXCEPT ![c] = next]
        BY <3>1, Zenon
      <3> HIDE DEF next
      <3>3. /\ \A d \in Clients \ {c} : thread'[d] = thread[d]
            /\ thread[c] = "dispatch" /\ rpc[c] = "idle"
            /\ run' => run
        <4>1. thread[c] = "dispatch" /\ (run' => run)
          BY <2>8 DEF Dispatch, S!Dispatch, S!ThreadStep
        <4> QED
          BY <1>a, <3>2, <4>1 DEF S!TypeOK
      <3>4. UNCHANGED <<main, status, peer, stage>>
        BY <2>8 DEF Dispatch, S!Dispatch, M!Call
      <3>5. /\ \A d \in Clients \ {c} : rpc'[d] = rpc[d]
            /\ IF thread'[c] = "query" THEN rpc'[c] = "await" ELSE rpc'[c] = rpc[c]
        BY <1>a, <2>8, <3>3 DEF Dispatch, CallsCache, M!Call, M!TypeOK
      <3> QED
        BY <3>3, <3>4, <3>5
    <2>9. CASE Query(c)
      BY <1>a, <2>9 DEF Query, M!Load, M!Visit, M!Advance, serverVars, M!TypeOK
    <2>10. CASE EndQuery(c)
      BY SMTT(30), <1>a, <2>10 DEF EndQuery, S!EndQuery, M!Reply, S!ThreadStep, S!TypeOK, M!TypeOK
    <2>11. CASE Fault(c)
      <3>1. ~run
        BY <2>11, FaultsLate DEF Fault
      <3>2. /\ UNCHANGED <<run, main, thread, peer, stage>>
            /\ status' = status \/ status' = "killed"
            /\ thread[c] = "query" /\ rpc' = [rpc EXCEPT ![c] = "fault"]
        BY <2>11 DEF Fault, M!Fault, serverVars
      <3> QED
        BY <1>a, <3>1, <3>2 DEF M!TypeOK
    <2> QED
      BY <1>11, <2>1, <2>2, <2>3, <2>4, <2>5, <2>6, <2>7, <2>8, <2>9, <2>10, <2>11 DEF Connection
  <1>12. CASE UNCHANGED vars
    BY <1>12 DEF vars, serverVars
  <1> QED
    BY <1>1, <1>2, <1>3, <1>4, <1>5, <1>6, <1>7, <1>8, <1>9, <1>10, <1>11, <1>12 DEF Next, Main

-----------------------------------------------------------------------------
(* The lists of the cache stand under a walk that is protected. *)
LEMMA CacheLists ==
  ASSUME M!IndInv, [M!Next]_(M!vars), NEW c \in Clients, ptr[c] # NULL, M!Protected(c),
         M!FreeVendor => ptr[c] # current[stage]
  PROVE  heap[ptr[c]] \in Listings /\ heap'[ptr[c]] = heap[ptr[c]]
  <1>1. MP!IndInv /\ [MP!Next]_(MP!vars)
    BY SameCache
  <1>2. MP!Protected(c)
    BY DEF MP!Protected, M!Protected, MP!Elapsed, M!Elapsed
  <1>3. MP!FreeVendor => ptr[c] # current[stage]
    BY DEF MP!FreeVendor, M!FreeVendor, MP!Vendors, M!Vendors, MP!MarketFree, M!MarketFree,
           MP!Stop, M!Stop, MP!readerVars, M!readerVars
  <1> QED
    BY <1>1, <1>2, <1>3, MP!ListsStand, CacheAssumptions

LEMMA CacheListings ==
  ASSUME NEW l \in Listings
  PROVE  l \in Seq(Pairs) /\ Len(l) \in Nat \ {0} /\ l # NULL /\ NULL \notin Addr
         /\ DOMAIN l = 1 .. Len(l)
  <1>1. l \in Seq(Pairs) /\ l # <<>> /\ l # NULL /\ NULL \notin Addr
    BY CacheAssumptions
  <1>2. Len(l) # 0
    BY <1>1
  <1> QED
    BY <1>1, <1>2

(* A walk that is protected after a step was so before, and over the same  *)
(* list: what the shutdown or a refresh frees is not protected any more.   *)
LEMMA ProtectedBefore ==
  ASSUME M!IndInv, [M!Next]_(M!vars), NEW c \in Clients, ptr[c] # NULL,
         UNCHANGED <<ptr[c], at[c]>>, M!Protected(c)'
  PROVE  M!Protected(c) /\ heap[ptr[c]] \in Listings /\ heap'[ptr[c]] = heap[ptr[c]]
  <1> DEFINE v == at[c]
  <1>1. /\ v \in M!Vendors /\ ptr[c] \in {current'[v], old'[v]}
        /\ M!TypeOK /\ M!HandOver /\ M!EveryListOwned /\ M!GracePeriod
    BY DEF M!IndInv, M!TypeOK, M!Protected
  <1>2. ASSUME ~M!Protected(c) PROVE FALSE
    <2>1. /\ M!Freed(v) /\ upc[v] = "done" /\ current[v] = NULL
          /\ ptr[c] # old[v]
      BY <1>1, <1>2 DEF M!GracePeriod, M!Protected
    <2>2. stage # v
      BY <2>1, <1>1 DEF M!Freed, M!Vendors, M!TypeOK
    <2>3. old'[v] = old[v]
      BY ZenonT(60), <2>1, <1>1 DEF M!Next, M!ServingNext, M!Updater, M!Reader, M!UpdaterStep, M!TypeOK,
           M!Reclaim, M!Publish, M!MarkInitialized, M!Sleep, M!Wake, M!LoopBack, M!Exit, M!Tick,
           M!Call, M!Load, M!Visit, M!Advance, M!Reply, M!Search, M!Look, M!LookAgain,
           M!Compare, M!Move, M!Fault, M!BeginShutdown, M!FreeVendor, M!updaterVars, M!vars
    <2>4. current'[v] = current[v]
      BY ZenonT(60), <2>1, <2>2, <1>1 DEF M!Next, M!ServingNext, M!Updater, M!Reader, M!UpdaterStep, M!TypeOK,
           M!Reclaim, M!Publish, M!MarkInitialized, M!Sleep, M!Wake, M!LoopBack, M!Exit, M!Tick,
           M!Call, M!Load, M!Visit, M!Advance, M!Reply, M!Search, M!Look, M!LookAgain,
           M!Compare, M!Move, M!Fault, M!BeginShutdown, M!FreeVendor, M!updaterVars, M!vars
    <2> QED
      BY <1>1, <2>1, <2>3, <2>4
  <1>3. ASSUME M!FreeVendor, ptr[c] = current[stage] PROVE FALSE
    <2>1. /\ stage \in M!Vendors /\ upc[stage] = "done" /\ old' = old
          /\ current' = [current EXCEPT ![stage] = NULL]
      BY <1>3 DEF M!FreeVendor
    <2>2. current[stage] # old[stage]
      BY <1>1, <1>3, <2>1 DEF M!HandOver
    <2>3. v = stage
      <3>1. ptr[c] \in {current[v], old[v]}
        BY <1>1, <1>2 DEF M!Protected
      <3>2. v # stage => {current[v], old[v]} \cap {current[stage], old[stage]} \subseteq {NULL}
        BY <1>1, <2>1 DEF M!EveryListOwned, M!Snapshots
      <3> QED
        BY <1>3, <3>1, <3>2
    <2> QED
      BY <1>1, <1>3, <2>1, <2>2, <2>3 DEF M!TypeOK
  <1> QED
    BY <1>2, <1>3, CacheLists

(* What Collecting says of the vendors, and of one query. *)
VendorsListed ==
  \A v \in M!Vendors :
    upc[v] = "mark" \/ (initialized[v] /\ ~M!Freed(v)) => current[v] # NULL

CollectingOf(c) ==
  /\ rpc[c] \in {"await", "walk"} =>
       /\ \A v \in 1 .. at[c] - 1 : Collected(c, v)
       /\ \A p \in Pairs : table[c][p] <= at[c]
  /\ rpc[c] = "built" \/ thread[c] = "writePairs" => \A v \in M!Vendors : Collected(c, v)
  /\ rpc[c] = "walk" /\ ptr[c] = NULL => Collected(c, at[c])
  /\ rpc[c] = "walk" /\ ptr[c] # NULL /\ M!Protected(c) =>
       /\ pos[c] <= Len(heap[ptr[c]])
       /\ \A i \in 1 .. pos[c] - 1 : table[c][heap[ptr[c]][i]] \in 1 .. at[c]
  /\ ~MallocMayFail => thread[c] # "writeNone" /\ reply[c] # "noresults"

LEMMA CollectingParts == Collecting <=> VendorsListed /\ \A c \in Clients : CollectingOf(c)
  BY DEF Collecting, VendorsListed, CollectingOf

LEMMA CollectingInit == Init => Collecting
  <1> SUFFICES ASSUME Init PROVE VendorsListed /\ \A c \in Clients : CollectingOf(c)
    BY CollectingParts
  <1>1. VendorsListed
    BY DEF Init, M!Init, VendorsListed
  <1>2. \A c \in Clients : CollectingOf(c)
    BY DEF Init, M!Init, S!Init, CollectingOf
  <1> QED
    BY <1>1, <1>2

(* A vendor's list is there when it is marked initialized, and stays. *)
LEMMA VendorsListedNext ==
  ASSUME M!IndInv, ~FetchMayFail, VendorsListed, [M!Next]_(M!vars)
  PROVE  VendorsListed'
  <1> USE DEF VendorsListed, M!Freed
  <1>a. M!TypeOK /\ NULL \notin Addr
    BY CacheAssumptions DEF M!IndInv
  <1>1. ASSUME NEW v \in M!Vendors, M!Publish(v) PROVE VendorsListed'
    <2>1. PICK a \in Malloc(v, {b \in Addr : heap[b] = NULL}) : current' = [current EXCEPT ![v] = a]
      BY <1>1 DEF M!Publish
    <2>2. a \in Addr
      <3>1. {b \in Addr : heap[b] = NULL} \in SUBSET Addr
        OBVIOUS
      <3> QED
        BY <3>1, CacheAssumptions DEF M!Vendors
    <2>3. upc' = [upc EXCEPT ![v] = "mark"] /\ UNCHANGED <<initialized, stage>>
      BY <1>1 DEF M!Publish, M!UpdaterStep
    <2> QED
      BY <1>a, <2>1, <2>2, <2>3 DEF M!TypeOK
  <1>2. ASSUME NEW v \in M!Vendors, M!MarkInitialized(v) PROVE VendorsListed'
    BY <1>a, <1>2 DEF M!MarkInitialized, M!UpdaterStep, M!TypeOK
  <1>3. ASSUME NEW v \in M!Vendors,
               M!Reclaim(v) \/ M!Sleep(v) \/ M!Wake(v) \/ M!LoopBack(v) \/ M!Exit(v)
        PROVE VendorsListed'
    BY <1>a, <1>3 DEF M!Reclaim, M!Sleep, M!Wake, M!LoopBack, M!Exit, M!UpdaterStep, M!TypeOK
  <1>4. CASE M!FreeVendor
    <2>1. /\ stage \in M!Vendors /\ upc[stage] = "done" /\ stage' = stage + 1
          /\ \A w \in M!Vendors \ {stage} : current'[w] = current[w]
          /\ UNCHANGED <<upc, initialized>>
      BY <1>a, <1>4 DEF M!FreeVendor, M!TypeOK
    <2>2. ASSUME NEW w \in M!Vendors, ~(stage' > w) PROVE w # stage /\ ~(stage > w)
      BY <2>1, <2>2 DEF M!Vendors
    <2>3. ASSUME NEW w \in M!Vendors, upc'[w] = "mark" PROVE w # stage
      BY <2>1, <2>3
    <2> QED
      BY <2>1, <2>2, <2>3
  <1>5. CASE M!Tick \/ UNCHANGED M!vars
    BY <1>5 DEF M!Tick, M!vars, M!updaterVars
  <1>6. CASE M!BeginShutdown
    <2>1. \A v \in M!Vendors : ~(0 > v) /\ ~(1 > v)
      BY DEF M!Vendors
    <2> QED
      BY <1>6, <2>1 DEF M!BeginShutdown
  <1>7. ASSUME NEW c \in Clients, M!Call(c) \/ M!Search(c) \/ M!Reader(c) PROVE VendorsListed'
    BY <1>7 DEF M!Reader, M!Call, M!Load, M!Visit, M!Advance, M!Reply, M!Search, M!Look,
                M!LookAgain, M!Compare, M!Move, M!Fault, M!updaterVars
  <1> QED
    BY <1>1, <1>2, <1>3, <1>4, <1>5, <1>6, <1>7 DEF M!Next, M!ServingNext, M!Updater

(* A query that does not move keeps what it has collected. *)
LEMMA CollectingStands ==
  ASSUME M!IndInv, [M!Next]_(M!vars), NEW c \in Clients, CollectingOf(c),
         UNCHANGED <<rpc[c], at[c], ptr[c], pos[c], table[c]>>,
         thread'[c] = "writePairs" => thread[c] = "writePairs",
         ~MallocMayFail => thread'[c] # "writeNone" /\ reply'[c] # "noresults"
  PROVE  CollectingOf(c)'
  <1>1. ASSUME ptr'[c] # NULL, M!Protected(c)'
        PROVE  M!Protected(c) /\ heap'[ptr'[c]] = heap[ptr[c]]
    BY <1>1, ProtectedBefore
  <1>2. \A v : Collected(c, v)' <=> Collected(c, v)
    BY DEF Collected
  <1> QED
    BY <1>1, <1>2 DEF CollectingOf

(* The cache's own steps of one query. *)
LEMMA QueryCollects ==
  ASSUME M!IndInv, VendorsListed, NEW c \in Clients, CollectingOf(c), Query(c)
  PROVE  CollectingOf(c)'
  <1>a. /\ M!TypeOK /\ at[c] \in M!Vendors /\ thread[c] = "query"
        /\ UNCHANGED <<thread, reply, heap, current, old, upc>>
    BY DEF M!IndInv, M!TypeOK, Query, serverVars, M!Load, M!Visit, M!Advance, M!updaterVars
  <1>1. CASE M!Load(c)
    <2>1. /\ rpc[c] = "await" /\ rpc'[c] = "walk" /\ at'[c] = at[c] /\ table'[c] = table[c]
          /\ ptr'[c] = current[at[c]] /\ pos'[c] = 1 /\ current[at[c]] # NULL
      BY <1>a, <1>1 DEF M!Load, M!TypeOK, VendorsListed
    <2>2. heap[current[at[c]]] \in Listings
      BY <1>a, <2>1 DEF M!IndInv, M!TypeOK, M!EveryListOwned, M!Snapshots
    <2>3. 1 <= Len(heap[current[at[c]]])
      BY <2>2, CacheListings
    <2>4. \A v : Collected(c, v)' <=> Collected(c, v)
      BY <2>1 DEF Collected
    <2> QED
      BY <1>a, <2>1, <2>3, <2>4 DEF CollectingOf
  <1>2. CASE M!Visit(c)
    <2> DEFINE list == heap[ptr[c]]
    <2>1. /\ rpc[c] = "walk" /\ ptr[c] # NULL /\ M!Intact(c) /\ ptr[c] \in Addr
          /\ rpc'[c] = "walk" /\ at'[c] = at[c]
          /\ table'[c] = M!KhPut(table[c], list[pos[c]], at[c])
          /\ ptr'[c] = IF pos[c] < Len(list) THEN ptr[c] ELSE NULL
          /\ pos'[c] = IF pos[c] < Len(list) THEN pos[c] + 1 ELSE 1
          /\ pos[c] \in Nat \ {0} /\ table[c] \in [Pairs -> 0 .. NumVendors]
      BY <1>a, <1>2 DEF M!Visit, M!TypeOK, M!IndInv
    <2>2. M!Protected(c)
      BY <1>a, <2>1 DEF M!Protected, M!Intact, M!IndInv, M!GracePeriod
    <2>3. list \in Listings
      BY <2>1 DEF M!Intact, M!IndInv, M!TypeOK
    <2>4. /\ pos[c] <= Len(list) /\ Len(list) \in Nat
          /\ \A i \in 1 .. pos[c] - 1 : table[c][list[i]] \in 1 .. at[c]
      BY <2>1, <2>2, <2>3, CacheListings DEF CollectingOf
    <2>5. \A p \in Pairs : table'[c][p] = IF p = list[pos[c]] /\ table[c][p] = 0
                                          THEN at[c] ELSE table[c][p]
      BY <2>1 DEF M!KhPut
    <2>6. /\ \A i \in 1 .. Len(list) : list[i] \in Pairs
          /\ at[c] \in 1 .. at[c]
      BY <1>a, <2>3, CacheListings DEF M!Vendors
    <2>7. \A v \in 1 .. at[c] : Collected(c, v) => Collected(c, v)'
      <3>1. ASSUME NEW v \in 1 .. at[c], NEW l \in Listings,
                   \A p \in Range(l) : table[c][p] \in 1 .. v
            PROVE  \A p \in Range(l) : table'[c][p] \in 1 .. v
        <4>1. Range(l) \subseteq Pairs
          BY CacheListings DEF Range
        <4> QED
          BY <2>5, <3>1, <4>1
      <3> QED
        BY <3>1 DEF Collected
    <2>8. /\ \A p \in Pairs : table[c][p] <= at[c] /\ table'[c][p] <= at[c]
          /\ pos[c] \in 1 .. Len(list)
      <3>1. \A p \in Pairs : table[c][p] <= at[c]
        BY <2>1 DEF CollectingOf
      <3>2. pos[c] \in 1 .. Len(list)
        BY <2>1, <2>4
      <3> QED
        BY <1>a, <2>5, <3>1, <3>2 DEF M!Vendors
    <2>9. \A i \in 1 .. pos[c] : table'[c][list[i]] \in 1 .. at[c]
      <3> SUFFICES ASSUME NEW i \in 1 .. pos[c] PROVE table'[c][list[i]] \in 1 .. at[c]
        OBVIOUS
      <3>1. i \in 1 .. Len(list) /\ list[i] \in Pairs
        BY <2>1, <2>4, <2>6
      <3>2. table[c][list[i]] \in Nat /\ table[c][list[i]] <= at[c]
        BY <2>1, <2>8, <3>1
      <3>3. CASE i = pos[c]
        BY <1>a, <2>5, <3>1, <3>2, <3>3 DEF M!Vendors
      <3>4. CASE i # pos[c]
        <4>1. table[c][list[i]] \in 1 .. at[c]
          BY SMTT(30), <2>1, <2>4, <3>4
        <4> QED
          BY <2>5, <3>1, <4>1
      <3> QED
        BY <3>3, <3>4
    <2>10. pos[c] = Len(list) => Collected(c, at[c])'
      <3>1. ASSUME pos[c] = Len(list) PROVE \A p \in Range(list) : table'[c][p] \in 1 .. at[c]
        BY <2>3, <2>9, <3>1, CacheListings DEF Range
      <3> QED
        BY <1>a, <2>1, <2>3, <3>1 DEF Collected
    <2>11. rpc'[c] \in {"await", "walk"} =>
             /\ \A v \in 1 .. at'[c] - 1 : Collected(c, v)'
             /\ \A p \in Pairs : table'[c][p] <= at'[c]
      <3>1. \A v \in 1 .. at[c] - 1 : Collected(c, v) /\ v \in 1 .. at[c]
        BY <1>a, <2>1 DEF CollectingOf, M!Vendors
      <3> QED
        BY <2>1, <2>7, <2>8, <3>1
    <2>12. ptr'[c] = NULL => Collected(c, at[c])'
      BY <2>1, <2>4, <2>10
    <2>13. ptr'[c] # NULL => /\ pos'[c] <= Len(heap'[ptr'[c]])
                            /\ \A i \in 1 .. pos'[c] - 1 : table'[c][heap'[ptr'[c]][i]] \in 1 .. at'[c]
      <3>1. ptr'[c] # NULL => ptr'[c] = ptr[c] /\ pos'[c] = pos[c] + 1 /\ pos[c] + 1 <= Len(list)
        BY <2>1, <2>4
      <3>2. (pos[c] + 1) - 1 = pos[c]
        BY <2>1
      <3> QED
        <4> SUFFICES ASSUME ptr'[c] # NULL
                     PROVE  /\ pos'[c] <= Len(heap'[ptr'[c]])
                            /\ \A i \in 1 .. pos'[c] - 1 :
                                 table'[c][heap'[ptr'[c]][i]] \in 1 .. at'[c]
          OBVIOUS
        <4>1. heap'[ptr'[c]] = list
          BY <1>a, <3>1
        <4>2. pos'[c] <= Len(list) /\ pos'[c] - 1 = pos[c]
          BY <3>1, <3>2, Zenon
        <4>3. 1 .. pos'[c] - 1 = 1 .. pos[c] /\ at'[c] = at[c]
          BY <2>1, <4>2
        <4>4. \A i \in 1 .. pos'[c] - 1 : table'[c][list[i]] \in 1 .. at'[c]
          BY <2>9, <4>3, Zenon
        <4> QED
          BY <4>1, <4>2, <4>4, Zenon
    <2> QED
      BY <1>a, <2>1, <2>11, <2>12, <2>13 DEF CollectingOf
  <1>3. CASE M!Advance(c)
    <2>1. /\ rpc[c] = "walk" /\ ptr[c] = NULL /\ ptr'[c] = NULL /\ table'[c] = table[c]
          /\ \/ rpc'[c] = "await" /\ at'[c] = at[c] + 1
             \/ rpc'[c] = "built" /\ at'[c] = at[c] /\ at[c] = NumVendors
      BY <1>a, <1>3, CacheAssumptions DEF M!Advance, M!TypeOK, M!Vendors
    <2>2. \A v \in 1 .. at[c] : Collected(c, v)
      <3>1. \A v \in 1 .. at[c] : v \in 1 .. at[c] - 1 \/ v = at[c]
        BY <1>a DEF M!Vendors
      <3> QED
        BY <2>1, <3>1 DEF CollectingOf
    <2>3. \A v : Collected(c, v)' <=> Collected(c, v)
      BY <2>1 DEF Collected
    <2>4. \A p \in Pairs : table'[c][p] <= at[c] /\ table'[c][p] <= at[c] + 1
      <3>1. \A p \in Pairs : table[c][p] <= at[c] /\ table[c][p] \in Nat
        BY <1>a, <2>1 DEF CollectingOf, M!TypeOK
      <3> QED
        BY <1>a, <2>1, <3>1 DEF M!Vendors
    <2>5. at[c] + 1 - 1 = at[c]
      BY <1>a DEF M!Vendors
    <2> QED
      BY <1>a, <2>1, <2>2, <2>3, <2>4, <2>5 DEF CollectingOf, M!Vendors
  <1> QED
    BY <1>1, <1>2, <1>3 DEF Query

(* Every other step leaves the query alone, or begins or ends it. *)
LEMMA CollectingOfNext ==
  ASSUME S!IndInv, M!IndInv, Ties, ~FetchMayFail, VendorsListed,
         NEW q \in Clients, CollectingOf(q), [Next]_vars
  PROVE  CollectingOf(q)'
  <1> DEFINE stands ==
        /\ UNCHANGED <<rpc[q], at[q], ptr[q], pos[q], table[q]>>
        /\ thread'[q] = "writePairs" => thread[q] = "writePairs"
        /\ ~MallocMayFail => thread'[q] # "writeNone" /\ reply'[q] # "noresults"
  <1>a. S!TypeOK /\ M!TypeOK /\ [M!Next]_(M!vars)
    BY CacheStep DEF S!IndInv, M!IndInv
  <1>b. ~MallocMayFail => thread[q] # "writeNone" /\ reply[q] # "noresults"
    BY DEF CollectingOf
  <1>s. stands => CollectingOf(q)'
    BY <1>a, CollectingStands
  <1>1. CASE Main
    <2>1. UNCHANGED <<rpc, at, ptr, pos, table, reply>>
      BY <1>1 DEF Main, Alone, cacheVars, serverVars, M!BeginShutdown, M!FreeVendor, M!readerVars,
                  S!Listen, S!SetupFails, S!TestRun, S!EnterAccept, S!AcceptReturns, S!CheckRun,
                  S!Spawn, S!SpawnNoMemory, S!Return, S!FreeVendors, S!VendorsFreed, S!threadVars
    <2>2. UNCHANGED thread \/ thread' = [thread EXCEPT ![newsock] = "read"]
      BY <1>1 DEF Main, Alone, serverVars,
                  S!Listen, S!SetupFails, S!TestRun, S!EnterAccept, S!AcceptReturns, S!CheckRun,
                  S!Spawn, S!SpawnNoMemory, S!Return, S!FreeVendors, S!VendorsFreed, S!threadVars
    <2>3. thread'[q] = thread[q] \/ thread'[q] = "read"
      BY <1>a, <2>2 DEF S!TypeOK
    <2> QED
      BY <1>b, <1>s, <2>1, <2>3
  <1>2. CASE Alone(S!Terminate) \/ Tick \/ (\E v \in M!Vendors : Updater(v)) \/ UNCHANGED vars
    <2>1. UNCHANGED <<rpc, at, ptr, pos, table, thread, reply>>
      BY <1>2 DEF Alone, S!Terminate, Tick, M!Tick, Updater, M!Updater, M!Reclaim, M!Publish,
                  M!MarkInitialized, M!Sleep, M!Wake, M!LoopBack, M!Exit, M!readerVars,
                  cacheVars, serverVars, S!threadVars, vars
    <2> QED
      BY <1>b, <1>s, <2>1
  <1>3. ASSUME NEW c \in Clients, Alone(S!Peer(c)) PROVE CollectingOf(q)'
    <2>1. UNCHANGED <<rpc, at, ptr, pos, table, thread, reply>>
      BY <1>3 DEF Alone, S!Peer, S!Connect, S!Send, S!Fin, S!Reset, cacheVars, S!threadVars
    <2> QED
      BY <1>b, <1>s, <2>1
  <1>4. ASSUME NEW c \in Clients, Connection(c) PROVE CollectingOf(q)'
    <2>1. CASE Alone(S!Read(c))
      BY <1>a, <1>b, <1>s, <2>1 DEF Alone, cacheVars, S!Read, S!ThreadStep, S!TypeOK
    <2>2. CASE Alone(S!ReadNothing(c))
      BY <1>a, <1>b, <1>s, <2>2 DEF Alone, cacheVars, S!ReadNothing, S!ThreadStep, S!TypeOK
    <2>3. CASE Alone(S!ReadError(c))
      BY <1>a, <1>b, <1>s, <2>3 DEF Alone, cacheVars, S!ReadError, S!TypeOK
    <2>4. CASE Alone(S!WakeMain(c))
      BY <1>a, <1>b, <1>s, <2>4 DEF Alone, cacheVars, S!WakeMain, S!ThreadStep, S!TypeOK
    <2>5. CASE Alone(S!Write(c))
      BY <1>a, <1>b, <1>s, <2>5 DEF Alone, cacheVars, S!Write, S!ThreadStep, S!TypeOK
    <2>6. CASE Alone(S!WriteError(c))
      BY <1>a, <1>b, <1>s, <2>6 DEF Alone, cacheVars, S!WriteError, S!TypeOK
    <2>7. CASE Alone(S!Cleanup(c))
      BY <1>a, <1>b, <1>s, <2>7 DEF Alone, cacheVars, S!Cleanup, S!ThreadStep, S!TypeOK
    <2>8. CASE Dispatch(c)
      <3>1. PICK k \in S!Recognised(c) :
              thread' = [thread EXCEPT ![c] = CASE k = "exit"  -> "wake"
                                                [] k = "pairs" -> "query"
                                                [] k = "none"  -> "cleanup"]
        BY <2>8 DEF Dispatch, S!Dispatch, S!ThreadStep
      <3> DEFINE next == CASE k = "exit"  -> "wake"
                           [] k = "pairs" -> "query"
                           [] k = "none"  -> "cleanup"
      <3>2. thread' = [thread EXCEPT ![c] = next]
        BY <3>1, Zenon
      <3>3. next \in {"wake", "query", "cleanup"}
        <4>1. k \in {"exit", "pairs", "none"}
          <5>1. S!Recognised(c) \subseteq {"exit", "pairs", "none"}
            BY DEF S!Recognised
          <5> QED
            BY <5>1
        <4> QED
          BY <4>1
      <3> HIDE DEF next
      <3>4. \A d \in Clients : thread'[d] = thread[d] \/ thread'[d] \in {"wake", "query", "cleanup"}
        BY <1>a, <3>2, <3>3 DEF S!TypeOK
      <3>5. \A d \in Clients \ {c} : thread'[d] = thread[d]
        BY <1>a, <3>2 DEF S!TypeOK
      <3>6. reply' = reply
        BY <2>8 DEF Dispatch, S!Dispatch
      <3>7. CASE UNCHANGED cacheVars \/ c # q
        <4>1. UNCHANGED <<rpc[q], at[q], ptr[q], pos[q], table[q]>>
          BY <1>a, <2>8, <3>7 DEF Dispatch, M!Call, cacheVars, M!TypeOK
        <4> QED
          BY <1>b, <1>s, <3>4, <3>6, <4>1
      <3>8. CASE M!Call(c) /\ c = q
        <4>1. /\ rpc'[q] = "await" /\ at'[q] = 1 /\ \A p \in Pairs : table'[q][p] = 0
          BY <1>a, <3>8 DEF M!Call, M!TypeOK
        <4>2. thread'[q] = "query"
          <5>1. rpc'[c] # rpc[c]
            BY <1>a, <3>8 DEF M!Call, M!TypeOK
          <5> QED
            BY <2>8, <3>8, <5>1 DEF Dispatch, cacheVars, CallsCache
        <4> QED
          BY <1>b, <3>6, <4>1, <4>2 DEF CollectingOf
      <3> QED
        BY <2>8, <3>7, <3>8 DEF Dispatch
    <2>9. CASE Query(c)
      <3>1. CASE c = q
        BY <2>9, <3>1, QueryCollects
      <3>2. CASE c # q
        BY <1>a, <1>b, <1>s, <2>9, <3>2 DEF Query, serverVars, M!Load, M!Visit, M!Advance, M!TypeOK
      <3> QED
        BY <3>1, <3>2
    <2>10. CASE EndQuery(c)
      <3>1. /\ rpc[c] = "built" /\ rpc' = [rpc EXCEPT ![c] = "idle"] /\ reply' = reply
            /\ thread' = [thread EXCEPT ![c] = thread'[c]]
            /\ UNCHANGED <<at, ptr, pos, table>>
        BY <1>a, <2>10 DEF EndQuery, S!EndQuery, S!ThreadStep, M!Reply, S!TypeOK
      <3>2. CASE c # q
        BY <1>a, <1>b, <1>s, <3>1, <3>2 DEF S!TypeOK, M!TypeOK
      <3>3. CASE c = q
        <4>1. \A v \in M!Vendors : Collected(c, v)
          BY <3>1, <3>3 DEF CollectingOf
        <4>2. Answered(c)
          <5>1. 1 \in M!Vendors
            BY CacheAssumptions DEF M!Vendors
          <5>2. PICK l \in Listings : \A p \in Range(l) : table[c][p] \in 1 .. 1
            BY <4>1, <5>1 DEF Collected
          <5>3. l[1] \in Pairs /\ l[1] \in Range(l)
            BY CacheListings DEF Range
          <5> QED
            BY <5>2, <5>3 DEF Answered
        <4>3. \A v : Collected(c, v)' <=> Collected(c, v)
          BY <3>1 DEF Collected
        <4>4. ~MallocMayFail => thread'[q] = "writePairs"
          BY <2>10, <3>3, <4>2 DEF EndQuery
        <4>5. rpc'[q] = "idle"
          BY <1>a, <3>1, <3>3 DEF M!TypeOK
        <4> QED
          BY <1>b, <3>1, <3>3, <4>1, <4>3, <4>4, <4>5 DEF CollectingOf
      <3> QED
        BY <3>2, <3>3
    <2>11. CASE Fault(c)
      <3>1. /\ rpc' = [rpc EXCEPT ![c] = "fault"] /\ ptr' = [ptr EXCEPT ![c] = NULL]
            /\ UNCHANGED <<at, pos, table, thread, reply>> /\ thread[c] = "query"
        BY <2>11 DEF Fault, M!Fault, serverVars
      <3>2. CASE c # q
        BY <1>b, <1>s, <3>1, <3>2, <1>a DEF M!TypeOK
      <3>3. CASE c = q
        BY <1>a, <1>b, <3>1, <3>3 DEF CollectingOf, M!TypeOK
      <3> QED
        BY <3>2, <3>3
    <2> QED
      BY <1>4, <2>1, <2>2, <2>3, <2>4, <2>5, <2>6, <2>7, <2>8, <2>9, <2>10, <2>11 DEF Connection
  <1> QED
    BY <1>1, <1>2, <1>3, <1>4 DEF Next

LEMMA CollectingNext ==
  S!IndInv /\ M!IndInv /\ Ties /\ ~FetchMayFail /\ Collecting /\ [Next]_vars => Collecting'
  <1> SUFFICES ASSUME S!IndInv, M!IndInv, Ties, ~FetchMayFail, Collecting, [Next]_vars
               PROVE  Collecting'
    OBVIOUS
  <1>1. VendorsListed /\ \A c \in Clients : CollectingOf(c)
    BY CollectingParts
  <1>2. VendorsListed'
    BY <1>1, CacheStep, VendorsListedNext
  <1>3. \A c \in Clients : CollectingOf(c)'
    BY <1>1, CollectingOfNext
  <1> QED
    BY <1>2, <1>3 DEF Collecting, VendorsListed, CollectingOf

-----------------------------------------------------------------------------
LEMMA IndInvInit == Init => IndInv
  BY CacheInduction, ServerInduction, TiesInit, CollectingInit DEF Init, IndInv

LEMMA IndInvNext == IndInv /\ [Next]_vars => IndInv'
  BY CacheInduction, ServerInduction, CacheStep, ServerStep, TiesNext, CollectingNext DEF IndInv

(* The invariants of the two parts, what ties them, and what a query has    *)
(* collected hold together of the whole bridge.                             *)
THEOREM Inductive == Spec => []IndInv
  BY IndInvInit, IndInvNext, PTL DEF Spec

(* The variables of both parts always have their types.                     *)
THEOREM TypeCorrect == Spec => []TypeOK
  <1>1. IndInv => TypeOK
    BY DEF IndInv, S!IndInv, M!IndInv, TypeOK
  <1> QED
    BY <1>1, Inductive, PTL

(* Until somebody asks the server to stop no connection thread reads freed  *)
(* memory, whatever the update threads do, and nothing kills the process.   *)
THEOREM ServesSoundly == Spec => []SoundWhileServing
  <1>1. IndInv => SoundWhileServing
    <2>1. ASSUME M!IndInv, Ties, run, NEW c \in Clients PROVE rpc[c] # "fault" /\ ~M!Dangling(c)
      BY <2>1, FaultsLate
    <2> QED
      BY <2>1 DEF IndInv, Ties, SoundWhileServing
  <1> QED
    BY <1>1, Inductive, PTL

(* Without the assumption on the peers: freed memory is read only once the  *)
(* main thread frees the vendors, or has freed them.                        *)
THEOREM FaultsWhileFreeing ==
  Spec => [](\A c \in Clients :
               rpc[c] = "fault" \/ M!Dangling(c) => main \in {"freeing", "closing"})
  <1>1. IndInv => \A c \in Clients :
                    rpc[c] = "fault" \/ M!Dangling(c) => main \in {"freeing", "closing"}
    BY FaultsLate DEF IndInv
  <1> QED
    BY <1>1, Inductive, PTL

(* With downloads and allocations that succeed, nobody is told that there   *)
(* are no results, and a list that is sent has a listing of every vendor.   *)
THEOREM AnswersAreFull == Spec => []NoEmptyAnswer
  <1>1. IndInv => NoEmptyAnswer
    BY DEF IndInv, Collecting, NoEmptyAnswer
  <1> QED
    BY <1>1, Inductive, PTL

(* The bridge implements the server of module Server step by step: what the *)
(* cache does in a query, or while the vendors are freed, is a stutter.     *)
THEOREM ServerKept == Spec => S!Init /\ [][S!Next]_(S!vars)
  <1>1. Init => S!Init
    BY DEF Init
  <1>2. IndInv /\ [Next]_vars => [S!Next]_(S!vars)
    BY ServerStep DEF IndInv
  <1> QED
    BY <1>1, <1>2, Inductive, PTL DEF Spec

(* And it drives the cache of module MarketCache as that module has it.     *)
THEOREM CacheKept == Spec => M!Init /\ [][M!Next]_(M!vars)
  <1>1. Init => M!Init
    BY DEF Init
  <1> QED
    BY <1>1, CacheStep, PTL DEF Spec

(* What was proved of the server by itself holds in the bridge.             *)
THEOREM ServerSound ==
  Spec => [](S!SocketsOwned /\ S!StopsForAReason /\ S!OnlyExhaustionAborts
             /\ S!WaitsAtChunkBoundary /\ S!AnswersAQuestion)
  <1>1. S!IndInv => S!SocketsOwned /\ S!StopsForAReason /\ S!OnlyExhaustionAborts
                    /\ S!WaitsAtChunkBoundary /\ S!AnswersAQuestion
    BY DEF S!IndInv, S!StoppedForGood, S!StopsForAReason
  <1>2. IndInv => S!SocketsOwned /\ S!StopsForAReason /\ S!OnlyExhaustionAborts
                  /\ S!WaitsAtChunkBoundary /\ S!AnswersAQuestion
    BY <1>1 DEF IndInv
  <1> QED
    BY <1>2, Inductive, PTL
=============================================================================
