------------------------------- MODULE Bridge -------------------------------
(***************************************************************************)
(* The bridge process: the TCP server of main/main.c over the market cache *)
(* of book/vendor.c.  The connection threads are the readers of the cache, *)
(* and the main thread is the one that frees the vendors.  Each action is  *)
(* one of Server, one of MarketCache, or one of each in the same step: the *)
(* call of vendor_get_all_trading_pairs and its return, and the call of    *)
(* vendor_list_free and its return.                                        *)
(***************************************************************************)
EXTENDS Naturals, Sequences, FiniteSets, Functions

CONSTANTS
  Clients, Requests, PairsLen, ExitLen, Chunk, BufferLimit, Backlog, MaxFds,
  MaxThreads, MallocMayFail, PeersMayReset,                       \* of Server
  NumVendors, Pairs, Opposite, Goals, Listings, Addr, NULL, MarketTimeout, MaxHold,
  FetchMayFail, Malloc(_, _)                                      \* of MarketCache

VARIABLES
  status, run, sigterm, main, listener, newsock, queue, conn, thread, got,
  command, peer, req, sent, reply,                                \* of Server
  heap, current, old, initialized, running, upc, sTotal, rested, rpc, at, ptr,
  pos, held, table, goal, found, stage                            \* of MarketCache

S == INSTANCE Server
M == INSTANCE MarketCache WITH Readers <- Clients

ASSUME ServerAssumptions ==
  /\ S!LengthsAssumption /\ S!RequestsAssumption /\ S!LimitsAssumption
  /\ S!FaultsAssumption /\ S!ClientsAssumption
ASSUME CacheAssumptions ==
  /\ M!VendorsAssumption /\ M!SearchAssumption /\ M!ListingsAssumption /\ M!NullAssumption
  /\ M!TimingAssumption /\ M!FetchAssumption /\ M!MallocAssumption

serverVars == <<status, run, sigterm, main, listener, newsock, queue, conn, thread,
                got, command, peer, req, sent, reply>>
cacheVars  == <<heap, current, old, initialized, running, upc, sTotal, rested, rpc,
                at, ptr, pos, held, table, goal, found, stage>>
vars       == <<serverVars, cacheVars>>

Init == S!Init /\ M!Init

(* A step of the server that the cache has no part in. *)
CallsCache(c) == thread[c] # "query" /\ thread'[c] = "query"
Alone(A) == A /\ UNCHANGED cacheVars

-----------------------------------------------------------------------------
Main ==
  \/ Alone(S!Listen) \/ Alone(S!SetupFails) \/ Alone(S!TestRun) \/ Alone(S!EnterAccept)
  \/ Alone(S!AcceptReturns) \/ Alone(S!CheckRun) \/ Alone(S!Spawn)
  \/ Alone(S!SpawnNoMemory) \/ Alone(S!Return)
  \/ S!FreeVendors /\ M!BeginShutdown
  \/ main = "freeing" /\ M!FreeVendor /\ UNCHANGED serverVars
  \/ stage = NumVendors + 1 /\ Alone(S!VendorsFreed)

Dispatch(c) ==
  /\ S!Dispatch(c)
  /\ IF CallsCache(c) THEN M!Call(c) ELSE UNCHANGED cacheVars

(* One step of the query: the cache's own, the server looks on. *)
Query(c) ==
  /\ status = "up" /\ thread[c] = "query"
  /\ M!Load(c) \/ M!Visit(c) \/ M!Advance(c)
  /\ UNCHANGED serverVars

(* A NULL list, or no memory to encode it, is answered with No Results. *)
Answered(c) == \E p \in Pairs : table[c][p] # 0

EndQuery(c) ==
  /\ S!EndQuery(c) /\ M!Reply(c)
  /\ ~Answered(c) => thread'[c] = "writeNone"
  /\ Answered(c) /\ ~MallocMayFail => thread'[c] = "writePairs"

(* Undefined behaviour: the thread is lost, or the process is. *)
Fault(c) ==
  /\ status = "up" /\ thread[c] = "query" /\ M!Fault(c)
  /\ \/ UNCHANGED serverVars
     \/ /\ status' = "killed"
        /\ UNCHANGED <<run, sigterm, main, listener, newsock, queue, conn, thread,
                       got, command, peer, req, sent, reply>>

Connection(c) ==
  \/ Alone(S!Read(c)) \/ Alone(S!ReadNothing(c)) \/ Alone(S!ReadError(c))
  \/ Alone(S!WakeMain(c)) \/ Alone(S!Write(c)) \/ Alone(S!WriteError(c)) \/ Alone(S!Cleanup(c))
  \/ Dispatch(c) \/ Query(c) \/ EndQuery(c) \/ Fault(c)

Updater(v) == status = "up" /\ M!Updater(v) /\ UNCHANGED serverVars

Tick == status = "up" /\ M!Tick /\ UNCHANGED serverVars

Next ==
  \/ Main
  \/ Alone(S!Terminate)
  \/ Tick
  \/ \E c \in Clients : Connection(c) \/ Alone(S!Peer(c))
  \/ \E v \in M!Vendors : Updater(v)

Fairness ==
  /\ WF_vars(Main)
  /\ WF_vars(Tick)
  /\ \A c \in Clients : WF_vars(Connection(c))
  /\ \A v \in M!Vendors : WF_vars(Updater(v))

Spec == Init /\ [][Next]_vars /\ Fairness

-----------------------------------------------------------------------------
(* Properties. *)

(* Every variable stays within its type. *)
TypeOK == S!TypeOK /\ M!TypeOK

(* The log line "Threads shut down" and the comment "Handle SIGTERM         *)
(* gracefully": nobody still walks the lists that the main thread frees.    *)
GracefulShutdown == \A c \in Clients : rpc[c] # "fault"

(* Until somebody asks the server to stop, no thread reads freed memory and *)
(* nothing kills the process.                                               *)
SoundWhileServing ==
  run /\ ~PeersMayReset =>
    /\ status # "killed"
    /\ \A c \in Clients : rpc[c] # "fault" /\ ~M!Dangling(c)

(* A client that asks before any vendor has downloaded anything is not told *)
(* that there are no results: when no download and no allocation fails,     *)
(* only lists are sent, and they hold a listing of every vendor.            *)
Collected(c, v) == \E l \in Listings : \A p \in Range(l) : table[c][p] \in 1 .. v

NoEmptyAnswer ==
  ~FetchMayFail /\ ~MallocMayFail =>
    \A c \in Clients :
      /\ reply[c] # "noresults"
      /\ thread[c] = "writePairs" => \A v \in M!Vendors : Collected(c, v)

(***************************************************************************)
(* Why: the ties between the two parts, and what a query has collected.    *)
(***************************************************************************)

(* The vendors are freed by a server that was told to stop; a thread is in  *)
(* the cache as long as its query lasts; only a reset kills a server that   *)
(* serves.                                                                  *)
Ties ==
  /\ main \in {"stop", "freeing", "closing"} => ~run
  /\ stage > 0 => main \in {"freeing", "closing"}
  /\ \A c \in Clients :
       IF thread[c] = "query" THEN rpc[c] \in {"await", "walk", "built", "fault"}
                              ELSE rpc[c] = "idle"
  /\ ~PeersMayReset => \A c \in Clients : peer[c] # "reset"
  /\ status = "killed" => PeersMayReset \/ ~run

(* A vendor that is initialized has a list until it is freed, and a query   *)
(* has collected a listing of each vendor it has left, and of the one it is *)
(* at the nodes it has passed.                                              *)
Collecting ==
  /\ \A v \in M!Vendors :
       upc[v] = "mark" \/ (initialized[v] /\ ~M!Freed(v)) => current[v] # NULL
  /\ \A c \in Clients :
       /\ rpc[c] \in {"await", "walk"} =>
            /\ \A v \in 1 .. at[c] - 1 : Collected(c, v)
            /\ \A p \in Pairs : table[c][p] <= at[c]
       /\ rpc[c] = "built" \/ thread[c] = "writePairs" => \A v \in M!Vendors : Collected(c, v)
       /\ rpc[c] = "walk" /\ ptr[c] = NULL => Collected(c, at[c])
       /\ rpc[c] = "walk" /\ ptr[c] # NULL /\ M!Protected(c) =>
            /\ pos[c] <= Len(heap[ptr[c]])
            /\ \A i \in 1 .. pos[c] - 1 : table[c][heap[ptr[c]][i]] \in 1 .. at[c]
       /\ ~MallocMayFail => thread[c] # "writeNone" /\ reply[c] # "noresults"

IndInv == S!IndInv /\ M!IndInv /\ Ties /\ (~FetchMayFail => Collecting)

(* The server of module Server, which takes the query and the freeing of    *)
(* the vendors for single steps that end, is what the bridge implements:    *)
(* the waits for the vendors' first download, for the update threads to be  *)
(* joined and for time to pass never hold it up for ever.                   *)
KeepsServer == S!Spec

(* After an EXIT command the process ends, although that takes every        *)
(* vendor's update thread to notice that it is to stop.                     *)
ExitStops == S!ExitStops
=============================================================================
