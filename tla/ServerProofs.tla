---------------------------- MODULE ServerProofs ----------------------------
(***************************************************************************)
(* Theorems about Server, for any number of peers, any requests and sizes, *)
(* and any limits of the process.  The argument is the one of IndInv.      *)
(***************************************************************************)
EXTENDS Server, FiniteSetTheorems, TLAPS

(* Every variable starts, and stays, within its type. *)
LEMMA TypeInit == Init => TypeOK
  <1> SUFFICES ASSUME Init PROVE TypeOK
    OBVIOUS
  <1> USE DEF Init
  <1>1. status \in {"up", "exit0", "exit1", "killed"} /\ run \in BOOLEAN /\ sigterm \in BOOLEAN
    OBVIOUS
  <1>2. queue \in Seq(Clients) /\ newsock \in Clients \cup Errors \cup {"none"}
    OBVIOUS
  <1>3. conn \in [Clients -> {"none", "queued", "refused", "open", "closed"}]
    OBVIOUS
  <1>4. thread \in [Clients -> {"none", "read", "dispatch", "wake", "query",
                             "writePairs", "writeNone", "cleanup", "done"}]
    OBVIOUS
  <1>5. got \in [Clients -> 0 .. BufferLimit + Chunk] /\ sent \in [Clients -> Nat]
    BY LengthsAssumption
  <1>6. command \in [Clients -> {"unread", "exit", "pairs", "none"}]
    OBVIOUS
  <1>7. reply \in [Clients -> {"none", "pairs", "noresults"}]
    OBVIOUS
  <1> QED
    BY <1>1, <1>2, <1>3, <1>4, <1>5, <1>6, <1>7 DEF TypeOK

LEMMA TypeNext == TypeOK /\ WaitsAtChunkBoundary /\ [Next]_vars => TypeOK'
  <1> SUFFICES ASSUME TypeOK, WaitsAtChunkBoundary, [Next]_vars PROVE TypeOK'
    OBVIOUS
  <1> USE DEF TypeOK
  <1>1. ASSUME MainThread PROVE TypeOK'
    <2>1. CASE AcceptReturns
      <3>1. queue # <<>> => Head(queue) \in Clients /\ Tail(queue) \in Seq(Clients)
        OBVIOUS
      <3> QED
        BY <2>1, <3>1 DEF AcceptReturns, MainStep, Errors, threadVars, peerVars
    <2>2. CASE Spawn
      BY <2>2 DEF Spawn, MainStep, peerVars
    <2>3. CASE CheckRun \/ EnterAccept \/ TestRun
      BY <2>3 DEF CheckRun, EnterAccept, TestRun, MainStep, Errors, threadVars, peerVars
    <2>4. CASE Listen \/ SetupFails \/ SpawnNoMemory \/ FreeVendors \/ VendorsFreed \/ Return
      BY <2>4 DEF Listen, SetupFails, SpawnNoMemory, FreeVendors, VendorsFreed, Return,
                  MainStep, mainVars, threadVars, peerVars
    <2> QED
      BY <1>1, <2>1, <2>2, <2>3, <2>4 DEF MainThread
  <1>2. ASSUME Terminate PROVE TypeOK'
    BY <1>2 DEF Terminate, Errors, threadVars, peerVars
  <1>3. ASSUME NEW c \in Clients, Connection(c) PROVE TypeOK'
    <2>1. CASE Read(c)
      <3> DEFINE n == IF Available(c) < Chunk THEN Available(c) ELSE Chunk
      <3>1. n \in 0 .. Chunk
        BY <2>1, LengthsAssumption DEF Read, Available
      <3>2. thread[c] = "read" /\ got[c] \in Nat
        BY <2>1 DEF Read, ThreadStep
      <3>3. got[c] <= BufferLimit
        BY <3>2, LengthsAssumption DEF WaitsAtChunkBoundary
      <3>4. got[c] + n \in 0 .. BufferLimit + Chunk
        BY <3>1, <3>2, <3>3, LengthsAssumption
      <3>5. /\ got' = [got EXCEPT ![c] = @ + n]
            /\ ThreadStep(c, "read", IF ReadsOn(n, got[c] + n) THEN "read" ELSE "dispatch")
            /\ UNCHANGED <<run, sigterm, mainVars, conn, command, reply, peerVars>>
        BY <2>1 DEF Read
      <3> DEFINE next == IF ReadsOn(n, got[c] + n) THEN "read" ELSE "dispatch"
      <3>a. next \in {"read", "dispatch"}
        BY Zenon
      <3>b. status' = status /\ thread' = [thread EXCEPT ![c] = next]
        BY Zenon, <2>1 DEF Read, ThreadStep
      <3> HIDE DEF n, next
      <3>6. /\ status' = status
            /\ \/ thread' = [thread EXCEPT ![c] = "read"]
               \/ thread' = [thread EXCEPT ![c] = "dispatch"]
        BY <3>a, <3>b
      <3>7. got' \in [Clients -> 0 .. BufferLimit + Chunk]
        BY <3>4, <3>5
      <3>8. thread' \in [Clients -> {"none", "read", "dispatch", "wake", "query",
                                    "writePairs", "writeNone", "cleanup", "done"}]
        BY <3>6
      <3> QED
        BY Zenon, <3>5, <3>6, <3>7, <3>8 DEF mainVars, peerVars
    <2>2. CASE ReadNothing(c) \/ ReadError(c)
      BY ZenonT(60), <2>2 DEF ReadNothing, ReadError, ThreadStep, mainVars, peerVars
    <2>3. CASE Dispatch(c)
      <3>1. PICK k \in Recognised(c) :
              /\ command' = [command EXCEPT ![c] = k]
              /\ run' = (run /\ k # "exit")
              /\ ThreadStep(c, "dispatch", CASE k = "exit"  -> "wake"
                                             [] k = "pairs" -> "query"
                                             [] k = "none"  -> "cleanup")
        BY <2>3 DEF Dispatch
      <3>2. k \in {"exit", "pairs", "none"}
        BY DEF Recognised
      <3>3. k = "exit" \/ k = "pairs" \/ k = "none"
        BY <3>2
      <3> DEFINE next == CASE k = "exit"  -> "wake"
                           [] k = "pairs" -> "query"
                           [] k = "none"  -> "cleanup"
      <3>4. next \in {"wake", "query", "cleanup"}
        BY <3>3, Zenon
      <3>5. thread' = [thread EXCEPT ![c] = next] /\ UNCHANGED status
        BY <2>3, <3>1 DEF Dispatch, ThreadStep
      <3> HIDE DEF next
      <3> QED
        BY <2>3, <3>1, <3>2, <3>4, <3>5 DEF Dispatch, mainVars, peerVars
    <2>4. CASE WakeMain(c)
      BY <2>4 DEF WakeMain, ThreadStep, peerVars
    <2>5. CASE EndQuery(c)
      <3>1. PICK next \in {"writePairs", "writeNone"} : ThreadStep(c, "query", next)
        BY <2>5 DEF EndQuery
      <3> QED
        BY <2>5, <3>1 DEF EndQuery, ThreadStep, mainVars, peerVars
    <2>6. CASE QueryCrashes(c) \/ Write(c) \/ WriteError(c) \/ Cleanup(c)
      BY ZenonT(60), <2>6 DEF QueryCrashes, Write, WriteError, Cleanup, ThreadStep,
                  mainVars, threadVars, peerVars
    <2> QED
      BY <1>3, <2>1, <2>2, <2>3, <2>4, <2>5, <2>6 DEF Connection
  <1>4. ASSUME NEW c \in Clients, Peer(c) PROVE TypeOK'
    <2>1. CASE Connect(c)
      BY <2>1 DEF Connect, threadVars
    <2>2. CASE Send(c)
      <3>1. PICK m \in sent[c] + 1 .. req[c].len : sent' = [sent EXCEPT ![c] = m]
        BY <2>2 DEF Send
      <3>2. sent[c] \in Nat /\ req[c].len \in Nat
        BY RequestsAssumption
      <3>3. m \in Nat
        BY <3>2
      <3> QED
        BY <2>2, <3>1, <3>3 DEF Send, mainVars, threadVars
    <2>3. CASE Fin(c) \/ Reset(c)
      BY ZenonT(60), <2>3 DEF Fin, Reset, mainVars, threadVars
    <2> QED
      BY <1>4, <2>1, <2>2, <2>3 DEF Peer
  <1>5. CASE UNCHANGED vars
    BY <1>5 DEF vars, mainVars, threadVars, peerVars
  <1> QED
    BY <1>1, <1>2, <1>3, <1>4, <1>5 DEF Next

(* A connection waits in the queue once, and leaves it when it is accepted *)
(* or refused.                                                              *)
LEMMA QueuedInit == Init => Queued
  BY DEF Init, Queued

LEMMA QueuedNext == TypeOK /\ Queued /\ Threads /\ [Next]_vars => Queued'
  <1> SUFFICES ASSUME TypeOK, Queued, Threads, [Next]_vars PROVE Queued'
    OBVIOUS
  <1> USE DEF TypeOK, Queued
  <1>1. CASE AcceptReturns
    <2>1. CASE queue # <<>> /\ queue' = Tail(queue)
                 /\ conn' = [conn EXCEPT ![Head(queue)] = "open"]
      <3>1. \A i \in DOMAIN Tail(queue) :
              /\ i + 1 \in DOMAIN queue /\ i + 1 # 1
              /\ Tail(queue)[i] = queue[i + 1]
        BY <2>1, SMTT(30)
      <3>2. 1 \in DOMAIN queue /\ Head(queue) = queue[1] /\ Head(queue) \in Clients
        BY <2>1
      <3>3. \A i \in DOMAIN queue' : conn'[queue'[i]] = "queued"
        BY <2>1, <3>1, <3>2
      <3>4. \A i, j \in DOMAIN queue' : queue'[i] = queue'[j] => i = j
        BY <2>1, <3>1
      <3>5. \A c \in Clients : peer[c] = "idle" => conn'[c] = "none"
        BY <2>1, <3>2
      <3> QED
        BY <1>1, <3>3, <3>4, <3>5 DEF AcceptReturns, peerVars
    <2>2. CASE UNCHANGED <<queue, conn>>
      BY <1>1, <2>2 DEF AcceptReturns, peerVars
    <2> QED
      BY <1>1, <2>1, <2>2 DEF AcceptReturns
  <1>2. ASSUME NEW c \in Clients, WakeMain(c) PROVE Queued'
    BY <1>2 DEF WakeMain, peerVars
  <1>3. ASSUME NEW c \in Clients, Cleanup(c) PROVE Queued'
    <2>1. conn[c] \in {"open", "closed"} /\ conn' = [conn EXCEPT ![c] = "closed"]
      BY <1>3 DEF Cleanup, ThreadStep, Threads
    <2>2. \A i \in DOMAIN queue : queue[i] \in Clients /\ queue[i] # c
      BY <2>1
    <2> QED
      BY <1>3, <2>1, <2>2 DEF Cleanup, mainVars, peerVars
  <1>4. ASSUME NEW c \in Clients, Connect(c) PROVE Queued'
    <2>1. conn[c] = "none" /\ peer[c] = "idle"
      BY <1>4 DEF Connect
    <2>2. \A i \in DOMAIN queue : queue[i] # c
      BY <2>1
    <2>3. /\ DOMAIN queue' = 1 .. Len(queue) + 1
          /\ queue'[Len(queue) + 1] = c
          /\ \A i \in DOMAIN queue : queue'[i] = queue[i]
          /\ DOMAIN queue = 1 .. Len(queue)
      BY <1>4 DEF Connect
    <2>4. \A i \in DOMAIN queue' : i \in DOMAIN queue \/ i = Len(queue) + 1
      <3>1. Len(queue) \in Nat
        OBVIOUS
      <3> HIDE DEF TypeOK, Queued
      <3> QED
        BY <2>3, <3>1
    <2>5. \A i \in DOMAIN queue' : conn'[queue'[i]] = "queued"
      BY <1>4, <2>2, <2>3, <2>4 DEF Connect
    <2>6. ASSUME NEW i \in DOMAIN queue', NEW j \in DOMAIN queue', queue'[i] = queue'[j]
          PROVE  i = j
      <3>1. CASE i \in DOMAIN queue /\ j \in DOMAIN queue
        BY <2>3, <2>6, <3>1
      <3>2. CASE i \notin DOMAIN queue \/ j \notin DOMAIN queue
        BY <2>2, <2>3, <2>4, <2>6, <3>2
      <3> QED
        BY <3>1, <3>2
    <2>7. \A d \in Clients : peer'[d] = "idle" => conn'[d] = "none"
      BY <1>4 DEF Connect
    <2> QED
      BY <2>5, <2>6, <2>7
  <1>5. CASE /\ UNCHANGED <<queue, conn>>
             /\ \A c \in Clients : peer'[c] = "idle" => peer[c] = "idle"
    BY <1>5
  <1>6. CASE MainThread /\ ~AcceptReturns
    BY <1>5, <1>6 DEF MainThread, Listen, SetupFails, TestRun, EnterAccept, CheckRun,
       Spawn, SpawnNoMemory, FreeVendors, VendorsFreed, Return, mainVars, peerVars
  <1>7. CASE Terminate \/ UNCHANGED vars
    BY <1>5, <1>7 DEF Terminate, vars, mainVars, peerVars
  <1>8. ASSUME NEW c \in Clients, Connection(c), ~WakeMain(c), ~Cleanup(c) PROVE Queued'
    BY <1>5, <1>8 DEF Connection, Read, ReadNothing, ReadError, Dispatch, EndQuery,
       QueryCrashes, Write, WriteError, mainVars, peerVars
  <1>9. ASSUME NEW c \in Clients, Peer(c), ~Connect(c) PROVE Queued'
    BY <1>5, <1>9 DEF Peer, Send, Fin, Reset, mainVars
  <1> QED
    BY <1>1, <1>2, <1>3, <1>4, <1>6, <1>7, <1>8, <1>9 DEF Next

(* What a connection thread leaves alone: it touches its own state only,   *)
(* clears run at most, and neither makes nor forgets a thread.              *)
LEMMA ConnectionFrame ==
  ASSUME TypeOK, NEW c \in Clients, Connection(c)
  PROVE  /\ UNCHANGED <<sigterm, main, newsock, peer, req, sent>>
         /\ run' \in BOOLEAN /\ (run' => run)
         /\ thread' \in [Clients -> {"none", "read", "dispatch", "wake", "query",
                             "writePairs", "writeNone", "cleanup", "done"}]
         /\ \A d \in Clients : (thread'[d] = "none") <=> (thread[d] = "none")
         /\ \A d \in Clients \ {c} : /\ thread'[d] = thread[d] /\ got'[d] = got[d]
                                     /\ command'[d] = command[d] /\ reply'[d] = reply[d]
  <1> USE DEF TypeOK
  <1>1. CASE Read(c)
    BY <1>1 DEF Read, ThreadStep, mainVars, peerVars
  <1>2. CASE ReadNothing(c)
    BY <1>2 DEF ReadNothing, ThreadStep, mainVars, peerVars
  <1>3. CASE Dispatch(c)
    <2>1. PICK k \in Recognised(c) :
            /\ command' = [command EXCEPT ![c] = k]
            /\ run' = (run /\ k # "exit")
            /\ thread[c] = "dispatch"
            /\ thread' = [thread EXCEPT ![c] = CASE k = "exit"  -> "wake"
                                                 [] k = "pairs" -> "query"
                                                 [] k = "none"  -> "cleanup"]
      BY <1>3 DEF Dispatch, ThreadStep
    <2>2. k = "exit" \/ k = "pairs" \/ k = "none"
      BY DEF Recognised
    <2> DEFINE next == CASE k = "exit"  -> "wake"
                         [] k = "pairs" -> "query"
                         [] k = "none"  -> "cleanup"
    <2>3. next \in {"wake", "query", "cleanup"}
      BY <2>2, Zenon
    <2>4. /\ thread' = [thread EXCEPT ![c] = next] /\ thread[c] = "dispatch"
          /\ command' = [command EXCEPT ![c] = k]
      BY <2>1
    <2> HIDE DEF next
    <2>5. (run /\ k # "exit") \in BOOLEAN /\ ((run /\ k # "exit") => run)
      OBVIOUS
    <2>6. /\ UNCHANGED <<sigterm, main, newsock, peer, req, sent, got, reply>>
          /\ run' \in BOOLEAN /\ (run' => run)
      BY <1>3, <2>1, <2>5 DEF Dispatch, mainVars, peerVars
    <2> QED
      BY <2>3, <2>4, <2>6
  <1>4. CASE WakeMain(c)
    BY <1>4 DEF WakeMain, ThreadStep, peerVars
  <1>5. CASE EndQuery(c)
    <2>1. PICK next \in {"writePairs", "writeNone"} : ThreadStep(c, "query", next)
      BY <1>5 DEF EndQuery
    <2> QED
      BY <1>5, <2>1 DEF EndQuery, ThreadStep, mainVars, peerVars
  <1>6. CASE ReadError(c) \/ QueryCrashes(c)
    <2>1. CASE ReadError(c)
      BY <2>1 DEF ReadError, mainVars, peerVars
    <2>2. CASE QueryCrashes(c)
      BY <2>2 DEF QueryCrashes, mainVars, threadVars, peerVars
    <2> QED
      BY <1>6, <2>1, <2>2
  <1>7. CASE Write(c)
    <2>1. /\ thread' = [thread EXCEPT ![c] = "cleanup"] /\ thread[c] # "none"
          /\ \E x : reply' = [reply EXCEPT ![c] = x]
      BY <1>7 DEF Write, ThreadStep
    <2> QED
      BY <1>7, <2>1 DEF Write, mainVars, peerVars
  <1>8. CASE WriteError(c)
    BY <1>8 DEF WriteError, mainVars, peerVars
  <1>9. CASE Cleanup(c)
    BY <1>9 DEF Cleanup, ThreadStep, mainVars, peerVars
  <1> QED
    BY <1>1, <1>2, <1>3, <1>4, <1>5, <1>6, <1>7, <1>8, <1>9 DEF Connection

(* What the first look at the buffer decides. *)
LEMMA DispatchCases ==
  ASSUME TypeOK, NEW c \in Clients, Dispatch(c)
  PROVE  /\ thread[c] = "dispatch" /\ UNCHANGED <<conn, got, reply, listener, req>>
         /\ \/ command'[c] = "exit"  /\ thread'[c] = "wake" /\ ~run'
            \/ /\ command'[c] = "pairs" /\ thread'[c] = "query"
               /\ got[c] = 0 \/ (req[c].kind = "pairs" /\ got[c] >= PairsLen)
               /\ run' = run
            \/ command'[c] = "none" /\ thread'[c] = "cleanup" /\ run' = run
  <1>1. PICK k \in Recognised(c) :
          /\ command' = [command EXCEPT ![c] = k]
          /\ run' = (run /\ k # "exit")
          /\ thread[c] = "dispatch"
          /\ thread' = [thread EXCEPT ![c] = CASE k = "exit"  -> "wake"
                                               [] k = "pairs" -> "query"
                                               [] k = "none"  -> "cleanup"]
    BY DEF Dispatch, ThreadStep
  <1> DEFINE next == CASE k = "exit"  -> "wake"
                       [] k = "pairs" -> "query"
                       [] k = "none"  -> "cleanup"
  <1>2. /\ k = "exit" \/ k = "pairs" \/ k = "none"
        /\ k = "pairs" => got[c] = 0 \/ (req[c].kind = "pairs" /\ got[c] >= PairsLen)
    BY DEF Recognised
  <1>3. thread'[c] = next /\ command'[c] = k
    BY <1>1 DEF TypeOK
  <1>4. /\ k = "exit" => next = "wake"
        /\ k = "pairs" => next = "query"
        /\ k = "none" => next = "cleanup"
    BY Zenon
  <1> HIDE DEF next
  <1>5. k # "exit" => run' = run
    BY <1>1 DEF TypeOK
  <1> QED
    BY <1>1, <1>2, <1>3, <1>4, <1>5 DEF Dispatch, mainVars, peerVars

(* The life of a connection thread. *)
LEMMA ThreadsInit == Init => Threads
  BY DEF Init, Threads

LEMMA ThreadsNext == TypeOK /\ Queued /\ Threads /\ Accepted /\ [Next]_vars => Threads'
  <1> SUFFICES ASSUME TypeOK, Queued, Threads, Accepted, [Next]_vars PROVE Threads'
    OBVIOUS
  <1> USE DEF Threads
  <1>1. CASE AcceptReturns
    <2>1. queue # <<>> => Head(queue) \in Clients
      BY DEF TypeOK
    <2> QED
      BY <1>1, <2>1 DEF AcceptReturns, TypeOK, threadVars
  <1>2. CASE Spawn
    <2>1. newsock \in Clients /\ thread[newsock] = "none" /\ conn[newsock] = "open"
      BY <1>2 DEF Spawn, MainStep, Accepted
    <2> QED
      BY <1>2, <2>1 DEF Spawn, TypeOK
  <1>3. CASE MainThread /\ ~AcceptReturns /\ ~Spawn
    BY <1>3 DEF MainThread, Listen, SetupFails, TestRun, EnterAccept, CheckRun,
       SpawnNoMemory, FreeVendors, VendorsFreed, Return, mainVars, threadVars
  <1>4. CASE Terminate \/ UNCHANGED vars
    BY <1>4 DEF Terminate, vars, threadVars
  <1>5. ASSUME NEW c \in Clients, Connection(c) PROVE Threads'
    <2>1. /\ run' => run
          /\ \A d \in Clients \ {c} : /\ thread'[d] = thread[d] /\ got'[d] = got[d]
                                      /\ command'[d] = command[d] /\ reply'[d] = reply[d]
          /\ thread'[c] = "none" <=> thread[c] = "none"
      BY <1>5, ConnectionFrame
    <2>2. \A d \in Clients : conn'[d] = conn[d] \/ (conn[d] = "queued" /\ thread[d] = "none")
                               \/ conn'[d] = "closed"
      <3>1. CASE Cleanup(c)
        BY <3>1 DEF Cleanup, TypeOK
      <3>2. CASE WakeMain(c)
        BY <3>2 DEF WakeMain, TypeOK
      <3> QED
        BY <1>5, <3>1, <3>2 DEF Connection, Read, ReadNothing, ReadError, Dispatch,
           EndQuery, QueryCrashes, Write, WriteError
    <2>3. /\ thread'[c] \in {"read", "dispatch"} => command'[c] = "unread"
          /\ reply'[c] # "none" => thread'[c] \in {"cleanup", "done"}
          /\ thread'[c] = "wake" => ~run'
          /\ thread[c] # "none"
      <3>1. CASE Read(c)
        BY <3>1 DEF Read, ThreadStep, TypeOK
      <3>2. CASE ReadNothing(c)
        BY <3>2 DEF ReadNothing, ThreadStep, TypeOK
      <3>3. CASE ReadError(c) \/ QueryCrashes(c)
        BY <3>3 DEF ReadError, QueryCrashes, threadVars, TypeOK
      <3>4. CASE Dispatch(c)
        BY <3>4, DispatchCases
      <3>5. CASE WakeMain(c)
        BY <3>5 DEF WakeMain, ThreadStep, TypeOK
      <3>6. CASE EndQuery(c)
        BY <3>6 DEF EndQuery, ThreadStep, TypeOK
      <3>7. CASE Write(c)
        BY <3>7 DEF Write, ThreadStep, TypeOK
      <3>8. CASE WriteError(c)
        BY <3>8 DEF WriteError, TypeOK
      <3>9. CASE Cleanup(c)
        BY <3>9 DEF Cleanup, ThreadStep, TypeOK
      <3> QED
        BY <1>5, <3>1, <3>2, <3>3, <3>4, <3>5, <3>6, <3>7, <3>8, <3>9 DEF Connection
    <2> QED
      BY <2>1, <2>2, <2>3
  <1>6. ASSUME NEW c \in Clients, Connect(c) PROVE Threads'
    <2>1. conn[c] = "none" /\ thread[c] = "none"
      BY <1>6 DEF Connect, Queued
    <2> QED
      BY <1>6, <2>1 DEF Connect, TypeOK, threadVars
  <1>7. ASSUME NEW c \in Clients, Send(c) \/ Fin(c) \/ Reset(c) PROVE Threads'
    BY <1>7 DEF Send, Fin, Reset, threadVars
  <1> QED
    BY <1>1, <1>2, <1>3, <1>4, <1>5, <1>6, <1>7 DEF Next, Peer

(* What accept returned. *)
LEMMA AcceptedInit == Init => Accepted
  BY DEF Init, Accepted

LEMMA AcceptedNext == TypeOK /\ Queued /\ Threads /\ Accepted /\ [Next]_vars => Accepted'
  <1> SUFFICES ASSUME TypeOK, Queued, Threads, Accepted, [Next]_vars PROVE Accepted'
    OBVIOUS
  <1> USE ClientsAssumption DEF Accepted, Errors
  <1>1. CASE AcceptReturns
    <2>1. CASE queue # <<>> /\ newsock' = Head(queue)
                 /\ conn' = [conn EXCEPT ![Head(queue)] = "open"]
      <3>1. Head(queue) \in Clients /\ conn[Head(queue)] = "queued"
        BY <2>1 DEF TypeOK, Queued
      <3>2. thread[Head(queue)] = "none"
        BY <3>1 DEF Threads
      <3>3. conn'[Head(queue)] = "open"
        BY <2>1, <3>1 DEF TypeOK
      <3> QED
        BY <1>1, <2>1, <3>1, <3>2, <3>3 DEF AcceptReturns, MainStep, threadVars
    <2>2. CASE listener = "shut" /\ newsock' = "EINVAL"
      BY <1>1, <2>2 DEF AcceptReturns, MainStep
    <2> QED
      BY <1>1, <2>1, <2>2 DEF AcceptReturns
  <1>2. CASE CheckRun
    BY <1>2 DEF CheckRun, TypeOK, threadVars
  <1>3. CASE EnterAccept
    BY <1>3 DEF EnterAccept, MainStep, TypeOK
  <1>4. CASE Spawn
    BY <1>4 DEF Spawn, MainStep, TypeOK
  <1>5. CASE Listen \/ SetupFails \/ SpawnNoMemory \/ Return
    BY <1>5 DEF Listen, SetupFails, SpawnNoMemory, Return, MainStep, mainVars, threadVars
  <1>6. CASE TestRun \/ FreeVendors \/ VendorsFreed
    BY <1>6 DEF TestRun, FreeVendors, VendorsFreed, MainStep, mainVars, threadVars
  <1>7. CASE Terminate
    BY <1>7 DEF Terminate, threadVars
  <1>8. CASE UNCHANGED vars
    BY <1>8 DEF vars, mainVars, threadVars
  <1>9. ASSUME NEW c \in Clients, Connection(c) PROVE Accepted'
    <2>1. /\ UNCHANGED <<main, newsock>> /\ (run' => run)
          /\ \A d \in Clients : thread'[d] = "none" <=> thread[d] = "none"
      BY <1>9, ConnectionFrame
    <2>2. ASSUME NEW d \in Clients, thread[d] = "none", conn[d] = "open"
          PROVE  conn'[d] = "open"
      <3>1. CASE Cleanup(c)
        BY <2>2, <3>1 DEF Cleanup, ThreadStep, TypeOK
      <3>2. CASE WakeMain(c)
        BY <2>2, <3>2 DEF WakeMain
      <3> QED
        BY <1>9, <2>2, <3>1, <3>2 DEF Connection, Read, ReadNothing, ReadError, Dispatch,
           EndQuery, QueryCrashes, Write, WriteError
    <2>3. (listener' = "shut" => ~run') /\ (listener = "closed" => listener' = "closed")
      <3>1. CASE WakeMain(c)
        BY <2>1, <3>1 DEF WakeMain, ThreadStep, Threads
      <3> QED
        BY <1>9, <2>1, <3>1 DEF Connection, Read, ReadNothing, ReadError, Dispatch,
           EndQuery, QueryCrashes, Write, WriteError, Cleanup, mainVars
    <2> QED
      BY <2>1, <2>2, <2>3
  <1>10. ASSUME NEW c \in Clients, Connect(c) PROVE Accepted'
    <2>1. conn[c] = "none"
      BY <1>10 DEF Connect, Queued
    <2> QED
      BY <1>10, <2>1 DEF Connect, TypeOK, threadVars
  <1>11. ASSUME NEW c \in Clients, Send(c) \/ Fin(c) \/ Reset(c) PROVE Accepted'
    BY <1>11 DEF Send, Fin, Reset, mainVars, threadVars
  <1> QED
    BY <1>1, <1>2, <1>3, <1>4, <1>5, <1>6, <1>7, <1>8, <1>9, <1>10, <1>11
       DEF Next, MainThread, Peer

(* No more threads are made than the process can have. *)
LEMMA CountInit == Init => ThreadsCounted
  <1> SUFFICES ASSUME Init PROVE ThreadsCounted
    OBVIOUS
  <1>1. Spawned = {}
    BY DEF Init, Spawned
  <1> QED
    BY <1>1, FS_EmptySet, LimitsAssumption DEF ThreadsCounted

(* Only the main thread makes threads, one at a time. *)
LEMMA SpawnedFrame ==
  ASSUME TypeOK, [Next]_vars, ~Spawn
  PROVE  Spawned' = Spawned /\ \A c \in Clients : (thread'[c] = "none") <=> (thread[c] = "none")
  <1>1. ASSUME NEW c \in Clients, Connection(c)
        PROVE  \A d \in Clients : (thread'[d] = "none") <=> (thread[d] = "none")
    BY <1>1, ConnectionFrame
  <1>2. ASSUME NEW c \in Clients, Peer(c) PROVE thread' = thread
    BY <1>2 DEF Peer, Connect, Send, Fin, Reset, threadVars
  <1>3. ASSUME MainThread PROVE thread' = thread
    BY <1>3 DEF MainThread, Listen, SetupFails, TestRun, EnterAccept, AcceptReturns, CheckRun,
       SpawnNoMemory, FreeVendors, VendorsFreed, Return, threadVars
  <1>4. ASSUME Terminate \/ UNCHANGED vars PROVE thread' = thread
    BY <1>4 DEF Terminate, vars, threadVars
  <1> QED
    BY <1>1, <1>2, <1>3, <1>4 DEF Next, Spawned

LEMMA CountNext == TypeOK /\ Accepted /\ ThreadsCounted /\ [Next]_vars => ThreadsCounted'
  <1> SUFFICES ASSUME TypeOK, Accepted, ThreadsCounted, [Next]_vars PROVE ThreadsCounted'
    OBVIOUS
  <1>1. CASE Spawn
    <2>1. newsock \in Clients /\ thread[newsock] = "none"
      BY <1>1 DEF Spawn, MainStep, Accepted
    <2>2. CASE Cardinality(Spawned) < MaxThreads
      <3>1. Spawned' = Spawned \cup {newsock} /\ newsock \notin Spawned
        BY <1>1, <2>1, <2>2 DEF Spawn, Spawned, TypeOK
      <3>2. IsFiniteSet(Spawned') /\ Cardinality(Spawned') = Cardinality(Spawned) + 1
        BY <3>1, FS_AddElement DEF ThreadsCounted
      <3>3. Cardinality(Spawned) \in Nat
        BY FS_CardinalityType DEF ThreadsCounted
      <3> QED
        BY <2>2, <3>2, <3>3, LimitsAssumption DEF ThreadsCounted
    <2>3. CASE ~(Cardinality(Spawned) < MaxThreads)
      BY <1>1, <2>3 DEF Spawn, Spawned, ThreadsCounted
    <2> QED
      BY <2>2, <2>3
  <1>2. CASE ~Spawn
    BY <1>2, SpawnedFrame DEF ThreadsCounted
  <1> QED
    BY <1>1, <1>2

(* Why the server stops. *)
LEMMA StoppedInit == Init => StoppedForGood
  BY DEF Init, StoppedForGood

LEMMA StoppedNext ==
  TypeOK /\ Threads /\ Accepted /\ ThreadsCounted /\ StoppedForGood /\ [Next]_vars
    => StoppedForGood'
  <1> SUFFICES ASSUME TypeOK, Threads, Accepted, ThreadsCounted, StoppedForGood, [Next]_vars
               PROVE  StoppedForGood'
    OBVIOUS
  <1> DEFINE Starved == newsock \in Clients /\ thread[newsock] = "none"
                          /\ Cardinality(Spawned) = MaxThreads
             Leaving == {"test", "stop", "freeing", "closing"}
  <1>1. CASE Spawn
    <2>1. newsock \in Clients /\ thread[newsock] = "none"
      BY <1>1 DEF Spawn, MainStep, Accepted
    <2>2. CASE Cardinality(Spawned) < MaxThreads
      BY <1>1, <2>2 DEF Spawn, MainStep, StoppedForGood
    <2>3. CASE ~(Cardinality(Spawned) < MaxThreads)
      <3>1. Cardinality(Spawned) = MaxThreads
        BY <2>3, FS_CardinalityType, LimitsAssumption DEF ThreadsCounted
      <3> QED
        BY <1>1, <2>1, <2>3, <3>1 DEF Spawn, MainStep, Spawned, StoppedForGood
    <2> QED
      BY <2>2, <2>3
  <1>2. CASE Terminate
    BY <1>2 DEF Terminate, StoppedForGood
  <1>3. ASSUME MainThread, ~Spawn PROVE StoppedForGood'
    <2>1. UNCHANGED <<run, sigterm, command, thread>>
      BY <1>3 DEF MainThread, Listen, SetupFails, TestRun, EnterAccept, AcceptReturns, CheckRun,
         SpawnNoMemory, FreeVendors, VendorsFreed, Return, threadVars
    <2>2. Starved /\ main \in Leaving /\ ~run => Starved' /\ main' \in Leaving
      BY <1>3, <2>1 DEF MainThread, Listen, SetupFails, TestRun, EnterAccept, AcceptReturns,
         CheckRun, SpawnNoMemory, FreeVendors, VendorsFreed, Return, MainStep, mainVars, Spawned
    <2> QED
      BY <2>1, <2>2 DEF StoppedForGood
  <1>4. ASSUME NEW c \in Clients, Connection(c) PROVE StoppedForGood'
    <2>1. /\ UNCHANGED <<sigterm, main, newsock, Spawned>>
          /\ \A d \in Clients : thread'[d] = "none" <=> thread[d] = "none"
          /\ \A d \in Clients \ {c} : command'[d] = command[d]
      BY <1>4, ConnectionFrame DEF Spawned
    <2>2. (run' = run /\ command' = command) \/ Dispatch(c)
      BY <1>4 DEF Connection, Read, ReadNothing, ReadError, WakeMain, EndQuery, QueryCrashes,
         Write, WriteError, Cleanup, threadVars
    <2>3. Dispatch(c) => /\ command[c] = "unread"
                         /\ run' = run \/ command'[c] = "exit"
      BY DispatchCases DEF Threads
    <2> QED
      BY <2>1, <2>2, <2>3 DEF StoppedForGood
  <1>5. ASSUME NEW c \in Clients, Peer(c) PROVE StoppedForGood'
    <2>1. UNCHANGED <<run, sigterm, main, newsock, command, thread>>
      BY <1>5 DEF Peer, Connect, Send, Fin, Reset, mainVars, threadVars
    <2> QED
      BY <2>1 DEF StoppedForGood, Spawned
  <1>6. CASE UNCHANGED vars
    BY <1>6 DEF vars, mainVars, threadVars, StoppedForGood, Spawned
  <1> QED
    BY <1>1, <1>2, <1>3, <1>4, <1>5, <1>6 DEF Next

(* Descriptors: every open connection is in somebody's hands. *)
LEMMA SocketsInit == Init => SocketsOwned
  BY DEF Init, SocketsOwned, OpenFds

LEMMA SocketsNext == TypeOK /\ Accepted /\ SocketsOwned /\ [Next]_vars => SocketsOwned'
  <1> SUFFICES ASSUME TypeOK, Accepted, SocketsOwned, [Next]_vars, run',
                      NEW c \in Clients, conn'[c] = "open"
               PROVE  \/ thread'[c] \notin {"none", "done"}
                      \/ newsock' = c /\ main' \in {"check", "spawn"}
    BY DEF SocketsOwned, OpenFds
  <1> DEFINE Owned == \/ thread[c] \notin {"none", "done"}
                      \/ newsock = c /\ main \in {"check", "spawn"}
  <1>1. run /\ conn[c] = "open" => Owned
    BY DEF SocketsOwned, OpenFds
  <1>2. CASE AcceptReturns
    BY <1>1, <1>2 DEF AcceptReturns, MainStep, TypeOK, threadVars
  <1>3. CASE CheckRun
    BY <1>1, <1>3, ClientsAssumption DEF CheckRun, threadVars
  <1>4. CASE Spawn
    BY <1>1, <1>4 DEF Spawn, MainStep, TypeOK
  <1>5. ASSUME MainThread, ~AcceptReturns, ~CheckRun, ~Spawn PROVE Owned'
    BY <1>1, <1>5 DEF MainThread, Listen, SetupFails, TestRun, EnterAccept, SpawnNoMemory,
       FreeVendors, VendorsFreed, Return, MainStep, mainVars, threadVars
  <1>6. CASE Terminate
    BY <1>6 DEF Terminate
  <1>7. ASSUME NEW d \in Clients, Connection(d) PROVE Owned'
    <2>1. /\ UNCHANGED <<main, newsock>> /\ run
          /\ d # c => thread'[c] = thread[c]
          /\ thread'[c] = "none" <=> thread[c] = "none"
      BY <1>7, ConnectionFrame
    <2>2. conn[c] = "open"
      BY ZenonT(60), <1>7 DEF TypeOK, Connection, Read, ReadNothing, ReadError, Dispatch, WakeMain,
         EndQuery, QueryCrashes, Write, WriteError, Cleanup
    <2>3. d = c => thread'[c] # "done"
      <3>1. CASE Cleanup(d)
        BY <3>1 DEF Cleanup, TypeOK
      <3>2. CASE Dispatch(d)
        BY <3>2, DispatchCases
      <3>3. CASE EndQuery(d)
        BY <3>3 DEF EndQuery, ThreadStep, TypeOK
      <3> QED
        BY <1>1, <1>7, <2>1, <2>2, <3>1, <3>2, <3>3 DEF Connection, Read, ReadNothing, ReadError,
           WakeMain, QueryCrashes, Write, WriteError, ThreadStep, TypeOK, threadVars
    <2> QED
      BY <1>1, <2>1, <2>2, <2>3
  <1>8. ASSUME NEW d \in Clients, Peer(d) PROVE Owned'
    BY <1>1, <1>8 DEF Peer, Connect, Send, Fin, Reset, TypeOK, mainVars, threadVars
  <1>9. CASE UNCHANGED vars
    BY <1>1, <1>9 DEF vars, mainVars, threadVars
  <1> QED
    BY <1>2, <1>3, <1>4, <1>5, <1>6, <1>7, <1>8, <1>9 DEF Next

(* Errors of accept that SIGTERM and EXIT bring about are not fatal. *)
LEMMA AbortInit == Init => OnlyExhaustionAborts
  BY DEF Init, OnlyExhaustionAborts

LEMMA AbortNext ==
  TypeOK /\ Accepted /\ OnlyExhaustionAborts /\ [Next]_vars => OnlyExhaustionAborts'
  <1> SUFFICES ASSUME TypeOK, Accepted, OnlyExhaustionAborts, [Next]_vars
               PROVE  OnlyExhaustionAborts'
    OBVIOUS
  <1> USE DEF OnlyExhaustionAborts
  <1>1. CASE CheckRun
    <2>1. CASE run /\ newsock \in Errors
      BY <1>1, <2>1 DEF CheckRun, Errors, Accepted
    <2>2. CASE ~(run /\ newsock \in Errors)
      BY <1>1, <2>2 DEF CheckRun
    <2> QED
      BY <2>1, <2>2
  <1>2. CASE SetupFails \/ Listen
    BY <1>2 DEF SetupFails, Listen, Accepted, MainStep, mainVars
  <1>3. CASE MainThread /\ ~CheckRun /\ ~SetupFails /\ ~Listen
    BY <1>3 DEF MainThread, TestRun, EnterAccept, AcceptReturns, Spawn, SpawnNoMemory,
       FreeVendors, VendorsFreed, Return, MainStep
  <1>4. CASE Terminate
    BY <1>4 DEF Terminate
  <1>5. ASSUME NEW c \in Clients, Connection(c) PROVE OnlyExhaustionAborts'
    BY <1>5 DEF Connection, Read, ReadNothing, ReadError, Dispatch, WakeMain, EndQuery,
       QueryCrashes, Write, WriteError, Cleanup, ThreadStep, mainVars
  <1>6. ASSUME NEW c \in Clients, Peer(c) PROVE OnlyExhaustionAborts'
    BY <1>6 DEF Peer, Connect, Send, Fin, Reset, mainVars
  <1>7. CASE UNCHANGED vars
    BY <1>7 DEF vars, mainVars
  <1> QED
    BY <1>1, <1>2, <1>3, <1>4, <1>5, <1>6, <1>7 DEF Next

(* A whole number of chunks and one more is a whole number of chunks. *)
LEMMA OneMoreChunk ==
  ASSUME NEW n \in Nat \ {0}, NEW a \in Nat, a % n = 0
  PROVE  (a + n) % n = 0
  <1>1. PICK q \in Int : a = n * q
    <2>1. a = n * (a \div n) + (a % n) /\ a \div n \in Int
      OBVIOUS
    <2> QED
      BY <2>1
  <1>2. a + n = n * (q + 1) /\ a + n \in Nat /\ q + 1 \in Int
    BY <1>1
  <1>3. \A b \in Nat, m \in Int : b = n * m => b % n = 0
    OBVIOUS
  <1> QED
    BY <1>2, <1>3

(* A thread that waits for more has read whole chunks. *)
LEMMA ChunkInit == Init => WaitsAtChunkBoundary
  BY DEF Init, WaitsAtChunkBoundary

LEMMA ChunkNext ==
  TypeOK /\ Threads /\ Accepted /\ WaitsAtChunkBoundary /\ [Next]_vars => WaitsAtChunkBoundary'
  <1> SUFFICES ASSUME TypeOK, Threads, Accepted, WaitsAtChunkBoundary, [Next]_vars,
                      NEW c \in Clients, thread'[c] = "read", got'[c] > 0
               PROVE  got'[c] % Chunk = 0 /\ got'[c] <= BufferLimit
    BY DEF WaitsAtChunkBoundary
  <1> DEFINE Bounded == got[c] % Chunk = 0 /\ got[c] <= BufferLimit
  <1>1. thread[c] = "read" /\ got[c] > 0 => Bounded
    BY DEF WaitsAtChunkBoundary
  <1>2. CASE Read(c)
    <2> DEFINE n == IF Available(c) < Chunk THEN Available(c) ELSE Chunk
    <2>1. /\ thread[c] = "read" /\ got'[c] = got[c] + n
          /\ ReadsOn(n, got[c] + n)
      BY <1>2 DEF Read, ThreadStep, TypeOK
    <2>2. n = Chunk /\ got[c] + Chunk <= BufferLimit
      BY <2>1 DEF ReadsOn
    <2>3. got[c] \in Nat /\ got[c] % Chunk = 0
      <3>1. got[c] \in Nat /\ (got[c] > 0 => got[c] % Chunk = 0)
        BY <1>1, <2>1 DEF TypeOK
      <3>2. 0 % Chunk = 0
        BY LengthsAssumption
      <3> QED
        BY <3>1, <3>2
    <2>4. (got[c] + Chunk) % Chunk = 0
      BY <2>3, LengthsAssumption, OneMoreChunk
    <2> QED
      BY <2>1, <2>2, <2>4
  <1>3. CASE Spawn
    <2>1. thread[newsock] = "none" /\ newsock \in Clients
      BY <1>3 DEF Spawn, MainStep, Accepted
    <2>2. thread[c] = "none" => got[c] = 0
      BY DEF Threads
    <2>3. thread[c] = "none" \/ thread[c] = "read"
      BY <1>3, <2>1 DEF Spawn, TypeOK
    <2> QED
      BY <1>1, <1>3, <2>2, <2>3 DEF Spawn, TypeOK
  <1>4. ASSUME MainThread \/ Terminate \/ UNCHANGED vars, ~Spawn PROVE Bounded'
    BY <1>1, <1>4 DEF MainThread, Listen, SetupFails, TestRun, EnterAccept, AcceptReturns, CheckRun,
       SpawnNoMemory, FreeVendors, VendorsFreed, Return, Terminate, vars, threadVars
  <1>5. ASSUME NEW d \in Clients, Connection(d), d # c PROVE Bounded'
    BY <1>1, <1>5, ConnectionFrame
  <1>6. ASSUME Connection(c), ~Read(c) PROVE Bounded'
    <2>1. thread[c] = "read" /\ got' = got
      <3>1. CASE Dispatch(c)
        BY <3>1, DispatchCases
      <3>2. CASE EndQuery(c)
        BY <3>2 DEF EndQuery, ThreadStep, TypeOK
      <3> QED
        BY <1>6, <3>1, <3>2 DEF Connection, ReadNothing, ReadError, WakeMain, QueryCrashes,
           Write, WriteError, Cleanup, ThreadStep, TypeOK, threadVars
    <2> QED
      BY <1>1, <2>1
  <1>7. ASSUME NEW d \in Clients, Peer(d) PROVE Bounded'
    BY <1>1, <1>7 DEF Peer, Connect, Send, Fin, Reset, threadVars
  <1> QED
    BY <1>2, <1>3, <1>4, <1>5, <1>6, <1>7 DEF Next

(* An answer follows a question. *)
LEMMA AnswerInit == Init => AnswersAQuestion
  BY DEF Init, AnswersAQuestion

LEMMA AnswerNext ==
  TypeOK /\ Threads /\ Accepted /\ AnswersAQuestion /\ [Next]_vars => AnswersAQuestion'
  <1> SUFFICES ASSUME TypeOK, Threads, Accepted, AnswersAQuestion, [Next]_vars,
                      NEW c \in Clients,
                      thread'[c] \in {"query", "writePairs", "writeNone"} \/ reply'[c] # "none"
               PROVE  got'[c] = 0 \/ (req'[c].kind = "pairs" /\ got'[c] >= PairsLen)
    BY DEF AnswersAQuestion
  <1> DEFINE Answering == thread[c] \in {"query", "writePairs", "writeNone"} \/ reply[c] # "none"
             Asked == got[c] = 0 \/ (req[c].kind = "pairs" /\ got[c] >= PairsLen)
  <1>1. Answering => Asked
    BY DEF AnswersAQuestion
  <1>2. CASE Spawn
    <2>1. Answering /\ UNCHANGED <<got, req>>
      BY <1>2 DEF Spawn, TypeOK, peerVars
    <2> QED
      BY <1>1, <2>1
  <1>3. ASSUME MainThread \/ Terminate \/ UNCHANGED vars, ~Spawn PROVE Asked'
    BY <1>1, <1>3 DEF MainThread, Listen, SetupFails, TestRun, EnterAccept, AcceptReturns, CheckRun,
       SpawnNoMemory, FreeVendors, VendorsFreed, Return, Terminate, vars, threadVars, peerVars
  <1>4. ASSUME NEW d \in Clients, Connection(d), d # c PROVE Asked'
    BY <1>1, <1>4, ConnectionFrame
  <1>5. ASSUME Connection(c) PROVE Asked'
    <2>1. req' = req
      BY <1>5, ConnectionFrame
    <2>2. CASE Dispatch(c)
      <3>1. reply[c] = "none" /\ UNCHANGED <<got, reply>>
        BY <2>2, DispatchCases DEF Threads
      <3> QED
        BY <2>1, <2>2, <3>1, DispatchCases
    <2>3. CASE Read(c)
      <3>1. thread'[c] \in {"read", "dispatch"} /\ thread[c] = "read" /\ reply' = reply
        BY <2>3 DEF Read, ThreadStep, TypeOK
      <3> QED
        BY <3>1 DEF Threads
    <2>4. CASE EndQuery(c) \/ Write(c)
      <3>1. Answering /\ got' = got
        BY <2>4 DEF EndQuery, Write, ThreadStep
      <3> QED
        BY <1>1, <2>1, <3>1
    <2>5. ASSUME Connection(c), ~Dispatch(c), ~Read(c), ~EndQuery(c), ~Write(c)
          PROVE  Answering /\ got' = got
      BY <2>5 DEF Connection, ReadNothing, ReadError, WakeMain, QueryCrashes,
         WriteError, Cleanup, ThreadStep, TypeOK, threadVars
    <2> QED
      BY <1>1, <1>5, <2>1, <2>2, <2>3, <2>4, <2>5
  <1>6. ASSUME NEW d \in Clients, Peer(d) PROVE Asked'
    BY <1>1, <1>6 DEF Peer, Connect, Send, Fin, Reset, threadVars
  <1> QED
    BY <1>2, <1>3, <1>4, <1>5, <1>6 DEF Next

-----------------------------------------------------------------------------
LEMMA IndInvInit == Init => IndInv
  BY TypeInit, QueuedInit, ThreadsInit, AcceptedInit, CountInit, StoppedInit, SocketsInit,
     AbortInit, ChunkInit, AnswerInit DEF IndInv

LEMMA IndInvNext == IndInv /\ [Next]_vars => IndInv'
  BY TypeNext, QueuedNext, ThreadsNext, AcceptedNext, CountNext, StoppedNext, SocketsNext,
     AbortNext, ChunkNext, AnswerNext DEF IndInv

(* The conjunction of the parts is inductive. *)
THEOREM Inductive == Spec => []IndInv
  BY IndInvInit, IndInvNext, PTL DEF Spec

(* The variables of the server always have their types. *)
THEOREM TypeCorrect == Spec => []TypeOK
  <1>1. IndInv => TypeOK
    BY DEF IndInv
  <1> QED
    BY <1>1, Inductive, PTL

(* No descriptor leaks while the server serves, whatever the peers send,   *)
(* and in whatever order its threads run.                                   *)
THEOREM NoDescriptorLeaks == Spec => []SocketsOwned
  <1>1. IndInv => SocketsOwned
    BY DEF IndInv
  <1> QED
    BY <1>1, Inductive, PTL

(* Nothing stops the server but SIGTERM, EXIT and the want of a thread,    *)
(* and the last only when all threads it can have were made.                *)
THEOREM NeverStopsByItself == Spec => []StopsForAReason
  <1>1. IndInv => StopsForAReason
    BY DEF IndInv, StoppedForGood, StopsForAReason
  <1> QED
    BY <1>1, Inductive, PTL

(* A server that is told to stop never ends with the error of accept that  *)
(* told it.                                                                 *)
THEOREM AbortsOnlyExhausted == Spec => []OnlyExhaustionAborts
  <1>1. IndInv => OnlyExhaustionAborts
    BY DEF IndInv
  <1> QED
    BY <1>1, Inductive, PTL

(* A thread waits for more of a request only behind a whole number of       *)
(* chunks, within the limit: for any chunk size, limit and request.         *)
THEOREM WaitsForChunks == Spec => []WaitsAtChunkBoundary
  <1>1. IndInv => WaitsAtChunkBoundary
    BY DEF IndInv
  <1> QED
    BY <1>1, Inductive, PTL

(* Only who asked is answered, or who sent nothing. *)
THEOREM AnswersOnlyQuestions == Spec => []AnswersAQuestion
  <1>1. IndInv => AnswersAQuestion
    BY DEF IndInv
  <1> QED
    BY <1>1, Inductive, PTL
=============================================================================
