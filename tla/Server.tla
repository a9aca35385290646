------------------------------- MODULE Server -------------------------------
(***************************************************************************)
(* The TCP server of main/main.c: the main thread's accept loop, one       *)
(* thread per connection (do_connect), the SIGTERM handler, and the peers. *)
(* A connection carries one request, whose first bytes are the command;    *)
(* the server answers a trading_pairs command with one write and closes.   *)
(*                                                                         *)
(* Bytes are counted, not stored: what the peer sends is a kind of command *)
(* and a length, and the buffer of a connection is how much of it was read. *)
(* vendor_get_all_trading_pairs and vendor_list_free are one step each     *)
(* here (EndQuery, VendorsFreed); module Bridge gives them their bodies.   *)
(***************************************************************************)
EXTENDS Naturals, Sequences, FiniteSets

CONSTANTS
  Clients,        \* peers; each makes at most one connection
  Requests,       \* what a peer may send: records [kind, len]
  PairsLen,       \* length of "trading_pairs"
  ExitLen,        \* length of "EXIT"
  Chunk,          \* bytes asked of one read
  BufferLimit,    \* buffer length above which reading stops
  Backlog,        \* connections the listener may hold for accept
  MaxFds,         \* descriptors the process may have for connections
  MaxThreads,     \* threads the process can create and never join
  MallocMayFail,  \* whether malloc may return NULL
  PeersMayReset   \* whether a peer may reset its connection

ASSUME LengthsAssumption ==
  /\ PairsLen \in Nat \ {0} /\ ExitLen \in Nat \ {0}
  /\ Chunk \in Nat \ {0} /\ BufferLimit \in Nat
  /\ PairsLen < Chunk /\ ExitLen < Chunk
ASSUME RequestsAssumption == Requests \subseteq [kind : {"pairs", "exit", "other"}, len : Nat \ {0}]
ASSUME LimitsAssumption   == Backlog \in Nat \ {0} /\ MaxFds \in Nat \ {0} /\ MaxThreads \in Nat
ASSUME FaultsAssumption   == MallocMayFail \in BOOLEAN /\ PeersMayReset \in BOOLEAN

Errors == {"EINTR", "EINVAL", "EMFILE"}

ASSUME ClientsAssumption  == Clients \cap (Errors \cup {"none"}) = {}

VARIABLES
  status,    \* of the process: "up", "exit0", "exit1" or "killed"
  run,       \* run, cleared by whoever wants the server to stop
  sigterm,   \* whether SIGTERM has been delivered
  main,      \* where the main thread is
  listener,  \* the main socket: "closed", "listening" or "shut"
  newsock,   \* newsockfd: a client, an error, or "none" before the first accept
  queue,     \* connections waiting for accept
  conn,      \* each connection: "none", "queued", "refused", "open" or "closed"
  thread,    \* where each connection's thread is
  got,       \* bytes in each connection's buffer
  command,   \* what do_connect took the buffer for: "unread" before it looked
  peer,      \* each peer: "idle", "open", "fin" after its last byte, or "reset"
  req,       \* the request the peer means to send
  sent,      \* bytes the peer has sent
  reply      \* what was written to the peer: "none", "pairs" or "noresults"

mainVars   == <<main, listener, newsock, queue>>
threadVars == <<thread, got, command, reply>>
peerVars   == <<peer, req, sent>>
vars       == <<status, run, sigterm, mainVars, conn, threadVars, peerVars>>

(* The handler is installed and the vendors run; no socket exists yet. *)
Init ==
  /\ status = "up" /\ run = TRUE /\ sigterm = FALSE
  /\ main = "setup" /\ listener = "closed" /\ newsock = "none" /\ queue = <<>>
  /\ conn = [c \in Clients |-> "none"]
  /\ thread = [c \in Clients |-> "none"]
  /\ got = [c \in Clients |-> 0]
  /\ command = [c \in Clients |-> "unread"]
  /\ reply = [c \in Clients |-> "none"]
  /\ peer = [c \in Clients |-> "idle"]
  /\ req \in [Clients -> Requests]
  /\ sent = [c \in Clients |-> 0]

OpenFds   == {c \in Clients : conn[c] = "open"}
Spawned   == {c \in Clients : thread[c] # "none"}   \* never joined nor detached
Available(c) == sent[c] - got[c]

-----------------------------------------------------------------------------
(* The main thread: main_service_connections. *)

MainStep(from, to) == status = "up" /\ main = from /\ main' = to

Listen ==
  /\ MainStep("setup", "test")
  /\ listener' = "listening"
  /\ UNCHANGED <<status, run, sigterm, newsock, queue, conn, threadVars, peerVars>>

(* socket, setsockopt or bind failed: error() *)
SetupFails ==
  /\ status = "up" /\ main = "setup"
  /\ status' = "exit1"
  /\ UNCHANGED <<run, sigterm, mainVars, conn, threadVars, peerVars>>

(* Mutant: while (1), as if the accept alone could end the loop. *)
TestRunForever ==
  /\ MainStep("test", "enter")
  /\ UNCHANGED <<status, run, sigterm, listener, newsock, queue, conn, threadVars, peerVars>>

(* while (run) *)
TestRun ==
  /\ MainStep("test", IF run THEN "enter" ELSE "stop")
  /\ UNCHANGED <<status, run, sigterm, listener, newsock, queue, conn, threadVars, peerVars>>

(* accept: the descriptor is allocated before the call blocks. *)
EnterAccept ==
  /\ MainStep("enter", IF Cardinality(OpenFds) < MaxFds THEN "blocked" ELSE "check")
  /\ newsock' = IF Cardinality(OpenFds) < MaxFds THEN newsock ELSE "EMFILE"
  /\ UNCHANGED <<status, run, sigterm, listener, queue, conn, threadVars, peerVars>>

AcceptReturns ==
  /\ MainStep("blocked", "check")
  /\ \/ /\ queue # <<>>
        /\ newsock' = Head(queue)
        /\ queue' = Tail(queue)
        /\ conn' = [conn EXCEPT ![Head(queue)] = "open"]
     \/ /\ listener = "shut"
        /\ newsock' = "EINVAL"
        /\ UNCHANGED <<queue, conn>>
  /\ UNCHANGED <<status, run, sigterm, listener, threadVars, peerVars>>

(* Mutant: the error of accept is looked at before run. *)
CheckErrorFirst ==
  /\ status = "up" /\ main = "check"
  /\ IF newsock \in Errors
     THEN status' = "exit1" /\ UNCHANGED main
     ELSE main' = (IF run THEN "spawn" ELSE "test") /\ UNCHANGED status
  /\ UNCHANGED <<run, sigterm, listener, newsock, queue, conn, threadVars, peerVars>>

(* if (run): an error of accept ends the process, a connection gets a      *)
(* thread; if not, newsockfd is forgotten.                                 *)
CheckRun ==
  /\ status = "up" /\ main = "check"
  /\ IF run /\ newsock \in Errors
     THEN status' = "exit1" /\ UNCHANGED main
     ELSE main' = (IF run THEN "spawn" ELSE "test") /\ UNCHANGED status
  /\ UNCHANGED <<run, sigterm, listener, newsock, queue, conn, threadVars, peerVars>>

(* Mutant: the server goes on when a thread cannot be created. *)
SpawnOrDrop ==
  /\ MainStep("spawn", "test")
  /\ IF Cardinality(Spawned) < MaxThreads
     THEN thread' = [thread EXCEPT ![newsock] = "read"]
     ELSE UNCHANGED thread
  /\ UNCHANGED <<status, run, sigterm, listener, newsock, queue, conn, got, command, reply, peerVars>>

Spawn ==
  /\ MainStep("spawn", "test")
  /\ IF Cardinality(Spawned) < MaxThreads
     THEN thread' = [thread EXCEPT ![newsock] = "read"] /\ UNCHANGED run
     ELSE run' = FALSE /\ UNCHANGED thread
  /\ UNCHANGED <<status, sigterm, listener, newsock, queue, conn, got, command, reply, peerVars>>

(* No memory for the SocketDescriptors: main returns, freeing nothing. *)
SpawnNoMemory ==
  /\ status = "up" /\ main = "spawn" /\ MallocMayFail
  /\ status' = "exit0"
  /\ UNCHANGED <<run, sigterm, mainVars, conn, threadVars, peerVars>>

(* vendor_list_free(vendor_list, 1) is called ... *)
FreeVendors ==
  /\ MainStep("stop", "freeing")
  /\ UNCHANGED <<status, run, sigterm, listener, newsock, queue, conn, threadVars, peerVars>>

(* ... and returns. *)
VendorsFreed ==
  /\ MainStep("freeing", "closing")
  /\ UNCHANGED <<status, run, sigterm, listener, newsock, queue, conn, threadVars, peerVars>>

(* close(sockfd), and main returns: the process ends with all its threads. *)
Return ==
  /\ status = "up" /\ main = "closing"
  /\ listener' = "closed"
  /\ status' = "exit0"
  /\ UNCHANGED <<run, sigterm, main, newsock, queue, conn, threadVars, peerVars>>

(* terminate: the signal goes to the main thread, and ends its accept.  The *)
(* handler stays installed, so that a second signal does the same.         *)
Terminate ==
  /\ status = "up" /\ (~sigterm \/ main = "blocked")
  /\ sigterm' = TRUE
  /\ run' = FALSE
  /\ main' = IF main = "blocked" THEN "check" ELSE main
  /\ newsock' = IF main = "blocked" THEN "EINTR" ELSE newsock
  /\ UNCHANGED <<status, listener, queue, conn, threadVars, peerVars>>

-----------------------------------------------------------------------------
(* The thread of connection c: do_connect. *)

ThreadStep(c, from, to) ==
  status = "up" /\ thread[c] = from /\ thread' = [thread EXCEPT ![c] = to]

(* Mutants: while (n > 0), as a reader that waits for the end of the stream *)
(* would have it; and no limit.                                            *)
ReadsOnToTheEnd(n, length)   == n > 0 /\ length <= BufferLimit
ReadsOnUnlimited(n, length)  == n = Chunk

(* A short read ends the request, and so does a buffer beyond the limit.   *)
ReadsOn(n, length) == n = Chunk /\ length <= BufferLimit

(* One read, appended to the buffer. *)
Read(c) ==
  /\ Available(c) > 0
  /\ LET n == IF Available(c) < Chunk THEN Available(c) ELSE Chunk
     IN  /\ got' = [got EXCEPT ![c] = @ + n]
         /\ ThreadStep(c, "read",
                       IF ReadsOn(n, got[c] + n) THEN "read" ELSE "dispatch")
  /\ UNCHANGED <<status, run, sigterm, mainVars, conn, command, reply, peerVars>>

(* read returns 0, or buffer_append finds no memory for what was read: its  *)
(* -1 becomes buffer_length, which nobody reads again, and the buffer keeps *)
(* what it had.                                                             *)
ReadNothing(c) ==
  /\ ThreadStep(c, "read", "dispatch")
  /\ \/ Available(c) = 0 /\ peer[c] = "fin"
     \/ Available(c) > 0 /\ MallocMayFail
  /\ UNCHANGED <<status, run, sigterm, mainVars, conn, got, command, reply, peerVars>>

(* read returns -1 (what came before the reset may be read first), which   *)
(* buffer_append takes for a length.  It copies that many bytes and the    *)
(* process is killed; or malloc, asked for as many bytes as the buffer has, *)
(* returns NULL, and the loop ends as in ReadNothing.  n < 0 is never true *)
(* of a size_t.                                                             *)
ReadError(c) ==
  /\ status = "up" /\ thread[c] = "read" /\ peer[c] = "reset"
  /\ \/ status' = "killed" /\ UNCHANGED thread
     \/ /\ MallocMayFail
        /\ thread' = [thread EXCEPT ![c] = "dispatch"]
        /\ UNCHANGED status
  /\ UNCHANGED <<run, sigterm, mainVars, conn, got, command, reply, peerVars>>

(* Mutant: only as much of the command is compared as was read. *)
RecognisedByPrefix(c) ==
  IF got[c] = 0 THEN {"exit", "pairs", "none"}
  ELSE IF req[c].kind = "other" THEN {"none"} ELSE {req[c].kind}

(* What the buffer may be taken for: with nothing read it is uninitialised. *)
Recognised(c) ==
  IF got[c] = 0 THEN {"exit", "pairs", "none"}
  ELSE IF req[c].kind = "exit"  /\ got[c] >= ExitLen  THEN {"exit"}
  ELSE IF req[c].kind = "pairs" /\ got[c] >= PairsLen THEN {"pairs"}
  ELSE {"none"}

(* Mutant: whatever is not trading_pairs stops the server. *)
DispatchOrStop(c) ==
  /\ \E k \in Recognised(c) :
       /\ command' = [command EXCEPT ![c] = k]
       /\ run' = (run /\ k = "pairs")
       /\ ThreadStep(c, "dispatch", CASE k = "exit"  -> "wake"
                                      [] k = "pairs" -> "query"
                                      [] k = "none"  -> "cleanup")
  /\ UNCHANGED <<status, sigterm, mainVars, conn, got, reply, peerVars>>

(* strncmp with EXIT, which clears run at once, and then getCommand. *)
Dispatch(c) ==
  /\ \E k \in Recognised(c) :
       /\ command' = [command EXCEPT ![c] = k]
       /\ run' = (run /\ k # "exit")
       /\ ThreadStep(c, "dispatch", CASE k = "exit"  -> "wake"
                                      [] k = "pairs" -> "query"
                                      [] k = "none"  -> "cleanup")
  /\ UNCHANGED <<status, sigterm, mainVars, conn, got, reply, peerVars>>

(* Mutant: EXIT only clears run. *)
WakeNobody(c) ==
  /\ ThreadStep(c, "wake", "cleanup")
  /\ UNCHANGED <<status, run, sigterm, mainVars, conn, got, command, reply, peerVars>>

(* shutdown(main_socket): it listens no more, and drops what it has queued. *)
WakeMain(c) ==
  /\ ThreadStep(c, "wake", "cleanup")
  /\ listener' = IF listener = "listening" THEN "shut" ELSE listener
  /\ queue' = <<>>
  /\ conn' = [d \in Clients |-> IF conn[d] = "queued" THEN "refused" ELSE conn[d]]
  /\ UNCHANGED <<status, run, sigterm, main, newsock, got, command, reply, peerVars>>

(* get_trading_pairs returns an encoded list, or nothing. *)
EndQuery(c) ==
  /\ \E next \in {"writePairs", "writeNone"} : ThreadStep(c, "query", next)
  /\ UNCHANGED <<status, run, sigterm, mainVars, conn, got, command, reply, peerVars>>

(* The query reads vendors that the main thread is freeing: anything may    *)
(* happen to it, and a crash of it is one of the process.                   *)
QueryCrashes(c) ==
  /\ status = "up" /\ thread[c] = "query" /\ main \in {"freeing", "closing"}
  /\ status' = "killed"
  /\ UNCHANGED <<run, sigterm, mainVars, conn, threadVars, peerVars>>

Write(c) ==
  /\ \/ ThreadStep(c, "writePairs", "cleanup") /\ reply' = [reply EXCEPT ![c] = "pairs"]
     \/ ThreadStep(c, "writeNone", "cleanup")  /\ reply' = [reply EXCEPT ![c] = "noresults"]
  /\ peer[c] # "reset"
  /\ UNCHANGED <<status, run, sigterm, mainVars, conn, got, command, peerVars>>

(* write to a connection that was reset: an error, which n < 0 never       *)
(* notices, or SIGPIPE, which nobody handles.                              *)
WriteError(c) ==
  /\ status = "up" /\ thread[c] \in {"writePairs", "writeNone"} /\ peer[c] = "reset"
  /\ \/ thread' = [thread EXCEPT ![c] = "cleanup"] /\ UNCHANGED status
     \/ status' = "killed" /\ UNCHANGED thread
  /\ UNCHANGED <<run, sigterm, mainVars, conn, got, command, reply, peerVars>>

(* free, close, return; nobody will join the thread. *)
Cleanup(c) ==
  /\ ThreadStep(c, "cleanup", "done")
  /\ conn' = [conn EXCEPT ![c] = "closed"]
  /\ UNCHANGED <<status, run, sigterm, mainVars, got, command, reply, peerVars>>

-----------------------------------------------------------------------------
(* The peers and the network. *)

Connect(c) ==
  /\ status = "up" /\ listener = "listening" /\ Len(queue) < Backlog
  /\ peer[c] = "idle"
  /\ peer' = [peer EXCEPT ![c] = "open"]
  /\ conn' = [conn EXCEPT ![c] = "queued"]
  /\ queue' = Append(queue, c)
  /\ UNCHANGED <<status, run, sigterm, main, listener, newsock, threadVars, req, sent>>

(* Any part of the rest of the request arrives: TCP keeps no boundaries.   *)
Send(c) ==
  /\ status = "up" /\ peer[c] = "open" /\ conn[c] \in {"queued", "open"}
  /\ \E m \in sent[c] + 1 .. req[c].len : sent' = [sent EXCEPT ![c] = m]
  /\ UNCHANGED <<status, run, sigterm, mainVars, conn, threadVars, peer, req>>

(* The peer sends no more, its request complete or not. *)
Fin(c) ==
  /\ status = "up" /\ peer[c] = "open" /\ conn[c] \in {"queued", "open"}
  /\ peer' = [peer EXCEPT ![c] = "fin"]
  /\ UNCHANGED <<status, run, sigterm, mainVars, conn, threadVars, req, sent>>

Reset(c) ==
  /\ PeersMayReset
  /\ status = "up" /\ peer[c] \in {"open", "fin"} /\ conn[c] \in {"queued", "open"}
  /\ peer' = [peer EXCEPT ![c] = "reset"]
  /\ UNCHANGED <<status, run, sigterm, mainVars, conn, threadVars, req, sent>>

MainThread ==
  \/ Listen \/ SetupFails \/ TestRun \/ EnterAccept \/ AcceptReturns \/ CheckRun
  \/ Spawn \/ SpawnNoMemory \/ FreeVendors \/ VendorsFreed \/ Return

Connection(c) ==
  \/ Read(c) \/ ReadNothing(c) \/ ReadError(c) \/ Dispatch(c) \/ WakeMain(c)
  \/ EndQuery(c) \/ QueryCrashes(c) \/ Write(c) \/ WriteError(c) \/ Cleanup(c)

Peer(c) == Connect(c) \/ Send(c) \/ Fin(c) \/ Reset(c)

Next ==
  \/ MainThread
  \/ Terminate
  \/ \E c \in Clients : Connection(c) \/ Peer(c)

(* The threads of the process run; the peers and the signal owe nothing.   *)
Fairness ==
  /\ WF_vars(MainThread)
  /\ \A c \in Clients : WF_vars(Connection(c))

Spec == Init /\ [][Next]_vars /\ Fairness

-----------------------------------------------------------------------------
(* Properties. *)

(* Every variable stays within its type; in particular no buffer grows      *)
(* beyond the limit and one chunk, however much a peer sends.               *)
TypeOK ==
  /\ status \in {"up", "exit0", "exit1", "killed"}
  /\ run \in BOOLEAN /\ sigterm \in BOOLEAN
  /\ main \in {"setup", "test", "enter", "blocked", "check", "spawn", "stop", "freeing", "closing"}
  /\ listener \in {"closed", "listening", "shut"}
  /\ newsock \in Clients \cup Errors \cup {"none"}
  /\ queue \in Seq(Clients)
  /\ conn \in [Clients -> {"none", "queued", "refused", "open", "closed"}]
  /\ thread \in [Clients -> {"none", "read", "dispatch", "wake", "query",
                             "writePairs", "writeNone", "cleanup", "done"}]
  /\ got \in [Clients -> 0 .. BufferLimit + Chunk]
  /\ command \in [Clients -> {"unread", "exit", "pairs", "none"}]
  /\ reply \in [Clients -> {"none", "pairs", "noresults"}]
  /\ peer \in [Clients -> {"idle", "open", "fin", "reset"}]
  /\ req \in [Clients -> Requests]
  /\ sent \in [Clients -> Nat]

(* While run is set, no descriptor leaks: a connection that was accepted is *)
(* in the hands of the main thread, which is about to give it a thread, or  *)
(* of a thread that will close it.                                          *)
SocketsOwned ==
  run => \A c \in OpenFds :
           \/ thread[c] \notin {"none", "done"}
           \/ newsock = c /\ main \in {"check", "spawn"}

(* The server stops for a reason only: SIGTERM, an EXIT command, or a       *)
(* connection left without a thread when every thread the process can have  *)
(* was made already, and never joined.                                      *)
StopsForAReason ==
  ~run => \/ sigterm
          \/ \E c \in Clients : command[c] = "exit"
          \/ /\ newsock \in Clients /\ thread[newsock] = "none"
             /\ Cardinality(Spawned) = MaxThreads

(* Neither SIGTERM nor EXIT, which wake the main thread by making accept    *)
(* fail, is taken for an error of accept: once the server listens, it ends  *)
(* with exit(1) only when its descriptors have run out.                     *)
OnlyExhaustionAborts ==
  status = "exit1" /\ listener # "closed" => newsock = "EMFILE"

(* Server and peer wait for each other only at a chunk boundary: when the   *)
(* peer has sent its request and waits for the answer, a thread that still  *)
(* waits for more has read a whole number of chunks, and no more than the   *)
(* limit.                                                                   *)
WaitsAtChunkBoundary ==
  \A c \in Clients :
    thread[c] = "read" /\ got[c] > 0 => got[c] % Chunk = 0 /\ got[c] <= BufferLimit

(* Nobody is answered who did not ask, also when the request came in       *)
(* pieces or was cut: an answer follows a buffer that begins with           *)
(* trading_pairs, or an empty one, whose content is undefined.              *)
AnswersAQuestion ==
  \A c \in Clients :
    thread[c] \in {"query", "writePairs", "writeNone"} \/ reply[c] # "none" =>
      got[c] = 0 \/ (req[c].kind = "pairs" /\ got[c] >= PairsLen)

(***************************************************************************)
(* Why: the strengthening that makes the properties above inductive.       *)
(***************************************************************************)

(* A connection that waits for accept waits once, and a peer that has not  *)
(* connected has none.                                                      *)
Queued ==
  /\ \A i \in DOMAIN queue : conn[queue[i]] = "queued"
  /\ \A i, j \in DOMAIN queue : queue[i] = queue[j] => i = j
  /\ \A c \in Clients : peer[c] = "idle" => conn[c] = "none"

(* A thread has an accepted connection, starts with an empty buffer, looks  *)
(* at the command once and answers at the end only.                         *)
Threads ==
  \A c \in Clients :
    /\ thread[c] = "none" => got[c] = 0
    /\ thread[c] # "none" => conn[c] \in {"open", "closed"}
    /\ thread[c] \in {"none", "read", "dispatch"} => command[c] = "unread"
    /\ reply[c] # "none" => thread[c] \in {"cleanup", "done"}
    /\ thread[c] = "wake" => ~run

(* What accept returned is a connection without a thread, or the error of a *)
(* descriptor limit, or an error that came after run was cleared; only a    *)
(* server that stops has shut its listener.                                 *)
Accepted ==
  /\ main \in {"check", "spawn"} /\ newsock \in Clients =>
       thread[newsock] = "none" /\ conn[newsock] = "open"
  /\ main = "check" => newsock # "none"
  /\ main = "check" /\ newsock \in {"EINTR", "EINVAL"} => ~run
  /\ main = "spawn" => newsock \in Clients
  /\ main = "setup" => listener = "closed"
  /\ listener = "shut" => ~run

ThreadsCounted == IsFiniteSet(Spawned) /\ Cardinality(Spawned) <= MaxThreads

(* When the main thread itself has stopped the server, for want of a       *)
(* thread, it never comes to accept again.                                  *)
StoppedForGood ==
  \/ run \/ sigterm \/ \E c \in Clients : command[c] = "exit"
  \/ /\ main \in {"test", "stop", "freeing", "closing"}
     /\ newsock \in Clients /\ thread[newsock] = "none"
     /\ Cardinality(Spawned) = MaxThreads

IndInv ==
  /\ TypeOK /\ Queued /\ Threads /\ Accepted /\ ThreadsCounted /\ StoppedForGood
  /\ SocketsOwned /\ OnlyExhaustionAborts /\ WaitsAtChunkBoundary /\ AnswersAQuestion

(* After an EXIT command the process ends, whatever the main thread was     *)
(* doing: the shutdown of the main socket is not lost between the test of   *)
(* run and the accept.                                                      *)
ExitStops == (\E c \in Clients : command[c] = "exit") ~> status # "up"

(* "Handle SIGTERM gracefully": after SIGTERM the process ends.             *)
SigtermStops == sigterm ~> status # "up"

(* What SIGTERM does achieve: one more connection, made before or after it, *)
(* ends the process, if it has not ended already.                           *)
SigtermEndsWithAConnection == (sigterm /\ queue # <<>>) ~> status # "up"

(* A trading_pairs request that arrives before the server reads, and does   *)
(* not fill its last chunk, is answered unless the server stops.            *)
WholeRequest(c) ==
  /\ conn[c] \in {"queued", "open"} /\ thread[c] \in {"none", "read"}
  /\ req[c].kind = "pairs" /\ req[c].len >= PairsLen /\ req[c].len % Chunk # 0
  /\ sent[c] = req[c].len /\ got[c] = 0

WholeRequestAnswered ==
  \A c \in Clients : WholeRequest(c) ~> (reply[c] # "none" \/ ~run \/ status # "up")
=============================================================================
