-------------------------- MODULE WebSocketClient ---------------------------
(***************************************************************************)
(* The life of one client of utils/websocket.c: websocket_connect, with    *)
(* the HTTP handshake, the calls of WebSocket, and websocket_client_free.  *)
(*                                                                         *)
(* What the server answers to the upgrade request is a sequence of units:  *)
(* "nl" is the end of a line, so that two in a row end the header; "right" *)
(* and "wrong" are Sec-WebSocket-Accept lines, "line" is any other; behind *)
(* the header a "frame" is a notice that the server sends at once.         *)
(* Undefined behaviour (a write beyond buf, a read beyond body, the use of *)
(* freed memory or of a thread that never was) sets fault and is the end.  *)
(***************************************************************************)
EXTENDS WebSocket

CONSTANTS
  Responses,   \* what the server may answer
  BufSize,     \* sizeof buf, in units
  HeaderSize   \* the 8192 of resheader, in units

ASSUME HandshakeAssumption ==
  /\ BufSize \in Nat \ {0} /\ HeaderSize \in Nat \ {0}
  /\ Responses \subseteq Seq({"nl", "right", "wrong", "line", "frame"})
ASSUME NoticesAssumption ==        \* behind the header the server sends notices
  \A r \in Responses : \A i \in 2 .. Len(r) :
    r[i - 1] = "nl" /\ r[i] = "nl" =>
      Len(r) - i <= NumNotices /\ \A j \in i + 1 .. Len(r) : r[j] = "frame"

VARIABLES
  conn,      \* how far websocket_connect or websocket_client_free is
  response,  \* what the server answers
  seen,      \* how much of it is in resheader
  fdOpen,    \* whether the socket is open
  fault,     \* whether the behaviour is undefined
  svcAt      \* what the service thread was doing when it was cancelled

connVars   == <<conn, response, seen, fdOpen, fault, svcAt>>
clientVars == <<vars, connVars>>

ClientInit ==
  /\ Init
  /\ conn = "dial" /\ response \in Responses /\ seen = 0
  /\ fdOpen = FALSE /\ fault = FALSE /\ svcAt = "none"

ConnStep(from, to) == ~fault /\ conn = from /\ conn' = to

(* An empty line ends the header; it is among the first n units. *)
EndsAt(i)   == i > 1 /\ response[i - 1] = "nl" /\ response[i] = "nl"
HeaderIn(n) == \E i \in 1 .. n : EndsAt(i)

(* strstr for the key: the first Sec-WebSocket-Accept line decides. *)
AcceptsKey ==
  \E i \in 1 .. seen :
    /\ response[i] = "right"
    /\ \A j \in 1 .. i - 1 : response[j] \notin {"right", "wrong"}
    /\ \E j \in i + 1 .. seen : response[j] = "nl"

-----------------------------------------------------------------------------
(* websocket_connect. *)

(* connect_to tries one address after the other, and closes what failed. *)
ConnectTo ==
  /\ \/ ConnStep("dial", "failed") /\ UNCHANGED fdOpen
     \/ ConnStep("dial", "request") /\ fdOpen' = TRUE
  /\ UNCHANGED <<vars, response, seen, fault, svcAt>>

(* "Failed handshake" *)
HandshakeFails(from) == ConnStep(from, "failed") /\ fdOpen' = FALSE

SendHandshake ==
  /\ \/ HandshakeFails("request")
     \/ ConnStep("request", "header") /\ UNCHANGED fdOpen
  /\ UNCHANGED <<vars, response, seen, fault, svcAt>>

(* recv_http_handshake: a read brings any part of what is left; one that    *)
(* fills buf lets buf[r] = 0 write beyond it.                               *)
RecvHandshake ==
  /\ \/ HandshakeFails("header") /\ UNCHANGED <<seen, fault>>
     \/ \E r \in 1 .. Len(response) - seen :
          \/ /\ r = BufSize
             /\ ConnStep("header", "header") /\ fault' = TRUE
             /\ UNCHANGED <<seen, fdOpen>>
          \/ /\ r < BufSize /\ seen + r + 1 > HeaderSize
             /\ HandshakeFails("header") /\ UNCHANGED <<seen, fault>>
          \/ /\ r < BufSize /\ seen + r + 1 <= HeaderSize
             /\ seen' = seen + r
             /\ ConnStep("header", IF HeaderIn(seen + r) THEN "key" ELSE "header")
             /\ UNCHANGED <<fdOpen, fault>>
  /\ UNCHANGED <<vars, response, svcAt>>

(* http_handshake compares the key. *)
CheckKey ==
  /\ \/ ~AcceptsKey /\ HandshakeFails("key")
     \/ AcceptsKey /\ ConnStep("key", "new") /\ UNCHANGED fdOpen
  /\ UNCHANGED <<vars, response, seen, fault, svcAt>>

(* What the server has sent behind the header, and the client not read. *)
Waits == [i \in 1 .. Len(response) - seen |-> NumCalls + i]

(* Mutant: what came with the header is dropped. *)
ClientNewDropsBody ==
  /\ ConnStep("new", "create")
  /\ notices' = Len(Waits)
  /\ \E n \in [1 .. Len(Waits) -> Lengths] :
       inbound' = [i \in 1 .. Len(Waits) |-> [id |-> Waits[i], len |-> n[i]]]
  /\ UNCHANGED <<bufVars, queued, requests, svcVars, appVars,
                 response, seen, fdOpen, fault, svcAt>>

(* setsockopt fails, and the socket is left open; or a body that came with  *)
(* the header is fed to wslay: websocket_client_feed_body limits len but    *)
(* copies wlen bytes, and reads beyond it.  An empty body is no news.       *)
ClientNew ==
  /\ \/ ConnStep("new", "failed") /\ UNCHANGED <<netVars, fault>>
     \/ /\ HeaderIn(seen - 1)
        /\ ConnStep("new", "new") /\ fault' = TRUE /\ UNCHANGED netVars
     \/ /\ ~HeaderIn(seen - 1)
        /\ ConnStep("new", "create")
        /\ notices' = Len(Waits)
        /\ \E n \in [1 .. Len(Waits) -> Lengths] :
             inbound' = [i \in 1 .. Len(Waits) |-> [id |-> Waits[i], len |-> n[i]]]
        /\ UNCHANGED <<queued, requests, fault>>
  /\ UNCHANGED <<bufVars, svcVars, appVars, response, seen, fdOpen, svcAt>>

(* When there is no thread, websocket_client_free cancels one all the same. *)
CreateThread ==
  /\ \/ ConnStep("create", "up") /\ UNCHANGED fault
     \/ ConnStep("create", "create") /\ fault' = TRUE
  /\ UNCHANGED <<vars, response, seen, fdOpen, svcAt>>

-----------------------------------------------------------------------------
(* The calls, and websocket_client_free. *)

Up == conn = "up" /\ ~fault /\ Next /\ UNCHANGED connVars

(* Mutant: the memory goes first. *)
FreeContextFirst ==
  /\ app = "idle" /\ ConnStep("up", "freed")
  /\ UNCHANGED <<vars, response, seen, fdOpen, fault, svcAt>>

(* pthread_cancel: a thread that waits in a system call ends there. *)
FreeCancel ==
  /\ app = "idle" /\ ConnStep("up", "cancelled")
  /\ svcAt' = IF svc \in Waiting \cup {"dead"} THEN "waiting" ELSE "working"
  /\ svc' = IF svc \in Waiting THEN "dead" ELSE svc
  /\ UNCHANGED <<bufVars, netVars, msg, sreg, appVars, response, seen, fdOpen, fault>>

Dies == svcAt # "none" /\ svc \in Waiting

(* Any other goes on to the next one. *)
SvcDoomed ==
  /\ ~fault /\ conn = "cancelled" /\ ~Dies
  /\ Service
  /\ UNCHANGED connVars

SvcCancelled ==
  /\ ~fault /\ Dies /\ svc' = "dead"
  /\ UNCHANGED <<bufVars, netVars, msg, sreg, appVars, connVars>>

(* wslay_event_context_free, shutdown, close of dev_urand, free.  The       *)
(* thread is not joined, and the socket itself is not closed.               *)
FreeContext ==
  /\ ConnStep("cancelled", "freed")
  /\ recvBuf' = [i \in DOMAIN recvBuf |-> None] /\ recvSize' = 0 /\ queued' = <<>>
  /\ UNCHANGED <<requests, inbound, notices, svcVars, appVars,
                 response, seen, fdOpen, fault, svcAt>>

(* Whatever a thread does between two system calls, it does with ctx or ws. *)
SvcUsesFreed ==
  /\ ~fault /\ conn = "freed" /\ svc # "dead" /\ ~Dies
  /\ fault' = TRUE
  /\ UNCHANGED <<vars, conn, response, seen, fdOpen, svcAt>>

Connect == ConnectTo \/ SendHandshake \/ RecvHandshake \/ CheckKey \/ ClientNew \/ CreateThread

ClientNext ==
  \/ Connect \/ Up \/ FreeCancel \/ SvcDoomed \/ SvcCancelled \/ FreeContext \/ SvcUsesFreed

(* The fairness of WebSocket while the connection is up; the user may keep  *)
(* it up for ever.                                                          *)
WhileUp(A) == conn = "up" /\ ~fault /\ A /\ UNCHANGED connVars

ClientFairness ==
  /\ WF_clientVars(WhileUp(SvcMove)) /\ WF_clientVars(WhileUp(Application))
  /\ WF_clientVars(WhileUp(Reply))
  /\ SF_clientVars(WhileUp(TimeOut /\ Stuck))

ClientSpec == ClientInit /\ [][ClientNext]_clientVars /\ ClientFairness

-----------------------------------------------------------------------------
(* Properties. *)

(* Every variable stays within its type; see TypeOK for the buffer. *)
ClientTypeOK ==
  /\ TypeOK
  /\ conn \in {"dial", "request", "header", "key", "new", "create", "up",
               "cancelled", "freed", "failed"}
  /\ response \in Responses /\ seen \in 0 .. Len(response)
  /\ seen < HeaderSize
  /\ fdOpen \in BOOLEAN /\ fault \in BOOLEAN
  /\ svcAt \in {"none", "waiting", "working"}

(* Whatever pieces the reads of the handshake bring, the connection comes   *)
(* up only with a server that knows the key and with a socket that has      *)
(* delivered the header and nothing else: no part of the header is taken    *)
(* for a message, and no message that followed at once is lost.  One that   *)
(* is refused leaves no socket open, unless setsockopt refused it.          *)
UpgradesCleanly ==
  /\ conn \in {"create", "up", "cancelled", "freed"} =>
       /\ EndsAt(seen) /\ ~HeaderIn(seen - 1)
       /\ \E i \in 1 .. seen : response[i] = "right"
                             /\ \A j \in 1 .. i : response[j] # "wrong"
  /\ conn = "failed" /\ fdOpen => \E i \in 1 .. seen : response[i] = "right"

(* Undefined behaviour comes from four places only: a read that fills buf,  *)
(* a message that arrives together with the header, a service thread that   *)
(* could not be created, and a websocket_client_free that finds the thread  *)
(* at work.  So it is safe to free a client whose thread waits in epoll, in *)
(* recv, in send or for room in the buffer, or has ended by itself.         *)
ClientFaultsKnown ==
  fault =>
    \/ conn = "header" /\ Len(response) - seen >= BufSize
    \/ conn = "new" /\ \E i \in 1 .. seen : response[i] = "frame"
    \/ conn = "create"
    \/ conn = "freed" /\ svcAt = "working"

(***************************************************************************)
(* Why: what is inductive about one client.                                *)
(***************************************************************************)

(* Which steps have been taken is written in what they left behind. *)
Connected ==
  /\ conn \in {"key", "new"} => HeaderIn(seen)
  /\ conn = "new" => AcceptsKey
  /\ conn = "dial" => ~fdOpen
  /\ conn \in {"dial", "request", "header", "key", "new"} =>
       notices = 0 /\ inbound = <<>>
  /\ conn \notin {"up", "cancelled", "freed"} => call = 0 /\ app = "idle" /\ svc = "loop"
  /\ conn \in {"cancelled", "freed"} <=> svcAt # "none"
  /\ conn \in {"cancelled", "freed"} => app = "idle"
  /\ svcAt = "waiting" => svc = "dead"

(* The memory of the buffer is given back at the end, and a thread that is  *)
(* cancelled drops what it was doing.                                       *)
IndInv ==
  /\ ClientTypeOK /\ Connected /\ UpgradesCleanly /\ ClientFaultsKnown
  /\ Sizes /\ Received /\ (conn # "freed" => Copied)
  /\ Answers /\ (conn \notin {"cancelled", "freed"} => CalmCall)
=============================================================================
