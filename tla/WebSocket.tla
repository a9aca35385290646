------------------------------ MODULE WebSocket ------------------------------
(***************************************************************************)
(* The websocket client of utils/websocket.c.  A service thread runs the   *)
(* event loop: it sends the requests queued in the wslay context and       *)
(* appends each message that arrives to recv_buf.  The application thread  *)
(* makes calls: it queues a request and polls recv_buf for whatever is     *)
(* there.  recv_buf and recv_size are shared with no lock; each load and   *)
(* each store of recv_size is a step, and so is each memcpy.               *)
(*                                                                         *)
(* A byte is <<m, i>>: the i-th byte of message m.  Message k answers call *)
(* k, and the messages after NumCalls are notices nobody asked for.  wslay *)
(* and the server are the environment: messages are neither lost nor       *)
(* reordered on the way, but the connection may end (MayEnd).              *)
(***************************************************************************)
EXTENDS Naturals, Sequences

CONSTANTS
  Capacity,    \* sizeof recv_buf
  DataSize,    \* the size - 1 that websocket_call offers to websocket_recv
  NumCalls,    \* calls the application makes, one after the other
  NumNotices,  \* messages the server may send unasked
  Lengths,     \* lengths a message may have
  MayTimeOut,  \* whether a call may reach its timeout
  MayEnd       \* whether the connection may end, and the service thread with it

ASSUME SizesAssumption   == Capacity \in Nat /\ DataSize \in Nat \ {0}
ASSUME CountsAssumption  == NumCalls \in Nat /\ NumNotices \in Nat
ASSUME LengthsAssumption == Lengths \subseteq Nat \ {0}
ASSUME TimeAssumption    == MayTimeOut \in BOOLEAN
ASSUME EndAssumption     == MayEnd \in BOOLEAN

Messages == 1 .. NumCalls + NumNotices
None     == <<0, 0>>                     \* content of a byte never written
Bytes(m, len) == [i \in 1 .. len |-> <<m, i>>]

VARIABLES
  recvBuf,   \* recv_buf, by offset
  recvSize,  \* recv_size
  queued,    \* requests in the wslay context, not sent yet
  requests,  \* requests at the server, not answered yet
  inbound,   \* messages on their way to the client: records [id, len]
  notices,   \* how many notices the server has sent
  svc,       \* where the service thread is
  msg,       \* arg: the message it is handling
  sreg,      \* the recv_size it has loaded to add to
  app,       \* where the application thread is
  call,      \* the call it is making, or has made last
  len,       \* len of websocket_recv
  areg,      \* the recv_size it has loaded to subtract from
  data,      \* the bytes copied out for the application
  answer,    \* the bytes each call returned
  calm       \* the calls that were made when nothing was under way, and that
             \* no notice has disturbed so far (for AnswersItsCall)

bufVars == <<recvBuf, recvSize>>
netVars == <<queued, requests, inbound, notices>>
svcVars == <<svc, msg, sreg>>
appVars == <<app, call, len, areg, data, answer, calm>>
vars    == <<bufVars, netVars, svcVars, appVars>>

NoMessage == [id |-> 0, len |-> 0]

(* websocket_connect has returned. *)
Init ==
  /\ recvBuf = [i \in 0 .. Capacity - 1 |-> None]
  /\ recvSize = 0
  /\ queued = <<>> /\ requests = <<>> /\ inbound = <<>> /\ notices = 0
  /\ svc = "loop" /\ msg = NoMessage /\ sreg = 0
  /\ app = "idle" /\ call = 0 /\ len = 0 /\ areg = 0 /\ data = <<>>
  /\ answer = [k \in 1 .. NumCalls |-> <<>>] /\ calm = {}

-----------------------------------------------------------------------------
(* The service thread: websockets_thread and on_msg_recv_callback.  A      *)
(* thread may be cancelled where it waits in a system call.                *)

SvcStep(from, to) == svc = from /\ svc' = to
Waiting == {"epoll", "recv", "send", "sleep"}

(* The top of the loop: want_read and want_write, and ctl_epollev. *)
SvcLoop ==
  /\ SvcStep("loop", "epoll")
  /\ UNCHANGED <<bufVars, netVars, msg, sreg, appVars>>

(* epoll_wait returns: with something to read, or to write, or after 100 ms. *)
SvcWake ==
  /\ \/ inbound # <<>> /\ SvcStep("epoll", "recv")
     \/ queued # <<>> /\ SvcStep("epoll", "send")
     \/ inbound = <<>> /\ queued = <<>> /\ SvcStep("epoll", "loop")
  /\ UNCHANGED <<bufVars, netVars, msg, sreg, appVars>>

(* wslay_event_send: one request after the other. *)
SvcSend ==
  /\ svc = "send" /\ queued # <<>>
  /\ requests' = Append(requests, Head(queued))
  /\ queued' = Tail(queued)
  /\ svc' = IF Len(queued) > 1 THEN "send" ELSE "loop"
  /\ UNCHANGED <<bufVars, inbound, notices, msg, sreg, appVars>>

(* wslay_event_recv: a recv may have brought several messages. *)
SvcRecv ==
  /\ svc \in {"recv", "next"} /\ svc' = "wait"
  /\ inbound # <<>>
  /\ msg' = Head(inbound)
  /\ inbound' = Tail(inbound)
  /\ UNCHANGED <<bufVars, queued, requests, notices, sreg, appVars>>

SvcRecvAgain ==
  /\ SvcStep("next", "recv")
  /\ UNCHANGED <<bufVars, netVars, msg, sreg, appVars>>

(* EAGAIN; the event may have been one to write as well. *)
SvcDrained ==
  /\ inbound = <<>>
  /\ \/ SvcStep("recv", "loop")
     \/ queued # <<>> /\ SvcStep("recv", "send")
  /\ UNCHANGED <<bufVars, netVars, msg, sreg, appVars>>

(* recv, send or epoll_wait fails, or the server has closed: the thread     *)
(* returns, and nobody is told.                                             *)
SvcEnd ==
  /\ MayEnd
  /\ svc \in {"epoll", "send"} \/ (svc = "recv" /\ inbound = <<>>)
  /\ svc' = "dead"
  /\ UNCHANGED <<bufVars, netVars, msg, sreg, appVars>>

(* Mutant: the room left is computed one byte too large. *)
SvcFitsOneMore ==
  /\ SvcStep("wait", "copy")
  /\ Capacity - recvSize + 1 >= msg.len
  /\ UNCHANGED <<bufVars, netVars, msg, sreg, appVars>>

(* for (;;): a message that does not fit waits ... *)
SvcFits ==
  /\ SvcStep("wait", "copy")
  /\ Capacity - recvSize >= msg.len
  /\ UNCHANGED <<bufVars, netVars, msg, sreg, appVars>>

(* ... a second at a time. *)
SvcSleep ==
  /\ Capacity - recvSize < msg.len
  /\ SvcStep("wait", "sleep")
  /\ UNCHANGED <<bufVars, netVars, msg, sreg, appVars>>

SvcAwake ==
  /\ SvcStep("sleep", "wait")
  /\ UNCHANGED <<bufVars, netVars, msg, sreg, appVars>>

(* Mutant: the message is put one byte after the end of what is there. *)
SvcCopyAfterGap ==
  /\ SvcStep("copy", "load")
  /\ recvBuf' = [i \in DOMAIN recvBuf |->
                   IF i \in recvSize + 1 .. recvSize + msg.len
                   THEN <<msg.id, i - recvSize>> ELSE recvBuf[i]]
  /\ UNCHANGED <<recvSize, netVars, msg, sreg, appVars>>

(* memcpy to recv_buf + recv_size *)
SvcCopy ==
  /\ SvcStep("copy", "load")
  /\ recvBuf' = [i \in DOMAIN recvBuf |->
                   IF i \in recvSize .. recvSize + msg.len - 1
                   THEN <<msg.id, i - recvSize + 1>> ELSE recvBuf[i]]
  /\ UNCHANGED <<recvSize, netVars, msg, sreg, appVars>>

(* recv_size += msg_length: a load ... *)
SvcLoad ==
  /\ SvcStep("load", "store")
  /\ sreg' = recvSize
  /\ UNCHANGED <<bufVars, netVars, msg, appVars>>

(* ... and a store. *)
SvcStore ==
  /\ SvcStep("store", "next")
  /\ recvSize' = sreg + msg.len
  /\ sreg' = 0 /\ msg' = NoMessage
  /\ UNCHANGED <<recvBuf, netVars, appVars>>

-----------------------------------------------------------------------------
(* The application thread: websocket_call and websocket_recv. *)

AppStep(from, to) == app = from /\ app' = to

(* Nothing is under way: no request, no message, and no byte in the buffer, *)
(* or the last call was itself such a call and got less than it offered.    *)
Quiet ==
  /\ queued = <<>> /\ requests = <<>> /\ inbound = <<>>
  /\ svc \in {"loop", "epoll", "recv", "next", "dead"}
  /\ recvSize = 0 \/ (call \in calm /\ Len(answer[call]) \in 1 .. DataSize - 1)

Call ==
  /\ AppStep("idle", "size")
  /\ call < NumCalls
  /\ call' = call + 1
  /\ calm' = IF Quiet THEN calm \cup {call + 1} ELSE calm
  /\ queued' = Append(queued, call + 1)
  /\ UNCHANGED <<bufVars, requests, inbound, notices, svcVars, len, areg, data, answer>>

(* Mutant: the comparison is with 1. *)
RecvSizeAboveOne ==
  /\ AppStep("size", IF recvSize > 1 THEN "copy" ELSE "poll")
  /\ len' = recvSize
  /\ UNCHANGED <<bufVars, netVars, svcVars, call, areg, data, answer, calm>>

(* int len = ws->recv_size *)
RecvSize ==
  /\ AppStep("size", IF recvSize > 0 THEN "copy" ELSE "poll")
  /\ len' = recvSize
  /\ UNCHANGED <<bufVars, netVars, svcVars, call, areg, data, answer, calm>>

(* Nothing was there: sleep and look again ... *)
Poll ==
  /\ AppStep("poll", "size")
  /\ UNCHANGED <<bufVars, netVars, svcVars, call, len, areg, data, answer, calm>>

(* ... or give up and return 0. *)
TimeOut ==
  /\ MayTimeOut
  /\ AppStep("poll", "idle")
  /\ UNCHANGED <<bufVars, netVars, svcVars, call, len, areg, data, answer, calm>>

RecvCopy ==
  /\ app = "copy"
  /\ LET n == IF len > DataSize THEN DataSize ELSE len
     IN  /\ data' = [i \in 1 .. n |-> recvBuf[i - 1]]
         /\ len' = n
         /\ app' = IF len > DataSize THEN "move" ELSE "clear"
  /\ UNCHANGED <<bufVars, netVars, svcVars, call, areg, answer, calm>>

(* Mutant: what was taken is left in the buffer. *)
RecvKept ==
  /\ AppStep("clear", "return")
  /\ UNCHANGED <<bufVars, netVars, svcVars, call, len, areg, data, answer, calm>>

(* Everything was taken: recv_size = 0, whatever it has become meanwhile. *)
RecvClear ==
  /\ AppStep("clear", "return")
  /\ recvSize' = 0
  /\ UNCHANGED <<recvBuf, netVars, svcVars, call, len, areg, data, answer, calm>>

(* memmove of what is left to the front; recv_size is read again. *)
RecvMove ==
  /\ AppStep("move", "load")
  /\ recvBuf' = [i \in DOMAIN recvBuf |->
                   IF i + len < recvSize THEN recvBuf[i + len] ELSE recvBuf[i]]
  /\ UNCHANGED <<recvSize, netVars, svcVars, call, len, areg, data, answer, calm>>

(* recv_size -= len: a load ... *)
RecvLoad ==
  /\ AppStep("load", "store")
  /\ areg' = recvSize
  /\ UNCHANGED <<bufVars, netVars, svcVars, call, len, data, answer, calm>>

(* ... and a store. *)
RecvStore ==
  /\ AppStep("store", "return")
  /\ recvSize' = areg - len
  /\ areg' = 0
  /\ UNCHANGED <<recvBuf, netVars, svcVars, call, len, data, answer, calm>>

Return ==
  /\ AppStep("return", "idle")
  /\ answer' = [answer EXCEPT ![call] = data]
  /\ data' = <<>> /\ len' = 0
  /\ UNCHANGED <<bufVars, netVars, svcVars, call, areg, calm>>

-----------------------------------------------------------------------------
(* The server. *)

Deliver(m) ==
  \E n \in Lengths : inbound' = Append(inbound, [id |-> m, len |-> n])

Reply ==
  /\ requests # <<>>
  /\ Deliver(Head(requests))
  /\ requests' = Tail(requests)
  /\ UNCHANGED <<bufVars, queued, notices, svcVars, appVars>>

Notice ==
  /\ notices < NumNotices
  /\ notices' = notices + 1
  /\ Deliver(NumCalls + notices + 1)
  /\ calm' = calm \ {call}
  /\ UNCHANGED <<bufVars, queued, requests, svcVars, app, call, len, areg, data, answer>>

SvcMove ==
  \/ SvcLoop \/ SvcWake \/ SvcSend \/ SvcRecv \/ SvcRecvAgain \/ SvcDrained
  \/ SvcFits \/ SvcSleep \/ SvcAwake \/ SvcCopy \/ SvcLoad \/ SvcStore

Service == SvcMove \/ SvcEnd

Application ==
  \/ RecvSize \/ Poll \/ RecvCopy \/ RecvClear
  \/ RecvMove \/ RecvLoad \/ RecvStore \/ Return

Next == Service \/ Call \/ Application \/ TimeOut \/ Reply \/ Notice

(* Nothing will ever come: the service thread has ended, or waits for room  *)
(* for a message that is larger than the buffer.                            *)
Stuck == svc = "dead" \/ msg.len > Capacity

(* Both threads run, and the server answers; nobody has to call.  The clock *)
(* ends a call for which nothing will ever come.                            *)
Fairness ==
  /\ WF_vars(SvcMove) /\ WF_vars(Application) /\ WF_vars(Reply)
  /\ SF_vars(TimeOut /\ Stuck)

Spec == Init /\ [][Next]_vars /\ Fairness

-----------------------------------------------------------------------------
(* Properties. *)

(* Every variable stays within its type.  For recv_size this says that the  *)
(* buffer never overflows, although the room is measured, the message       *)
(* copied and the size advanced in separate steps and the application      *)
(* takes bytes out between them.                                            *)
TypeOK ==
  /\ recvBuf \in [0 .. Capacity - 1 -> Messages \X Nat \cup {None}]
  /\ recvSize \in 0 .. Capacity
  /\ queued \in Seq(Messages) /\ requests \in Seq(Messages)
  /\ inbound \in Seq([id : Messages, len : Lengths])
  /\ notices \in 0 .. NumNotices
  /\ svc \in {"loop", "wait", "copy", "load", "store", "next", "dead"} \cup Waiting
  /\ msg \in [id : Messages, len : Lengths] \cup {NoMessage}
  /\ sreg \in 0 .. Capacity
  /\ app \in {"idle", "size", "poll", "copy", "clear", "move", "load", "store", "return"}
  /\ call \in 0 .. NumCalls
  /\ len \in 0 .. Capacity /\ areg \in 0 .. Capacity
  /\ data \in Seq(Messages \X Nat \cup {None})
  /\ answer \in [1 .. NumCalls -> Seq(Messages \X Nat \cup {None})]
  /\ calm \in SUBSET (1 .. NumCalls)

(* However the unlocked accesses interleave, recv_size never covers a byte  *)
(* that was not received: websocket_recv may hand out bytes twice or lose   *)
(* some, but never returns uninitialized memory.                            *)
OnlyReceivedBytes ==
  /\ \A i \in 0 .. recvSize - 1 : recvBuf[i] # None
  /\ \A k \in 1 .. NumCalls : \A i \in DOMAIN answer[k] : answer[k][i] # None

(* What websocket_call relies on, since nothing in it matches an answer to  *)
(* its request: a call that is made when nothing is left of what came       *)
(* before - no late answer to a call that timed out, no rest of an answer   *)
(* that was cut - and that no notice disturbs, returns the beginning of its *)
(* own answer, or times out.                                                *)
AnswersItsCall ==
  \A k \in calm : answer[k] # <<>> =>
    \E n \in Lengths : answer[k] = Bytes(k, IF n > DataSize THEN DataSize ELSE n)

(***************************************************************************)
(* Why: the strengthening that makes the safety properties inductive.      *)
(***************************************************************************)

(* While one thread is between its load and its store of recv_size the      *)
(* other may have stored, too: the service thread then finds it smaller,    *)
(* and the application thread finds it larger, never the other way round.   *)
Sizes ==
  /\ svc \in {"wait", "sleep", "copy", "load", "store"} => msg # NoMessage
  /\ svc \in {"copy", "load"} => recvSize + msg.len <= Capacity
  /\ svc = "store" => recvSize <= sreg /\ sreg + msg.len <= Capacity
  /\ app \in {"copy", "clear", "move", "load"} => len <= recvSize
  /\ app = "store" => len <= areg /\ areg <= recvSize

Filled(n) == \A i \in 0 .. n - 1 : recvBuf[i] # None

(* The message is in the buffer before recv_size covers it. *)
Copied ==
  /\ svc = "load"  => Filled(recvSize + msg.len)
  /\ svc = "store" => Filled(sreg + msg.len)

Received == OnlyReceivedBytes /\ \A i \in DOMAIN data : data[i] # None

(* The beginning of an answer of n bytes to call k, as far as it is offered *)
(* room; and the answer whole at the beginning of the buffer.               *)
Offered(k, n)  == Bytes(k, IF n > DataSize THEN DataSize ELSE n)
InBuffer(k, n) == n <= Capacity /\ \A i \in 1 .. n : recvBuf[i - 1] = <<k, i>>

AtRest == svc \in {"loop", "epoll", "recv", "next", "dead"}

(* Of a call that was made when nothing was under way and that nothing      *)
(* disturbs, the request or the answer is in one place at a time ...        *)
OnItsWay(k) ==
  /\ recvSize = 0 /\ app \in {"idle", "size", "poll"} /\ answer[k] = <<>>
  /\ \/ queued = <<k>> /\ requests = <<>> /\ inbound = <<>> /\ (AtRest \/ svc = "send")
     \/ queued = <<>> /\ requests = <<k>> /\ inbound = <<>> /\ AtRest
     \/ /\ queued = <<>> /\ requests = <<>> /\ AtRest
        /\ \E n \in Lengths : inbound = <<[id |-> k, len |-> n]>>
     \/ /\ queued = <<>> /\ requests = <<>> /\ inbound = <<>>
        /\ svc \in {"wait", "sleep", "copy", "load", "store"} /\ msg.id = k
        /\ svc \in {"load", "store"} => InBuffer(k, msg.len)
        /\ svc = "store" => sreg = 0

(* ... and at last in the buffer, whole, until the call has taken it. *)
Arrived(k) ==
  /\ queued = <<>> /\ requests = <<>> /\ inbound = <<>> /\ AtRest
  /\ \E n \in Lengths :
       \/ /\ app \in {"idle", "size", "poll"} /\ answer[k] = <<>>
          /\ recvSize = n /\ InBuffer(k, n)
       \/ app = "copy" /\ len = n /\ InBuffer(k, n)
       \/ app = "clear" /\ n <= DataSize /\ data = Offered(k, n)
       \/ app \in {"move", "load", "store"} /\ n > DataSize /\ data = Offered(k, n)
       \/ app = "return" /\ data = Offered(k, n) /\ (n <= DataSize => recvSize = 0)
       \/ app = "idle" /\ answer[k] = Offered(k, n) /\ (n <= DataSize => recvSize = 0)

CalmCall == call \in calm => OnItsWay(call) \/ Arrived(call)

Answers ==
  /\ AnswersItsCall
  /\ \A k \in calm : k <= call
  /\ \A k \in 1 .. NumCalls : k > call => answer[k] = <<>>

(* "websocket_call(...) > 0" (test_ws.h): every call returns, with bytes    *)
(* unless it timed out, whatever the server sends besides and whatever the  *)
(* races of websocket_recv lose; that it times out has to be assumed only   *)
(* for a connection that has ended and behind a message for which recv_buf  *)
(* has never room.                                                          *)
EveryCallReturns ==
  \A k \in 1 .. NumCalls : (call = k /\ app # "idle") ~> (call = k /\ app = "idle")
=============================================================================
