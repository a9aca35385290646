--------------------------- MODULE WebSocketProofs ---------------------------
(***************************************************************************)
(* Theorems about the websocket client: what the two threads do to the     *)
(* shared buffer, from the lemmas about WebSocket, and what the connection *)
(* and the freeing of the client add to it.                                *)
(***************************************************************************)
EXTENDS WebSocketClient, SequenceTheorems, TLAPS

USE SizesAssumption, CountsAssumption, LengthsAssumption

-----------------------------------------------------------------------------
(* The types of what the two threads, the server and the caller change. *)
LEMMA TypeInit == Init => TypeOK
  <1> SUFFICES ASSUME Init PROVE TypeOK
    OBVIOUS
  <1>1. <<>> \in Seq(Messages) /\ <<>> \in Seq([id : Messages, len : Lengths])
        /\ <<>> \in Seq(Messages \X Nat \cup {None})
    OBVIOUS
  <1>2. 0 \in 0 .. Capacity /\ 0 \in 0 .. NumCalls /\ 0 \in 0 .. NumNotices
    OBVIOUS
  <1> QED
    BY <1>1, <1>2 DEF Init, TypeOK

LEMMA ServiceType ==
  ASSUME TypeOK, Sizes, Service
  PROVE  TypeOK'
  <1> USE DEF TypeOK, bufVars, netVars, svcVars, appVars, SvcStep, Waiting
  <1>1. CASE SvcLoop \/ SvcWake \/ SvcRecvAgain \/ SvcDrained \/ SvcFits \/ SvcSleep \/ SvcAwake
             \/ SvcEnd
    <2>1. /\ UNCHANGED <<bufVars, netVars, msg, sreg, appVars>>
          /\ svc' \in {"loop", "wait", "copy", "load", "store", "next", "dead"} \cup Waiting
      BY <1>1 DEF SvcLoop, SvcWake, SvcRecvAgain, SvcDrained, SvcFits, SvcSleep, SvcAwake, SvcEnd
    <2> QED
      BY <2>1
  <1>2. CASE SvcSend
    <2>1. Head(queued) \in Messages /\ Tail(queued) \in Seq(Messages)
      BY <1>2 DEF SvcSend
    <2>2. requests' \in Seq(Messages) /\ queued' \in Seq(Messages)
      BY <1>2, <2>1 DEF SvcSend
    <2>3. svc' \in {"send", "loop"}
      BY <1>2 DEF SvcSend
    <2> QED
      BY <1>2, <2>2, <2>3 DEF SvcSend
  <1>3. CASE SvcRecv
    <2>1. /\ Head(inbound) \in [id : Messages, len : Lengths]
          /\ Tail(inbound) \in Seq([id : Messages, len : Lengths])
      <3> DEFINE R == [id : Messages, len : Lengths]
      <3>1. inbound \in Seq(R) /\ inbound # <<>>
        BY <1>3 DEF SvcRecv
      <3> HIDE DEF R
      <3>2. Head(inbound) \in R /\ Tail(inbound) \in Seq(R)
        BY <3>1, HeadTailProperties
      <3> QED
        BY <3>2 DEF R
    <2> QED
      BY <1>3, <2>1 DEF SvcRecv
  <1>4. CASE SvcCopy
    <2>1. msg \in [id : Messages, len : Lengths]
      BY <1>4 DEF SvcCopy, Sizes
    <2>2. \A i \in recvSize .. recvSize + msg.len - 1 : i - recvSize + 1 \in Nat
      BY <2>1
    <2>3. recvBuf' \in [0 .. Capacity - 1 -> Messages \X Nat \cup {None}]
      BY <1>4, <2>1, <2>2 DEF SvcCopy
    <2> QED
      BY <1>4, <2>3 DEF SvcCopy
  <1>5. CASE SvcLoad
    BY <1>5 DEF SvcLoad
  <1>6. CASE SvcStore
    <2>1. recvSize' \in 0 .. Capacity /\ 0 \in 0 .. Capacity
      <3>1. msg \in [id : Messages, len : Lengths]
        BY <1>6 DEF SvcStore, Sizes
      <3>2. msg.len \in Nat /\ recvSize' = sreg + msg.len /\ sreg + msg.len <= Capacity
        BY <1>6, <3>1 DEF SvcStore, Sizes
      <3> QED
        BY <3>2
    <2> QED
      BY <1>6, <2>1 DEF SvcStore
  <1> QED
    BY <1>1, <1>2, <1>3, <1>4, <1>5, <1>6 DEF Service, SvcMove

LEMMA ApplicationType ==
  ASSUME TypeOK, Sizes, Call \/ Application \/ TimeOut
  PROVE  TypeOK'
  <1> USE DEF TypeOK, bufVars, netVars, svcVars, appVars, AppStep
  <1>1. CASE Call
    <2>1. call + 1 \in Messages /\ call + 1 \in 1 .. NumCalls
      BY <1>1 DEF Call, Messages
    <2>2. queued' \in Seq(Messages)
      BY <1>1, <2>1 DEF Call
    <2>3. calm' \in SUBSET (1 .. NumCalls)
      BY <1>1, <2>1 DEF Call
    <2> QED
      BY <1>1, <2>1, <2>2, <2>3 DEF Call
  <1>2. CASE RecvSize \/ Poll \/ TimeOut
    BY <1>2 DEF RecvSize, Poll, TimeOut
  <1>3. CASE RecvCopy
    <2> DEFINE n == IF len > DataSize THEN DataSize ELSE len
    <2>1. n \in 0 .. Capacity /\ n <= recvSize
      BY <1>3 DEF RecvCopy, Sizes
    <2>2. \A i \in 1 .. n : recvBuf[i - 1] \in Messages \X Nat \cup {None}
      BY <2>1
    <2>3. data' = [i \in 1 .. n |-> recvBuf[i - 1]] /\ len' = n /\ app' \in {"move", "clear"}
      BY <1>3 DEF RecvCopy
    <2>4. data' \in Seq(Messages \X Nat \cup {None})
      BY <2>1, <2>2, <2>3
    <2> QED
      BY <1>3, <2>1, <2>3, <2>4 DEF RecvCopy
  <1>4. CASE RecvClear
    BY <1>4 DEF RecvClear
  <1>5. CASE RecvMove
    <2>1. recvBuf' \in [0 .. Capacity - 1 -> Messages \X Nat \cup {None}]
      BY <1>5 DEF RecvMove
    <2> QED
      BY <1>5, <2>1 DEF RecvMove
  <1>6. CASE RecvLoad
    BY <1>6 DEF RecvLoad
  <1>7. CASE RecvStore
    <2>1. recvSize' \in 0 .. Capacity /\ 0 \in 0 .. Capacity
      BY <1>7 DEF RecvStore, Sizes
    <2> QED
      BY <1>7, <2>1 DEF RecvStore
  <1>8. CASE Return
    <2>1. answer' \in [1 .. NumCalls -> Seq(Messages \X Nat \cup {None})]
      BY <1>8 DEF Return
    <2>2. <<>> \in Seq(Messages \X Nat \cup {None}) /\ 0 \in 0 .. Capacity
      OBVIOUS
    <2> QED
      BY <1>8, <2>1, <2>2 DEF Return
  <1> QED
    BY <1>1, <1>2, <1>3, <1>4, <1>5, <1>6, <1>7, <1>8 DEF Application

LEMMA ServerType ==
  ASSUME TypeOK, Reply \/ Notice
  PROVE  TypeOK'
  <1> USE DEF TypeOK, bufVars, netVars, svcVars, appVars
  <1>1. ASSUME NEW m \in Messages, Deliver(m)
        PROVE  inbound' \in Seq([id : Messages, len : Lengths])
    BY <1>1 DEF Deliver
  <1>2. CASE Reply
    <2>1. Head(requests) \in Messages /\ Tail(requests) \in Seq(Messages)
      BY <1>2 DEF Reply
    <2> QED
      BY <1>1, <1>2, <2>1 DEF Reply
  <1>3. CASE Notice
    <2>1. NumCalls + notices + 1 \in Messages /\ notices' \in 0 .. NumNotices
      BY <1>3 DEF Notice, Messages
    <2>2. calm' \in SUBSET (1 .. NumCalls)
      BY <1>3 DEF Notice
    <2>3. inbound' \in Seq([id : Messages, len : Lengths])
      BY <1>1, <1>3, <2>1 DEF Notice
    <2> QED
      BY <1>3, <2>1, <2>2, <2>3 DEF Notice
  <1> QED
    BY <1>2, <1>3

LEMMA TypeNext ==
  ASSUME TypeOK, Sizes, Next
  PROVE  TypeOK'
  BY ServiceType, ApplicationType, ServerType DEF Next

-----------------------------------------------------------------------------
(* recv_size, and what each thread holds of it between its load and store. *)
LEMMA SizesInit == Init => Sizes
  BY DEF Init, Sizes

LEMMA MessageHandled ==
  ASSUME TypeOK, Sizes, svc \in {"wait", "sleep", "copy", "load", "store"}
  PROVE  msg \in [id : Messages, len : Lengths] /\ msg.id \in Messages /\ msg.len \in Nat \ {0}
  <1>1. msg \in [id : Messages, len : Lengths]
    BY DEF TypeOK, Sizes
  <1> QED
    BY <1>1

LEMMA ServiceSizes ==
  ASSUME TypeOK, Sizes, Service
  PROVE  Sizes'
  <1>a. /\ recvSize \in Nat /\ sreg \in Nat /\ areg \in Nat /\ len \in Nat
        /\ app \in {"copy", "clear", "move", "load"} => len <= recvSize
        /\ app = "store" => len <= areg /\ areg <= recvSize
    BY DEF TypeOK, Sizes
  <1>1. CASE SvcLoop \/ SvcWake \/ SvcRecvAgain \/ SvcDrained \/ SvcEnd
    <2>1. /\ UNCHANGED <<bufVars, appVars>>
          /\ svc' \notin {"wait", "sleep", "copy", "load", "store"}
      BY <1>1 DEF SvcLoop, SvcWake, SvcRecvAgain, SvcDrained, SvcEnd, SvcStep
    <2> QED
      BY <1>a, <2>1 DEF Sizes, bufVars, appVars
  <1>2. CASE SvcSend
    <2>1. UNCHANGED <<bufVars, appVars>> /\ svc' \in {"send", "loop"}
      BY <1>2 DEF SvcSend
    <2> QED
      BY <1>a, <2>1 DEF Sizes, bufVars, appVars
  <1>3. CASE SvcRecv
    <2>1. msg' \in [id : Messages, len : Lengths]
      <3> DEFINE R == [id : Messages, len : Lengths]
      <3>1. inbound \in Seq(R) /\ inbound # <<>>
        BY <1>3 DEF SvcRecv, TypeOK
      <3> HIDE DEF R
      <3>2. Head(inbound) \in R
        BY <3>1, HeadTailProperties
      <3> QED
        BY <1>3, <3>2 DEF SvcRecv, R
    <2>2. msg' # NoMessage
      BY <2>1 DEF NoMessage, Messages
    <2>3. UNCHANGED <<bufVars, appVars>> /\ svc' = "wait"
      BY <1>3 DEF SvcRecv
    <2> QED
      BY <1>a, <2>2, <2>3 DEF Sizes, bufVars, appVars
  <1>4. CASE SvcFits \/ SvcSleep \/ SvcAwake
    <2>1. /\ svc \in {"wait", "sleep"} /\ svc' \in {"copy", "sleep", "wait"}
          /\ svc' = "copy" => Capacity - recvSize >= msg.len
          /\ UNCHANGED <<bufVars, appVars, msg>>
      BY <1>4 DEF SvcFits, SvcSleep, SvcAwake, SvcStep
    <2>2. msg.len \in Nat /\ recvSize \in 0 .. Capacity
      BY <2>1, MessageHandled DEF TypeOK
    <2> QED
      BY <1>a, <2>1, <2>2 DEF Sizes, bufVars, appVars
  <1>5. CASE SvcCopy
    BY <1>a, <1>5 DEF Sizes, SvcCopy, SvcStep, appVars
  <1>6. CASE SvcLoad
    BY <1>a, <1>6 DEF Sizes, SvcLoad, SvcStep, appVars, bufVars
  <1>7. CASE SvcStore
    <2>1. msg.len \in Nat /\ svc = "store"
      BY <1>7, MessageHandled DEF SvcStore, SvcStep
    <2>2. recvSize' \in Nat /\ recvSize <= recvSize'
      BY <1>a, <1>7, <2>1 DEF Sizes, SvcStore
    <2>3. svc' = "next" /\ UNCHANGED appVars
      BY <1>7 DEF SvcStore, SvcStep
    <2> QED
      BY <1>a, <2>2, <2>3 DEF Sizes, appVars
  <1> QED
    BY <1>1, <1>2, <1>3, <1>4, <1>5, <1>6, <1>7 DEF Service, SvcMove

LEMMA ApplicationSizes ==
  ASSUME TypeOK, Sizes, Call \/ Application \/ TimeOut
  PROVE  Sizes'
  <1>a. /\ recvSize \in Nat /\ sreg \in Nat /\ areg \in Nat /\ len \in Nat
        /\ svc \in {"copy", "load", "store"} => msg.len \in Nat
    BY MessageHandled DEF TypeOK
  <1>b. UNCHANGED svcVars
    BY DEF Call, Application, TimeOut, RecvSize, Poll, RecvCopy, RecvClear, RecvMove, RecvLoad,
           RecvStore, Return
  <1>c. /\ svc \in {"wait", "sleep", "copy", "load", "store"} => msg # NoMessage
        /\ svc \in {"copy", "load"} => recvSize + msg.len <= Capacity
        /\ svc = "store" => recvSize <= sreg /\ sreg + msg.len <= Capacity
    BY DEF Sizes
  <1>1. recvSize' \in Nat /\ recvSize' <= recvSize
    <2>1. CASE RecvClear
      BY <1>a, <2>1 DEF RecvClear
    <2>2. CASE RecvStore
      BY <1>a, <2>2 DEF RecvStore, AppStep, Sizes
    <2>3. CASE ~RecvClear /\ ~RecvStore
      BY <1>a, <2>3 DEF Call, Application, TimeOut, RecvSize, Poll, RecvCopy, RecvMove, RecvLoad,
                        Return, bufVars
    <2> QED
      BY <2>1, <2>2, <2>3
  <1>2. /\ app' \in {"copy", "clear", "move", "load"} => len' <= recvSize'
        /\ app' = "store" => len' <= areg' /\ areg' <= recvSize'
    <2>1. CASE Call \/ Poll \/ TimeOut \/ RecvClear \/ RecvStore \/ Return
      BY <2>1 DEF Call, Poll, TimeOut, RecvClear, RecvStore, Return, AppStep
    <2>2. CASE RecvSize
      BY <1>a, <2>2 DEF RecvSize, AppStep, bufVars
    <2>3. CASE RecvCopy
      BY <1>a, <2>3 DEF RecvCopy, bufVars, Sizes
    <2>4. CASE RecvMove
      BY <1>a, <2>4 DEF RecvMove, AppStep, Sizes
    <2>5. CASE RecvLoad
      BY <1>a, <2>5 DEF RecvLoad, AppStep, bufVars, Sizes
    <2> QED
      BY <2>1, <2>2, <2>3, <2>4, <2>5 DEF Application
  <1> QED
    BY <1>a, <1>b, <1>c, <1>1, <1>2 DEF Sizes, svcVars

LEMMA SizesNext ==
  ASSUME TypeOK, Sizes, Next
  PROVE  Sizes'
  <1>1. CASE Reply \/ Notice
    <2>1. UNCHANGED <<bufVars, svcVars, app, len, areg>>
      BY <1>1 DEF Reply, Notice, appVars
    <2> QED
      BY <2>1 DEF Sizes, bufVars, svcVars
  <1> QED
    BY <1>1, ServiceSizes, ApplicationSizes DEF Next

-----------------------------------------------------------------------------
(* A byte that was written stays written. *)
LEMMA FilledNext ==
  ASSUME TypeOK, Sizes, OnlyReceivedBytes, Next
  PROVE  \A i \in 0 .. Capacity - 1 : recvBuf[i] # None => recvBuf'[i] # None
  <1>1. CASE SvcCopy
    <2>1. msg.id \in Messages /\ msg.len \in Nat
      BY <1>1, MessageHandled DEF SvcCopy, SvcStep
    <2>2. msg.id # 0
      BY <2>1 DEF Messages
    <2> QED
      BY <1>1, <2>2 DEF SvcCopy, TypeOK, None
  <1>2. CASE RecvMove
    <2>1. \A i \in 0 .. Capacity - 1 : i + len < recvSize => recvBuf[i + len] # None
      BY DEF TypeOK, OnlyReceivedBytes
    <2> QED
      BY <1>2, <2>1 DEF RecvMove, TypeOK
  <1>3. CASE ~SvcCopy /\ ~RecvMove
    <2>1. UNCHANGED recvBuf
      BY <1>3 DEF Next, Service, SvcMove, SvcLoop, SvcWake, SvcSend, SvcRecv, SvcRecvAgain,
                  SvcDrained, SvcFits, SvcSleep, SvcAwake, SvcLoad, SvcStore, SvcEnd, Application,
                  Call, TimeOut, RecvSize, Poll, RecvCopy, RecvClear, RecvLoad, RecvStore, Return,
                  Reply, Notice, bufVars
    <2> QED
      BY <2>1
  <1> QED
    BY <1>1, <1>2, <1>3

LEMMA CopiedNext ==
  ASSUME TypeOK, Sizes, OnlyReceivedBytes, Copied, Next
  PROVE  Copied'
  <1> SUFFICES /\ svc' = "load"  => \A i \in 0 .. (recvSize' + msg'.len) - 1 : recvBuf'[i] # None
               /\ svc' = "store" => \A i \in 0 .. (sreg' + msg'.len) - 1 : recvBuf'[i] # None
    BY DEF Copied, Filled
  <1>a. recvSize \in Nat /\ recvSize <= Capacity /\ Capacity \in Nat
    BY DEF TypeOK
  <1>1. CASE SvcCopy
    <2>1. /\ msg.id \in Messages /\ msg.len \in Nat /\ recvSize + msg.len <= Capacity
          /\ svc' = "load" /\ recvSize' = recvSize /\ msg' = msg
      BY <1>1, MessageHandled DEF SvcCopy, SvcStep, Sizes
    <2>2. ASSUME NEW i \in 0 .. (recvSize + msg.len) - 1 PROVE recvBuf'[i] # None
      <3>1. i \in 0 .. Capacity - 1
        BY <1>a, <2>1
      <3>2. CASE i \in 0 .. recvSize - 1
        BY <3>1, <3>2, FilledNext DEF OnlyReceivedBytes
      <3>3. CASE i \notin 0 .. recvSize - 1
        <4>1. i \in recvSize .. recvSize + msg.len - 1
          BY <1>a, <2>1, <3>3
        <4>2. recvBuf'[i] = <<msg.id, i - recvSize + 1>>
          BY <1>1, <3>1, <4>1 DEF SvcCopy, TypeOK
        <4>3. msg.id # 0
          BY <2>1 DEF Messages
        <4> QED
          BY <4>2, <4>3 DEF None
      <3> QED
        BY <3>2, <3>3
    <2> QED
      BY <2>1, <2>2
  <1>2. CASE SvcLoad
    <2>1. /\ svc = "load" /\ svc' = "store" /\ sreg' = recvSize /\ msg' = msg /\ recvBuf' = recvBuf
      BY <1>2 DEF SvcLoad, SvcStep, bufVars
    <2>2. \A i \in 0 .. (recvSize + msg.len) - 1 : recvBuf[i] # None
      BY <2>1 DEF Copied, Filled
    <2>3. sreg' + msg'.len = recvSize + msg.len
      BY <2>1
    <2> QED
      BY <2>1, <2>2, <2>3
  <1>3. CASE Call \/ Application \/ TimeOut \/ Reply \/ Notice
    <2>1. UNCHANGED svcVars
      BY <1>3 DEF Call, Application, TimeOut, RecvSize, Poll, RecvCopy, RecvClear, RecvMove,
                  RecvLoad, RecvStore, Return, Reply, Notice
    <2>2. recvSize' \in Nat /\ recvSize' <= recvSize
      <3>1. CASE RecvClear
        BY <1>a, <3>1 DEF RecvClear
      <3>2. CASE RecvStore
        BY <1>a, <3>2 DEF RecvStore, AppStep, Sizes, TypeOK
      <3>3. CASE ~RecvClear /\ ~RecvStore
        BY <1>3, <1>a, <3>3 DEF Call, Application, TimeOut, RecvSize, Poll, RecvCopy, RecvMove,
                                RecvLoad, Return, Reply, Notice, bufVars
      <3> QED
        BY <3>1, <3>2, <3>3
    <2>3. CASE svc = "load"
      <3>1. msg.len \in Nat /\ recvSize + msg.len <= Capacity
        BY <2>3, MessageHandled DEF Sizes
      <3>2. \A i \in 0 .. (recvSize + msg.len) - 1 : i \in 0 .. Capacity - 1 /\ recvBuf[i] # None
        BY <1>a, <2>3, <3>1 DEF Copied, Filled
      <3>3. \A i \in 0 .. (recvSize + msg.len) - 1 : recvBuf'[i] # None
        BY <3>2, FilledNext
      <3> QED
        BY <1>a, <2>1, <2>2, <2>3, <3>1, <3>3 DEF svcVars
    <2>4. CASE svc = "store"
      <3>1. msg.len \in Nat /\ sreg + msg.len <= Capacity /\ sreg \in Nat
        BY <2>4, MessageHandled DEF Sizes, TypeOK
      <3>2. \A i \in 0 .. (sreg + msg.len) - 1 : i \in 0 .. Capacity - 1 /\ recvBuf[i] # None
        BY <1>a, <2>4, <3>1 DEF Copied, Filled
      <3>3. \A i \in 0 .. (sreg + msg.len) - 1 : recvBuf'[i] # None
        BY <3>2, FilledNext
      <3> QED
        BY <2>1, <2>4, <3>3 DEF svcVars
    <2> QED
      BY <2>1, <2>3, <2>4 DEF svcVars
  <1>4. CASE Service /\ ~SvcCopy /\ ~SvcLoad
    <2>1. svc' \notin {"load", "store"}
      BY <1>4 DEF Service, SvcMove, SvcLoop, SvcWake, SvcSend, SvcRecv, SvcRecvAgain,
                  SvcDrained, SvcFits, SvcSleep, SvcAwake, SvcStore, SvcEnd, SvcStep
    <2> QED
      BY <2>1
  <1> QED
    BY <1>1, <1>2, <1>3, <1>4 DEF Next

LEMMA ReceivedInit == Init => Received /\ Copied
  BY DEF Init, Received, OnlyReceivedBytes, Copied

LEMMA ReceivedNext ==
  ASSUME TypeOK, Sizes, Received, Copied, Next
  PROVE  Received'
  <1>a. /\ OnlyReceivedBytes
        /\ recvSize \in Nat /\ recvSize <= Capacity /\ Capacity \in Nat
        /\ answer \in [1 .. NumCalls -> Seq(Messages \X Nat \cup {None})]
    BY DEF TypeOK, Received
  <1>1. \A i \in 0 .. recvSize' - 1 : recvBuf'[i] # None
    <2>1. CASE SvcStore
      <3>1. /\ svc = "store" /\ recvSize' = sreg + msg.len /\ recvBuf' = recvBuf
        BY <2>1 DEF SvcStore, SvcStep
      <3> QED
        BY <3>1 DEF Copied, Filled
    <2>2. CASE ~SvcStore
      <3>1. recvSize' \in Nat /\ recvSize' <= recvSize
        <4>1. CASE RecvClear
          BY <1>a, <4>1 DEF RecvClear
        <4>2. CASE RecvStore
          BY <1>a, <4>2 DEF RecvStore, AppStep, Sizes, TypeOK
        <4>3. CASE ~RecvClear /\ ~RecvStore
          <5>1. UNCHANGED recvSize
            BY <2>2, <4>3
               DEF Next, Service, SvcMove, SvcLoop, SvcWake, SvcSend, SvcRecv, SvcRecvAgain,
                   SvcDrained, SvcFits, SvcSleep, SvcAwake, SvcCopy, SvcLoad, SvcEnd, Application,
                   Call, TimeOut, RecvSize, Poll, RecvCopy, RecvMove, RecvLoad, Return, Reply,
                   Notice, bufVars
          <5> QED
            BY <1>a, <5>1
        <4> QED
          BY <4>1, <4>2, <4>3
      <3>2. 0 .. recvSize' - 1 \subseteq (0 .. recvSize - 1) \cap (0 .. Capacity - 1)
        <4>1. \A n \in Nat : n <= recvSize =>
                0 .. n - 1 \subseteq (0 .. recvSize - 1) \cap (0 .. Capacity - 1)
          BY <1>a
        <4> QED
          BY <3>1, <4>1
      <3>3. \A i \in 0 .. recvSize - 1 : recvBuf[i] # None
        BY <1>a DEF OnlyReceivedBytes
      <3> QED
        BY <1>a, <3>2, <3>3, FilledNext
    <2> QED
      BY <2>1, <2>2
  <1>2. /\ \A i \in DOMAIN data' : data'[i] # None
        /\ \A k \in 1 .. NumCalls : \A i \in DOMAIN answer'[k] : answer'[k][i] # None
    <2>1. CASE RecvCopy
      <3> DEFINE n == IF len > DataSize THEN DataSize ELSE len
      <3>1. data' = [i \in 1 .. n |-> recvBuf[i - 1]] /\ answer' = answer
        BY <2>1 DEF RecvCopy
      <3>2. n \in Nat /\ n <= recvSize
        BY <2>1 DEF RecvCopy, Sizes, TypeOK
      <3>3. \A i \in 1 .. n : recvBuf[i - 1] # None
        BY <1>a, <3>2 DEF OnlyReceivedBytes
      <3> QED
        BY <1>a, <3>1, <3>3 DEF OnlyReceivedBytes
    <2>2. CASE Return
      <3>1. data' = <<>> /\ answer' = [answer EXCEPT ![call] = data]
        BY <2>2 DEF Return
      <3>2. \A k \in 1 .. NumCalls : answer'[k] = answer[k] \/ answer'[k] = data
        BY <1>a, <3>1
      <3>3. DOMAIN data' = {}
        BY <3>1
      <3> QED
        BY <1>a, <3>2, <3>3 DEF Received, OnlyReceivedBytes
    <2>3. CASE ~RecvCopy /\ ~Return
      <3>1. UNCHANGED <<data, answer>>
        BY <2>3 DEF Next, Service, SvcMove, SvcLoop, SvcWake, SvcSend, SvcRecv, SvcRecvAgain,
                    SvcDrained, SvcFits, SvcSleep, SvcAwake, SvcCopy, SvcLoad, SvcStore, SvcEnd,
                    Application, Call, TimeOut, RecvSize, Poll, RecvClear, RecvMove, RecvLoad,
                    RecvStore, Reply, Notice, appVars
      <3> QED
        BY <3>1 DEF Received, OnlyReceivedBytes
    <2> QED
      BY <2>1, <2>2, <2>3
  <1> QED
    BY <1>1, <1>2 DEF Received, OnlyReceivedBytes

-----------------------------------------------------------------------------
(* A call that nothing disturbs: where its request or its answer is. *)
LEMMA Single ==
  ASSUME NEW x
  PROVE  /\ Append(<<>>, x) = <<x>> /\ Head(<<x>>) = x /\ Tail(<<x>>) = <<>>
         /\ Len(<<x>>) = 1 /\ <<x>> # <<>>
  OBVIOUS

LEMMA AnswersInit == Init => Answers /\ CalmCall
  BY DEF Init, Answers, AnswersItsCall, CalmCall

(* The service thread at rest and its steps. *)
LEMMA RestSteps ==
  ASSUME Service, AtRest \/ svc = "send", ~SvcSend, ~SvcRecv
  PROVE  /\ UNCHANGED <<bufVars, netVars, appVars, msg, sreg>>
         /\ AtRest' \/ (svc' = "send" /\ queued # <<>>)
  BY DEF Service, SvcMove, SvcLoop, SvcWake, SvcRecvAgain, SvcDrained, SvcFits, SvcSleep,
         SvcAwake, SvcCopy, SvcLoad, SvcStore, SvcEnd, SvcStep, AtRest

LEMMA ServiceCalm ==
  ASSUME TypeOK, Sizes, Service, NEW k, OnItsWay(k) \/ Arrived(k)
  PROVE  OnItsWay(k)' \/ Arrived(k)'
  <1>a. UNCHANGED appVars
    BY DEF Service, SvcMove, SvcLoop, SvcWake, SvcSend, SvcRecv, SvcRecvAgain, SvcDrained,
           SvcFits, SvcSleep, SvcAwake, SvcCopy, SvcLoad, SvcStore, SvcEnd
  <1> DEFINE calls == recvSize = 0 /\ app \in {"idle", "size", "poll"} /\ answer[k] = <<>>
  <1>1. CASE calls /\ queued = <<k>> /\ requests = <<>> /\ inbound = <<>> /\ (AtRest \/ svc = "send")
    <2>1. ~SvcRecv
      BY <1>1 DEF SvcRecv
    <2>2. CASE SvcSend
      <3>1. /\ requests' = <<k>> /\ queued' = <<>> /\ svc' = "loop"
            /\ UNCHANGED <<bufVars, inbound>>
        BY <1>1, <2>2, Single DEF SvcSend
      <3> QED
        BY <1>a, <1>1, <3>1 DEF OnItsWay, AtRest, bufVars, appVars
    <2>3. CASE ~SvcSend
      BY <1>a, <1>1, <2>1, <2>3, RestSteps DEF OnItsWay, bufVars, appVars, netVars
    <2> QED
      BY <2>2, <2>3
  <1>2. CASE calls /\ queued = <<>> /\ requests = <<k>> /\ inbound = <<>> /\ AtRest
    <2>1. ~SvcRecv /\ ~SvcSend
      BY <1>2 DEF SvcRecv, SvcSend
    <2> QED
      BY <1>a, <1>2, <2>1, RestSteps DEF OnItsWay, bufVars, appVars, netVars
  <1>3. CASE /\ calls /\ queued = <<>> /\ requests = <<>> /\ AtRest
             /\ \E n \in Lengths : inbound = <<[id |-> k, len |-> n]>>
    <2>1. ~SvcSend
      BY <1>3 DEF SvcSend
    <2>2. CASE SvcRecv
      <3>1. PICK n \in Lengths : inbound = <<[id |-> k, len |-> n]>>
        BY <1>3
      <3>2. msg' = [id |-> k, len |-> n] /\ inbound' = <<>>
        BY <2>2, <3>1, Single DEF SvcRecv
      <3>3. svc' = "wait" /\ UNCHANGED <<bufVars, queued, requests>>
        BY <2>2 DEF SvcRecv
      <3> QED
        BY <1>a, <1>3, <3>2, <3>3 DEF OnItsWay, bufVars, appVars
    <2>3. CASE ~SvcRecv
      BY <1>a, <1>3, <2>1, <2>3, RestSteps DEF OnItsWay, bufVars, appVars, netVars
    <2> QED
      BY <2>2, <2>3
  <1>4. CASE /\ calls /\ queued = <<>> /\ requests = <<>> /\ inbound = <<>>
             /\ svc \in {"wait", "sleep", "copy", "load", "store"} /\ msg.id = k
             /\ svc \in {"load", "store"} => InBuffer(k, msg.len)
             /\ svc = "store" => sreg = 0
    <2>1. /\ msg.len \in Lengths /\ msg.len \in Nat \ {0}
          /\ Capacity \in Nat /\ recvBuf \in [0 .. Capacity - 1 -> Messages \X Nat \cup {None}]
      <3>1. msg \in [id : Messages, len : Lengths]
        BY <1>4, MessageHandled
      <3> QED
        BY <3>1 DEF TypeOK
    <2>2. CASE SvcFits \/ SvcSleep \/ SvcAwake
      <3>1. /\ UNCHANGED <<bufVars, netVars, msg>> /\ svc' \in {"wait", "sleep", "copy"}
        BY <2>2 DEF SvcFits, SvcSleep, SvcAwake, SvcStep
      <3> QED
        BY <1>a, <1>4, <3>1 DEF OnItsWay, bufVars, netVars, appVars
    <2>3. CASE SvcCopy
      <3>1. /\ svc = "copy" /\ svc' = "load" /\ UNCHANGED <<recvSize, netVars, msg>>
        BY <2>3 DEF SvcCopy, SvcStep
      <3>2. msg.len <= Capacity
        BY <1>4, <2>1, <3>1 DEF Sizes
      <3>3. \A i \in 1 .. msg.len : recvBuf'[i - 1] = <<k, i>>
        <4>1. \A j \in 0 .. Capacity - 1 :
                j \in 0 .. msg.len - 1 => recvBuf'[j] = <<k, j + 1>>
          <5>1. ASSUME NEW j \in 0 .. Capacity - 1, j \in 0 .. msg.len - 1
                PROVE  recvBuf'[j] = <<k, j - recvSize + 1>>
            <6>1. j \in recvSize .. recvSize + msg.len - 1
              BY <1>4, <2>1, <5>1
            <6> QED
              BY <1>4, <2>1, <2>3, <5>1, <6>1 DEF SvcCopy
          <5>2. \A j \in 0 .. Capacity - 1 : j - recvSize + 1 = j + 1
            BY <1>4
          <5> QED
            BY <5>1, <5>2
        <4>2. \A i \in 1 .. msg.len :
                i - 1 \in 0 .. Capacity - 1 /\ i - 1 \in 0 .. msg.len - 1 /\ (i - 1) + 1 = i
          BY <2>1, <3>2
        <4> QED
          BY <4>1, <4>2
      <3> QED
        BY <1>a, <1>4, <3>1, <3>2, <3>3 DEF OnItsWay, InBuffer, netVars, appVars
    <2>4. CASE SvcLoad
      <3>1. /\ svc = "load" /\ svc' = "store" /\ UNCHANGED <<bufVars, netVars, msg>> /\ sreg' = 0
        BY <1>4, <2>4 DEF SvcLoad, SvcStep
      <3> QED
        BY <1>a, <1>4, <3>1 DEF OnItsWay, InBuffer, bufVars, netVars, appVars
    <2>5. CASE SvcStore
      <3>1. /\ svc = "store" /\ svc' = "next" /\ UNCHANGED <<recvBuf, netVars>>
            /\ recvSize' = msg.len
        BY <1>4, <2>1, <2>5 DEF SvcStore, SvcStep
      <3>3. \E n \in Lengths : recvSize' = n /\ n <= Capacity
                               /\ \A i \in 1 .. n : recvBuf'[i - 1] = <<k, i>>
        BY <1>4, <2>1, <3>1 DEF InBuffer
      <3> QED
        BY <1>a, <1>4, <3>1, <3>3 DEF Arrived, InBuffer, AtRest, netVars, appVars
    <2> QED
      BY <1>4, <2>2, <2>3, <2>4, <2>5
         DEF Service, SvcMove, SvcLoop, SvcWake, SvcSend, SvcRecv, SvcRecvAgain, SvcDrained,
             SvcEnd, SvcStep
  <1>5. CASE Arrived(k)
    <2>1. AtRest /\ ~SvcSend /\ ~SvcRecv /\ queued = <<>>
      BY <1>5 DEF Arrived, SvcRecv, SvcSend
    <2>2. AtRest' /\ UNCHANGED <<bufVars, netVars>>
      BY <2>1, RestSteps
    <2> QED
      BY <1>a, <1>5, <2>2 DEF Arrived, InBuffer, bufVars, netVars, appVars
  <1> QED
    BY <1>1, <1>2, <1>3, <1>4, <1>5 DEF OnItsWay

(* The application thread takes the answer, whole or as far as it fits. *)
LEMMA ApplicationCalm ==
  ASSUME TypeOK, Sizes, Application \/ TimeOut, NEW k \in 1 .. NumCalls, call = k,
         OnItsWay(k) \/ Arrived(k)
  PROVE  OnItsWay(k)' \/ Arrived(k)'
  <1>a. /\ UNCHANGED <<netVars, svcVars>> /\ DataSize \in Nat \ {0} /\ Capacity \in Nat
        /\ Lengths \subseteq Nat \ {0}
    BY DEF Application, TimeOut, RecvSize, Poll, RecvCopy, RecvClear, RecvMove, RecvLoad,
           RecvStore, Return
  <1>1. CASE OnItsWay(k)
    <2>1. /\ UNCHANGED <<recvBuf, recvSize, answer>> /\ app' \in {"idle", "size", "poll"}
      BY <1>1 DEF OnItsWay, Application, TimeOut, RecvSize, Poll, RecvCopy, RecvClear, RecvMove,
                  RecvLoad, RecvStore, Return, AppStep, bufVars
    <2> QED
      BY <1>a, <1>1, <2>1 DEF OnItsWay, InBuffer, AtRest, netVars, svcVars
  <1>2. CASE Arrived(k)
    <2> DEFINE rest == queued = <<>> /\ requests = <<>> /\ inbound = <<>> /\ AtRest
    <2>a. rest'
      BY <1>a, <1>2 DEF Arrived, AtRest, netVars, svcVars
    <2>b. PICK n \in Lengths :
            \/ /\ app \in {"idle", "size", "poll"} /\ answer[k] = <<>>
               /\ recvSize = n /\ InBuffer(k, n)
            \/ app = "copy" /\ len = n /\ InBuffer(k, n)
            \/ app = "clear" /\ n <= DataSize /\ data = Offered(k, n)
            \/ app \in {"move", "load", "store"} /\ n > DataSize /\ data = Offered(k, n)
            \/ app = "return" /\ data = Offered(k, n) /\ (n <= DataSize => recvSize = 0)
            \/ app = "idle" /\ answer[k] = Offered(k, n) /\ (n <= DataSize => recvSize = 0)
      BY <1>2 DEF Arrived
    <2>c. n \in Nat \ {0}
      BY <1>a
    <2>1. CASE RecvSize
      <3>1. /\ recvSize = n /\ InBuffer(k, n)
            /\ app' = "copy" /\ len' = n /\ UNCHANGED bufVars
        BY <2>1, <2>b, <2>c DEF RecvSize, AppStep
      <3> QED
        BY <2>a, <3>1 DEF Arrived, InBuffer, bufVars
    <2>2. CASE Poll \/ TimeOut
      <3>1. /\ recvSize = n /\ InBuffer(k, n) /\ answer[k] = <<>>
            /\ app' \in {"size", "idle"} /\ UNCHANGED <<bufVars, answer>>
        BY <2>2, <2>b DEF Poll, TimeOut, AppStep
      <3> QED
        BY <2>a, <3>1 DEF Arrived, InBuffer, bufVars
    <2>3. CASE RecvCopy
      <3> DEFINE m == IF n > DataSize THEN DataSize ELSE n
      <3>1. /\ len = n /\ InBuffer(k, n) /\ data' = [i \in 1 .. m |-> recvBuf[i - 1]]
            /\ app' = IF n > DataSize THEN "move" ELSE "clear"
        BY <2>3, <2>b DEF RecvCopy
      <3>2. \A i \in 1 .. m : i \in 1 .. n
        BY <1>a, <2>c
      <3>3. data' = Offered(k, n)
        BY <3>1, <3>2 DEF Offered, Bytes, InBuffer
      <3>4. CASE n > DataSize
        BY <2>a, <3>1, <3>3, <3>4 DEF Arrived, Offered, Bytes
      <3>5. CASE ~(n > DataSize)
        <4>1. n <= DataSize
          BY <1>a, <2>c, <3>5
        <4> QED
          BY <2>a, <3>1, <3>3, <3>5, <4>1 DEF Arrived, Offered, Bytes
      <3> QED
        BY <3>4, <3>5
    <2>4. CASE RecvClear
      <3>1. data' = Offered(k, n) /\ recvSize' = 0 /\ app' = "return"
        BY <2>4, <2>b DEF RecvClear, AppStep, Offered, Bytes
      <3> QED
        BY <2>a, <3>1 DEF Arrived, Offered, Bytes
    <2>5. CASE RecvMove \/ RecvLoad \/ RecvStore
      <3>1. n > DataSize /\ data' = Offered(k, n) /\ app' \in {"load", "store", "return"}
        BY <2>5, <2>b DEF RecvMove, RecvLoad, RecvStore, AppStep, Offered, Bytes
      <3>2. ~(n <= DataSize)
        BY <1>a, <2>c, <3>1
      <3> QED
        BY <2>a, <3>1, <3>2 DEF Arrived, Offered, Bytes
    <2>6. CASE Return
      <3>1. /\ data = Offered(k, n) /\ (n <= DataSize => recvSize' = 0)
            /\ app' = "idle" /\ answer' = [answer EXCEPT ![k] = data]
        BY <2>6, <2>b DEF Return, AppStep, bufVars
      <3>2. answer'[k] = Offered(k, n)
        BY <3>1 DEF TypeOK
      <3> QED
        BY <2>a, <3>1, <3>2 DEF Arrived, Offered, Bytes
    <2> QED
      BY <2>1, <2>2, <2>3, <2>4, <2>5, <2>6 DEF Application
  <1> QED
    BY <1>1, <1>2

(* A call that is made when nothing is under way starts from an empty       *)
(* buffer, also when the call before it was answered.                       *)
LEMMA CallCalm ==
  ASSUME TypeOK, Answers, CalmCall, Call
  PROVE  CalmCall'
  <1> SUFFICES ASSUME call + 1 \in calm' PROVE OnItsWay(call)'
    BY DEF CalmCall, Call
  <1>1. call + 1 \notin calm /\ call \in Nat /\ call + 1 \in 1 .. NumCalls
    BY DEF Answers, TypeOK, Call
  <1>2. Quiet
    BY <1>1 DEF Call
  <1>3. recvSize = 0
    <2>1. CASE call \in calm /\ Len(answer[call]) \in 1 .. DataSize - 1
      <3>1. CASE OnItsWay(call)
        BY <3>1 DEF OnItsWay
      <3>2. CASE Arrived(call)
        <4>1. Len(answer[call]) # 0
          BY <2>1
        <4>2. PICK n \in Lengths : \/ answer[call] = <<>>
                                   \/ answer[call] = Offered(call, n) /\ (n <= DataSize => recvSize = 0)
          BY <3>2 DEF Arrived, Call, AppStep
        <4>3. n \in Nat /\ DataSize \in Nat
          OBVIOUS
        <4>4. n > DataSize => Len(Offered(call, n)) = DataSize
          BY <4>3 DEF Offered, Bytes
        <4>5. ~(n > DataSize)
          BY <2>1, <4>1, <4>2, <4>3, <4>4
        <4> QED
          BY <4>1, <4>2, <4>3, <4>5
      <3> QED
        BY <2>1, <3>1, <3>2 DEF CalmCall
    <2> QED
      BY <1>2, <2>1 DEF Quiet
  <1>4. /\ queued' = <<call'>> /\ requests' = <<>> /\ inbound' = <<>>
        /\ svc' \in {"loop", "epoll", "recv", "next", "dead"}
        /\ recvSize' = 0 /\ app' = "size" /\ call' = call + 1 /\ answer' = answer
    BY <1>2, <1>3, Single DEF Call, Quiet, AppStep, bufVars, svcVars
  <1>5. answer[call + 1] = <<>>
    BY <1>1 DEF Answers
  <1> QED
    BY <1>4, <1>5 DEF OnItsWay, AtRest

(* The server answers, and a notice disturbs. *)
LEMMA ServerCalm ==
  ASSUME TypeOK, CalmCall, Reply \/ Notice
  PROVE  CalmCall'
  <1> SUFFICES ASSUME call' \in calm' PROVE OnItsWay(call)' \/ Arrived(call)'
    BY DEF CalmCall
  <1>1. Reply
    BY DEF Notice
  <1>2. UNCHANGED <<bufVars, svcVars, appVars, queued>> /\ requests # <<>> /\ call \in calm
    BY <1>1 DEF Reply, appVars
  <1>3. OnItsWay(call) /\ queued = <<>> /\ requests = <<call>> /\ inbound = <<>> /\ AtRest
    BY <1>2 DEF CalmCall, OnItsWay, Arrived
  <1>4. requests' = <<>> /\ \E n \in Lengths : inbound' = <<[id |-> call, len |-> n]>>
    BY <1>1, <1>3, Single DEF Reply, Deliver
  <1> QED
    BY <1>2, <1>3, <1>4 DEF OnItsWay, AtRest, bufVars, svcVars, appVars

LEMMA CalmNext ==
  ASSUME TypeOK, Sizes, Answers, CalmCall, Next
  PROVE  CalmCall'
  <1>1. CASE Service
    <2>1. UNCHANGED <<call, calm>>
      BY <1>1 DEF Service, SvcMove, SvcLoop, SvcWake, SvcSend, SvcRecv, SvcRecvAgain, SvcDrained,
                  SvcFits, SvcSleep, SvcAwake, SvcCopy, SvcLoad, SvcStore, SvcEnd, appVars
    <2>2. ASSUME call \in calm PROVE OnItsWay(call)' \/ Arrived(call)'
      <3> DEFINE k == call
      <3> HIDE DEF k
      <3> QED
        BY <1>1, <2>1, <2>2, ServiceCalm DEF CalmCall
    <2> QED
      BY <2>1, <2>2 DEF CalmCall
  <1>2. CASE Application \/ TimeOut
    <2>1. UNCHANGED <<call, calm>>
      BY <1>2 DEF Application, TimeOut, RecvSize, Poll, RecvCopy, RecvClear, RecvMove, RecvLoad,
                  RecvStore, Return
    <2>2. ASSUME call \in calm PROVE OnItsWay(call)' \/ Arrived(call)'
      <3>1. call \in 1 .. NumCalls
        BY <2>2 DEF TypeOK
      <3> QED
        BY <1>2, <2>1, <2>2, <3>1, ApplicationCalm DEF CalmCall
    <2> QED
      BY <2>1, <2>2 DEF CalmCall
  <1> QED
    BY <1>1, <1>2, CallCalm, ServerCalm DEF Next

LEMMA AnswersNext ==
  ASSUME TypeOK, Sizes, Answers, CalmCall, Next
  PROVE  Answers'
  <1> USE DEF Answers, AnswersItsCall
  <1>a. /\ answer \in [1 .. NumCalls -> Seq(Messages \X Nat \cup {None})]
        /\ call \in 0 .. NumCalls /\ calm \subseteq 1 .. NumCalls
    BY DEF TypeOK
  <1>1. CASE Return
    <2>1. /\ app = "return" /\ answer' = [answer EXCEPT ![call] = data] /\ UNCHANGED <<call, calm>>
      BY <1>1 DEF Return, AppStep
    <2>2. call \in calm => \E n \in Lengths : data = Offered(call, n)
      BY <2>1 DEF CalmCall, OnItsWay, Arrived
    <2>3. ASSUME NEW k \in calm, answer'[k] # <<>>
          PROVE  \E n \in Lengths : answer'[k] = Bytes(k, IF n > DataSize THEN DataSize ELSE n)
      BY <1>a, <2>1, <2>2, <2>3 DEF Offered
    <2>4. \A k \in 1 .. NumCalls : k > call => k # call
      BY <1>a
    <2>5. \A k \in 1 .. NumCalls : k > call => answer'[k] = <<>>
      BY <1>a, <2>1, <2>4
    <2> QED
      BY <2>1, <2>3, <2>5 DEF Bytes
  <1>2. CASE Call
    <2>1. /\ answer' = answer /\ call' = call + 1 /\ calm' \subseteq calm \cup {call + 1}
          /\ call + 1 \in 1 .. NumCalls
      BY <1>2, <1>a DEF Call
    <2>2. answer[call + 1] = <<>>
      BY <1>a, <2>1
    <2>3. \A k \in calm' : k <= call'
      BY <1>a, <2>1
    <2>4. \A k \in 1 .. NumCalls : k > call' => answer'[k] = <<>>
      BY <1>a, <2>1
    <2> QED
      BY <2>1, <2>2, <2>3, <2>4 DEF Bytes
  <1>3. CASE ~Return /\ ~Call
    <2>1. UNCHANGED <<answer, call>> /\ calm' \subseteq calm
      BY <1>3 DEF Next, Service, SvcMove, SvcLoop, SvcWake, SvcSend, SvcRecv, SvcRecvAgain,
                  SvcDrained, SvcFits, SvcSleep, SvcAwake, SvcCopy, SvcLoad, SvcStore, SvcEnd,
                  Application, TimeOut, RecvSize, Poll, RecvCopy, RecvClear, RecvMove, RecvLoad,
                  RecvStore, Reply, Notice, appVars
    <2> QED
      BY <2>1 DEF Bytes
  <1> QED
    BY <1>1, <1>2, <1>3

-----------------------------------------------------------------------------
(* The client: the buffer and the calls. *)
BufferInv ==
  /\ TypeOK /\ Sizes /\ Received /\ (conn # "freed" => Copied)
  /\ Answers /\ (conn \notin {"cancelled", "freed"} => CalmCall)

LEMMA BufferInit == ClientInit => BufferInv
  BY TypeInit, SizesInit, ReceivedInit, AnswersInit DEF ClientInit, BufferInv

(* Of WebSocket nothing changes, or only what the service thread is at. *)
LEMMA BufferSame ==
  ASSUME BufferInv, UNCHANGED <<bufVars, netVars, msg, sreg, appVars>>,
         svc' = svc \/ svc' = "dead",
         conn = "freed" => conn' = "freed",
         conn \in {"cancelled", "freed"} \/ svc' # svc => conn' \in {"cancelled", "freed"}
  PROVE  BufferInv'
  <1> USE DEF BufferInv, bufVars, netVars, appVars
  <1>1. TypeOK'
    BY DEF TypeOK
  <1>2. Sizes' /\ Received'
    BY DEF Sizes, Received, OnlyReceivedBytes
  <1>3. conn' # "freed" => Copied'
    BY DEF Copied, Filled
  <1>4. Answers'
    BY DEF Answers, AnswersItsCall, Bytes
  <1>5. conn' \notin {"cancelled", "freed"} => CalmCall'
    BY ZenonT(60) DEF CalmCall, OnItsWay, Arrived, AtRest, InBuffer, Offered, Bytes
  <1> QED
    BY <1>1, <1>2, <1>3, <1>4, <1>5

LEMMA BufferNext ==
  ASSUME ClientTypeOK, Connected, BufferInv, ClientNext
  PROVE  BufferInv'
  <1>1. CASE ConnectTo \/ SendHandshake \/ RecvHandshake \/ CheckKey \/ CreateThread \/ SvcUsesFreed
    <2>1. /\ UNCHANGED vars
          /\ conn = "freed" => conn' = "freed"
          /\ conn # "cancelled"
      BY <1>1 DEF ConnectTo, SendHandshake, RecvHandshake, CheckKey, CreateThread, SvcUsesFreed,
                  HandshakeFails, ConnStep
    <2> QED
      BY <2>1, BufferSame DEF vars, svcVars
  <1>2. CASE ClientNew
    <2>1. /\ conn = "new" /\ call = 0 /\ UNCHANGED <<bufVars, svcVars, appVars, queued, requests>>
          /\ conn' \notin {"cancelled", "freed"}
      BY <1>2 DEF ClientNew, ConnStep, Connected, netVars
    <2>2. notices' \in 0 .. NumNotices /\ inbound' \in Seq([id : Messages, len : Lengths])
      <3>1. CASE UNCHANGED netVars
        BY <3>1 DEF BufferInv, TypeOK, netVars
      <3>2. CASE ~UNCHANGED netVars
        <4>1. /\ ~HeaderIn(seen - 1) /\ HeaderIn(seen) /\ notices' = Len(Waits)
              /\ \E n \in [1 .. Len(Waits) -> Lengths] :
                   inbound' = [i \in 1 .. Len(Waits) |-> [id |-> Waits[i], len |-> n[i]]]
          BY <1>2, <3>2, <2>1 DEF ClientNew, Connected
        <4>2. /\ seen \in 0 .. Len(response) /\ response \in Responses
              /\ Len(response) \in Nat
          BY HandshakeAssumption DEF ClientTypeOK
        <4>3. EndsAt(seen) /\ seen \in 2 .. Len(response)
          <5>1. PICK i \in 1 .. seen : EndsAt(i)
            BY <4>1 DEF HeaderIn
          <5>2. i = seen
            BY <4>1, <4>2, <5>1 DEF HeaderIn
          <5> QED
            BY <4>2, <5>1, <5>2 DEF EndsAt
        <4>4. Len(response) - seen \in 0 .. NumNotices
          BY <4>2, <4>3, NoticesAssumption DEF EndsAt
        <4>5. Len(Waits) = Len(response) - seen
              /\ \A i \in 1 .. Len(Waits) : Waits[i] = NumCalls + i
          BY <4>4 DEF Waits
        <4>6. \A i \in 1 .. Len(Waits) : Waits[i] \in Messages
          BY <4>4, <4>5 DEF Messages
        <4>7. inbound' \in Seq([id : Messages, len : Lengths])
          <5>1. PICK n \in [1 .. Len(Waits) -> Lengths] :
                  inbound' = [i \in 1 .. Len(Waits) |-> [id |-> Waits[i], len |-> n[i]]]
            BY <4>1
          <5>2. Len(Waits) \in Nat
            BY <4>4, <4>5
          <5>3. \A i \in 1 .. Len(Waits) :
                  [id |-> Waits[i], len |-> n[i]] \in [id : Messages, len : Lengths]
            BY <4>6
          <5> QED
            BY <5>1, <5>2, <5>3
        <4> QED
          BY <4>1, <4>4, <4>5, <4>7
      <3> QED
        BY <3>1, <3>2
    <2>3. TypeOK'
      BY <2>1, <2>2 DEF BufferInv, TypeOK, bufVars, svcVars, appVars
    <2>4. Sizes' /\ Received' /\ Copied'
      BY <2>1 DEF BufferInv, Sizes, Received, OnlyReceivedBytes, Copied, Filled,
                  bufVars, svcVars, appVars
    <2>5. Answers' /\ CalmCall'
      BY <2>1 DEF BufferInv, TypeOK, Answers, AnswersItsCall, Bytes, CalmCall, appVars
    <2> QED
      BY <2>3, <2>4, <2>5 DEF BufferInv
  <1>3. CASE Up
    <2>1. conn = "up" /\ conn' = "up" /\ Next
      BY <1>3 DEF Up, connVars
    <2>2. TypeOK /\ Sizes /\ Received /\ OnlyReceivedBytes /\ Copied /\ Answers /\ CalmCall
      BY <2>1 DEF BufferInv, Received
    <2>3. TypeOK' /\ Sizes' /\ Received' /\ Copied' /\ Answers' /\ CalmCall'
      BY <2>1, <2>2, TypeNext, SizesNext, ReceivedNext, CopiedNext, AnswersNext, CalmNext
    <2> QED
      BY <2>3 DEF BufferInv
  <1>4. CASE FreeCancel
    <2>1. /\ UNCHANGED <<bufVars, netVars, msg, sreg, appVars>>
          /\ svc' = svc \/ svc' = "dead"
          /\ conn = "up" /\ conn' = "cancelled"
      BY <1>4 DEF FreeCancel, ConnStep
    <2> QED
      BY <2>1, BufferSame
  <1>5. CASE SvcDoomed
    <2>1. conn = "cancelled" /\ conn' = "cancelled" /\ Service /\ Next
      BY <1>5 DEF SvcDoomed, connVars, Next
    <2>2. TypeOK /\ Sizes /\ Received /\ OnlyReceivedBytes /\ Copied /\ Answers
      BY <2>1 DEF BufferInv, Received
    <2>3. TypeOK' /\ Sizes' /\ Received' /\ Copied'
      BY <2>1, <2>2, TypeNext, SizesNext, ReceivedNext, CopiedNext
    <2>4. UNCHANGED appVars
      BY <2>1 DEF Service, SvcMove, SvcLoop, SvcWake, SvcSend, SvcRecv, SvcRecvAgain, SvcDrained,
                  SvcFits, SvcSleep, SvcAwake, SvcCopy, SvcLoad, SvcStore, SvcEnd
    <2>5. Answers'
      BY <2>2, <2>4 DEF Answers, AnswersItsCall, Bytes, appVars
    <2> QED
      BY <2>1, <2>3, <2>5 DEF BufferInv
  <1>6. CASE SvcCancelled
    <2>1. /\ UNCHANGED <<bufVars, netVars, msg, sreg, appVars, connVars>> /\ svc' = "dead"
          /\ conn \in {"cancelled", "freed"}
      BY <1>6 DEF SvcCancelled, Dies, Connected
    <2> QED
      BY <2>1, BufferSame DEF connVars
  <1>7. CASE FreeContext
    <2>1. /\ recvBuf' = [i \in DOMAIN recvBuf |-> None] /\ recvSize' = 0 /\ queued' = <<>>
          /\ UNCHANGED <<requests, inbound, notices, svcVars, appVars>>
          /\ app = "idle" /\ conn' = "freed"
      BY <1>7 DEF FreeContext, ConnStep, Connected
    <2>2. TypeOK'
      <3>1. <<>> \in Seq(Messages) /\ 0 \in 0 .. Capacity
        OBVIOUS
      <3> QED
        BY <2>1, <3>1 DEF BufferInv, TypeOK, svcVars, appVars
    <2>3. Sizes'
      <3>1. svc \in {"copy", "load", "store"} => msg.len \in Nat
        BY MessageHandled DEF BufferInv
      <3>2. svc \in {"copy", "load"} => 0 + msg.len <= Capacity
        BY <3>1 DEF BufferInv, Sizes, TypeOK
      <3> QED
        BY <2>1, <3>2 DEF BufferInv, Sizes, TypeOK, svcVars, appVars
    <2>4. Received' /\ Answers'
      <3>1. Answers'
        BY <2>1 DEF BufferInv, Answers, AnswersItsCall, Bytes, appVars
      <3>2. 0 .. recvSize' - 1 = {}
        BY <2>1
      <3>3. Received'
        BY <2>1, <3>2 DEF BufferInv, Received, OnlyReceivedBytes, appVars
      <3> QED
        BY <3>1, <3>3
    <2> QED
      BY <2>1, <2>2, <2>3, <2>4 DEF BufferInv
  <1> QED
    BY <1>1, <1>2, <1>3, <1>4, <1>5, <1>6, <1>7 DEF ClientNext, Connect

-----------------------------------------------------------------------------
(* The client: the connection, the handshake and the freeing. *)
ConnectionInv ==
  /\ conn \in {"dial", "request", "header", "key", "new", "create", "up",
               "cancelled", "freed", "failed"}
  /\ response \in Responses /\ seen \in 0 .. Len(response)
  /\ seen < HeaderSize
  /\ fdOpen \in BOOLEAN /\ fault \in BOOLEAN
  /\ svcAt \in {"none", "waiting", "working"}
  /\ Connected /\ UpgradesCleanly /\ ClientFaultsKnown

LEMMA IndInvParts == IndInv <=> BufferInv /\ ConnectionInv
  BY DEF IndInv, BufferInv, ConnectionInv, ClientTypeOK

LEMMA ConnectionNext ==
  ASSUME BufferInv, ConnectionInv, ClientNext
  PROVE  ConnectionInv'
  <1>a. /\ Len(response) \in Nat /\ seen \in Nat /\ HeaderSize \in Nat /\ BufSize \in Nat \ {0}
        /\ response \in Responses /\ seen <= Len(response) /\ seen < HeaderSize
    BY HandshakeAssumption DEF ConnectionInv
  <1> DEFINE clean == EndsAt(seen) /\ ~HeaderIn(seen - 1)
             knows == \E i \in 1 .. seen : response[i] = "right"
                                          /\ \A j \in 1 .. i : response[j] # "wrong"
             right == \E i \in 1 .. seen : response[i] = "right"
             frame == \E i \in 1 .. seen : response[i] = "frame"
             full  == Len(response) - seen >= BufSize
  <1>b. UNCHANGED <<response, seen>> =>
          /\ clean' <=> clean
          /\ knows' <=> knows
          /\ right' <=> right
          /\ frame' <=> frame
          /\ full' <=> full
          /\ HeaderIn(seen)' <=> HeaderIn(seen)
          /\ AcceptsKey' <=> AcceptsKey
    BY DEF HeaderIn, EndsAt, AcceptsKey
  <1>c. /\ AcceptsKey => knows
        /\ knows => right
    BY <1>a DEF AcceptsKey
  <1>d. HeaderIn(seen) => clean \/ HeaderIn(seen - 1)
    <2>1. ASSUME NEW i \in 1 .. seen, EndsAt(i) PROVE EndsAt(seen) \/ i \in 1 .. seen - 1
      BY <1>a, <2>1
    <2> QED
      BY <2>1 DEF HeaderIn
  <1>e. HeaderIn(seen - 1) => frame
    <2> SUFFICES ASSUME NEW i \in 1 .. seen - 1, EndsAt(i) PROVE frame
      BY DEF HeaderIn
    <2>1. i \in 2 .. Len(response) /\ seen \in i + 1 .. Len(response) /\ seen \in 1 .. seen
      BY <1>a DEF EndsAt
    <2>2. response[seen] = "frame"
      BY <1>a, <2>1, NoticesAssumption DEF EndsAt
    <2> QED
      BY <2>1, <2>2
  <1>f. /\ Connected
        /\ conn \in {"create", "up", "cancelled", "freed"} => clean /\ knows
        /\ conn = "failed" /\ fdOpen => right
        /\ fault => \/ conn = "header" /\ full
                    \/ conn = "new" /\ frame
                    \/ conn = "create"
                    \/ conn = "freed" /\ svcAt = "working"
    BY DEF ConnectionInv, UpgradesCleanly, ClientFaultsKnown
  <1>g. /\ conn \in {"dial", "request", "header", "key", "new", "create", "up",
                     "cancelled", "freed", "failed"}
        /\ fdOpen \in BOOLEAN /\ fault \in BOOLEAN
        /\ svcAt \in {"none", "waiting", "working"}
    BY DEF ConnectionInv
  <1> SUFFICES /\ conn' \in {"dial", "request", "header", "key", "new", "create", "up",
                             "cancelled", "freed", "failed"}
               /\ response' = response /\ seen' \in 0 .. Len(response) /\ seen' < HeaderSize
               /\ fdOpen' \in BOOLEAN /\ fault' \in BOOLEAN
               /\ svcAt' \in {"none", "waiting", "working"}
               /\ Connected'
               /\ conn' \in {"create", "up", "cancelled", "freed"} => clean' /\ knows'
               /\ conn' = "failed" /\ fdOpen' => right'
               /\ fault' => \/ conn' = "header" /\ full'
                            \/ conn' = "new" /\ frame'
                            \/ conn' = "create"
                            \/ conn' = "freed" /\ svcAt' = "working"
    BY <1>a DEF ConnectionInv, UpgradesCleanly, ClientFaultsKnown
  <1> HIDE DEF clean, knows, right, frame, full
  <1> USE DEF Connected, ConnStep, HandshakeFails
  <1>1. CASE ConnectTo \/ SendHandshake
    <2>1. /\ conn \in {"dial", "request"} /\ ~fault /\ fault' = fault
          /\ UNCHANGED <<call, app, svc, notices, inbound, response, seen, svcAt>>
          /\ \/ conn' = "failed" /\ ~fdOpen' /\ fdOpen' \in BOOLEAN
             \/ conn' \in {"request", "header"} /\ fdOpen' \in BOOLEAN
      <3>1. CASE ConnectTo
        <4>1. conn = "dial" /\ fdOpen = FALSE
          BY <3>1, <1>f, <1>g DEF ConnectTo
        <4>2. fdOpen' \in BOOLEAN
          BY <3>1, <4>1, Zenon DEF ConnectTo
        <4> QED
          BY <3>1, <4>1, <4>2 DEF ConnectTo, vars, netVars, svcVars, appVars
      <3>2. CASE SendHandshake
        <4>1. fdOpen' \in BOOLEAN
          BY <3>2, <1>g, Zenon DEF SendHandshake
        <4> QED
          BY <3>2, <4>1 DEF SendHandshake, vars, netVars, svcVars, appVars
      <3> QED
        BY <1>1, <3>1, <3>2
    <2>2. Connected'
      BY <2>1, <1>f
    <2>3. seen' \in 0 .. Len(response) /\ seen' < HeaderSize
      BY <2>1, <1>a
    <2> QED
      BY <2>1, <2>2, <2>3, <1>g
  <1>3. CASE RecvHandshake
    <2>1. /\ conn = "header" /\ ~fault /\ UNCHANGED <<vars, response, svcAt>>
          /\ \/ conn' = "failed" /\ fdOpen' = FALSE /\ UNCHANGED <<seen, fault>>
             \/ conn' = "header" /\ fault' = TRUE /\ UNCHANGED <<seen, fdOpen>> /\ full
             \/ /\ UNCHANGED <<fdOpen, fault>>
                /\ seen' \in 0 .. Len(response) /\ seen' < HeaderSize
                /\ conn' = IF HeaderIn(seen') THEN "key" ELSE "header"
      BY <1>3, <1>a DEF RecvHandshake, full
    <2>2. HeaderIn(seen)' <=> HeaderIn(seen')
      BY <2>1 DEF HeaderIn, EndsAt
    <2>3. UNCHANGED <<call, app, svc, notices, inbound>>
      BY <2>1 DEF vars, netVars, svcVars, appVars
    <2>4. Connected'
      BY <2>1, <2>2, <2>3, <1>f
    <2>5. seen' \in 0 .. Len(response) /\ seen' < HeaderSize
      BY <2>1, <1>a
    <2>6. fdOpen' \in BOOLEAN /\ fault' \in BOOLEAN /\ (conn' = "failed" => ~fdOpen')
      BY <2>1, <1>g
    <2>7. fault' => conn' = "header" /\ full'
      BY <2>1, <1>b
    <2>8. conn' \in {"failed", "header", "key"}
      BY <2>1
    <2> QED
      BY <2>1, <2>4, <2>5, <2>6, <2>7, <2>8, <1>g
  <1>4. CASE CheckKey
    <2>1. /\ conn = "key" /\ ~fault /\ fault' = fault
          /\ UNCHANGED <<call, app, svc, notices, inbound, response, seen, svcAt>>
          /\ \/ conn' = "failed" /\ ~fdOpen' /\ fdOpen' \in BOOLEAN
             \/ conn' = "new" /\ fdOpen' = fdOpen /\ AcceptsKey
      BY <1>4 DEF CheckKey, vars, netVars, svcVars, appVars
    <2>2. Connected'
      BY <2>1, <1>b, <1>f
    <2>3. seen' \in 0 .. Len(response) /\ seen' < HeaderSize /\ fdOpen' \in BOOLEAN
      BY <2>1, <1>a, <1>g
    <2> QED
      BY <2>1, <2>2, <2>3, <1>g
  <1>5. CASE ClientNew
    <2>1. /\ conn = "new" /\ ~fault /\ UNCHANGED <<svcVars, appVars, response, seen, fdOpen, svcAt>>
          /\ \/ conn' = "failed" /\ UNCHANGED <<netVars, fault>>
             \/ HeaderIn(seen - 1) /\ conn' = "new" /\ fault' = TRUE /\ UNCHANGED netVars
             \/ ~HeaderIn(seen - 1) /\ conn' = "create" /\ UNCHANGED fault
      BY <1>5 DEF ClientNew
    <2>2. Connected'
      BY <2>1, <1>b, <1>f DEF netVars, svcVars, appVars
    <2>3. /\ seen' \in 0 .. Len(response) /\ seen' < HeaderSize
          /\ fdOpen' \in BOOLEAN /\ fault' \in BOOLEAN
      <3>1. seen' \in 0 .. Len(response) /\ seen' < HeaderSize
        BY <2>1, <1>a
      <3>2. fdOpen' \in BOOLEAN /\ fault' \in BOOLEAN
        BY <2>1, <1>g, Zenon
      <3> QED
        BY <3>1, <3>2
    <2>4. knows' /\ right'
      BY <2>1, <1>b, <1>c, <1>f
    <2>5. conn' = "create" => clean'
      BY <2>1, <1>b, <1>d, <1>f
    <2>6. fault' => conn' = "new" /\ frame'
      BY <2>1, <1>b, <1>e
    <2>7. conn' \in {"failed", "new", "create"} /\ svcAt' = svcAt /\ response' = response
      BY <2>1
    <2> QED
      BY <2>2, <2>3, <2>4, <2>5, <2>6, <2>7, <1>g
  <1>6. CASE CreateThread
    <2>1. /\ conn = "create" /\ UNCHANGED <<call, app, svc, notices, inbound, response, seen, fdOpen, svcAt>>
          /\ \/ conn' = "up" /\ UNCHANGED fault /\ ~fault
             \/ conn' = "create" /\ fault' = TRUE
      BY <1>6 DEF CreateThread, vars, netVars, svcVars, appVars
    <2>2. Connected'
      BY <2>1, <1>f
    <2>3. clean' /\ knows'
      BY <2>1, <1>b, <1>f
    <2>4. /\ seen' \in 0 .. Len(response) /\ seen' < HeaderSize
          /\ fdOpen' \in BOOLEAN /\ fault' \in BOOLEAN
      <3>1. seen' \in 0 .. Len(response) /\ seen' < HeaderSize
        BY <2>1, <1>a
      <3>2. fdOpen' \in BOOLEAN /\ fault' \in BOOLEAN
        BY <2>1, <1>g, Zenon
      <3> QED
        BY <3>1, <3>2
    <2>5. fault' => conn' = "create"
      BY <2>1
    <2>6. conn' \in {"create", "up"} /\ svcAt' = svcAt /\ response' = response
      BY <2>1
    <2> QED
      BY <2>2, <2>3, <2>4, <2>5, <2>6, <1>g
  <1>7. CASE Up
    BY <1>7, <1>a, <1>b, <1>f, <1>g DEF Up, connVars
  <1>8. CASE FreeCancel
    BY <1>8, <1>a, <1>b, <1>f, <1>g DEF FreeCancel, appVars, netVars, Waiting
  <1>9. CASE SvcDoomed
    <2>1. UNCHANGED appVars /\ svc # "dead"
      BY <1>9 DEF SvcDoomed, Service, SvcMove, SvcLoop, SvcWake, SvcSend, SvcRecv, SvcRecvAgain,
                  SvcDrained, SvcFits, SvcSleep, SvcAwake, SvcCopy, SvcLoad, SvcStore, SvcEnd,
                  SvcStep
    <2> QED
      BY <1>9, <2>1, <1>a, <1>b, <1>f, <1>g DEF SvcDoomed, connVars, appVars
  <1>10. CASE SvcCancelled
    BY <1>10, <1>a, <1>b, <1>f, <1>g DEF SvcCancelled, Dies, connVars, appVars, netVars
  <1>11. CASE FreeContext
    BY <1>11, <1>a, <1>b, <1>f, <1>g DEF FreeContext, svcVars, appVars
  <1>12. CASE SvcUsesFreed
    BY <1>12, <1>a, <1>b, <1>f, <1>g DEF SvcUsesFreed, vars, netVars, svcVars, appVars
  <1> QED
    BY <1>1, <1>3, <1>4, <1>5, <1>6, <1>7, <1>8, <1>9, <1>10, <1>11, <1>12
       DEF ClientNext, Connect

LEMMA ConnectionInit == ClientInit => ConnectionInv
  <1> SUFFICES ASSUME ClientInit PROVE ConnectionInv
    OBVIOUS
  <1>1. /\ response \in Responses /\ Len(response) \in Nat /\ seen = 0 /\ HeaderSize \in Nat \ {0}
        /\ conn = "dial" /\ fdOpen = FALSE /\ fault = FALSE /\ svcAt = "none"
    BY HandshakeAssumption DEF ClientInit
  <1>2. notices = 0 /\ inbound = <<>> /\ call = 0 /\ app = "idle" /\ svc = "loop"
    BY DEF ClientInit, Init
  <1>3. Connected /\ UpgradesCleanly /\ ClientFaultsKnown
    BY <1>1, <1>2 DEF Connected, UpgradesCleanly, ClientFaultsKnown
  <1>4. seen \in 0 .. Len(response) /\ seen < HeaderSize
    BY <1>1
  <1>5. fdOpen \in BOOLEAN /\ fault \in BOOLEAN
    BY <1>1, Zenon
  <1> QED
    BY <1>1, <1>3, <1>4, <1>5 DEF ConnectionInv

LEMMA IndInvInit == ClientInit => IndInv
  BY BufferInit, ConnectionInit, IndInvParts

LEMMA IndInvNext == IndInv /\ [ClientNext]_clientVars => IndInv'
  <1>1. ASSUME IndInv, ClientNext PROVE IndInv'
    <2>1. BufferInv /\ ConnectionInv
      BY <1>1, IndInvParts
    <2>2. ClientTypeOK /\ Connected
      BY <2>1 DEF BufferInv, ConnectionInv, ClientTypeOK
    <2>3. BufferInv' /\ ConnectionInv'
      BY <1>1, <2>1, <2>2, BufferNext, ConnectionNext
    <2> QED
      BY <2>3 DEF IndInv, BufferInv, ConnectionInv, ClientTypeOK
  <1>2. ASSUME BufferInv, ConnectionInv, UNCHANGED clientVars PROVE BufferInv' /\ ConnectionInv'
    <2>1. BufferInv'
      BY <1>2, BufferSame DEF clientVars, vars, svcVars, connVars, BufferInv, ConnectionInv, Connected
    <2>2. ConnectionInv'
      BY <1>2 DEF clientVars, vars, netVars, svcVars, appVars, connVars, ConnectionInv, Connected,
                  UpgradesCleanly, ClientFaultsKnown, HeaderIn, EndsAt, AcceptsKey
    <2> QED
      BY <2>1, <2>2
  <1>3. ASSUME IndInv, UNCHANGED clientVars PROVE IndInv'
    <2>1. BufferInv' /\ ConnectionInv'
      BY <1>2, <1>3, IndInvParts
    <2> QED
      BY <2>1 DEF IndInv, BufferInv, ConnectionInv, ClientTypeOK
  <1> QED
    BY <1>1, <1>3

-----------------------------------------------------------------------------
(* The invariants of the two threads, of the call that nothing disturbs and *)
(* of the life of the connection hold together.                             *)
THEOREM Inductive == ClientSpec => []IndInv
  BY IndInvInit, IndInvNext, PTL DEF ClientSpec

(* Every variable keeps its type; recv_buf never overflows, although its    *)
(* room is measured, filled and counted in separate steps.                  *)
THEOREM TypeCorrect == ClientSpec => []ClientTypeOK
  <1>1. IndInv => ClientTypeOK
    BY DEF IndInv
  <1> QED
    BY <1>1, Inductive, PTL

(* However the unlocked accesses interleave, no caller is given a byte that *)
(* was never received.                                                      *)
THEOREM BytesReceived == ClientSpec => []OnlyReceivedBytes
  <1>1. IndInv => OnlyReceivedBytes
    BY DEF IndInv, Received
  <1> QED
    BY <1>1, Inductive, PTL

(* A call that is made when nothing is under way, and that no notice        *)
(* disturbs, returns the beginning of its own answer, or nothing.           *)
THEOREM AnswersMatch == ClientSpec => []AnswersItsCall
  <1>1. IndInv => AnswersItsCall
    BY DEF IndInv, Answers
  <1> QED
    BY <1>1, Inductive, PTL

(* However the reads cut the handshake, the connection comes up only after  *)
(* the whole header, of a server that knows the key, and nothing else.      *)
THEOREM UpgradeClean == ClientSpec => []UpgradesCleanly
  <1>1. IndInv => UpgradesCleanly
    BY DEF IndInv
  <1> QED
    BY <1>1, Inductive, PTL

(* Undefined behaviour comes from the four places that ClientFaultsKnown    *)
(* lists, and from no other.                                                *)
THEOREM FaultsListed == ClientSpec => []ClientFaultsKnown
  <1>1. IndInv => ClientFaultsKnown
    BY DEF IndInv
  <1> QED
    BY <1>1, Inductive, PTL
=============================================================================
