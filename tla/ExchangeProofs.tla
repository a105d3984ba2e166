--------------------------- MODULE ExchangeProofs ---------------------------
(***************************************************************************)
(* Proofs about Exchange, for any requests, notify channels and queue      *)
(* capacities.                                                             *)
(***************************************************************************)
EXTENDS Exchange, SequenceTheorems, TLAPS

-----------------------------------------------------------------------------
(* Type correctness.                                                       *)

\* A blocking call holds a notify channel until it returns; a stream request
\* never waits.
HoldsChan ==
  \A r \in Requests :
    IF r \in Streams THEN pc[r] # "waiting"
    ELSE pc[r] \in {"ready", "pushed", "sending", "waiting"}
           => respChan[r] \in Chans

\* The bounded queues of tcpWriteQueue, receivedQueue and TCP: what Append
\* behind HasRoom and Tail leave of them.
LEMMA QueueMoves ==
  ASSUME NEW cap \in Nat, NEW q \in Queue(cap)
  PROVE  /\ <<>> \in Queue(cap)
         /\ \A x \in Requests : HasRoom(q, cap) => Append(q, x) \in Queue(cap)
         /\ q # <<>> => Head(q) \in Requests /\ Tail(q) \in Queue(cap)
<1>1. <<>> \in Queue(cap)
  BY EmptySeq DEF Queue
<1>2. ASSUME NEW x \in Requests, HasRoom(q, cap) PROVE Append(q, x) \in Queue(cap)
  BY <1>2, AppendProperties DEF Queue, HasRoom
<1>3. ASSUME q # <<>> PROVE Head(q) \in Requests /\ Tail(q) \in Queue(cap)
  BY <1>3, HeadTailProperties DEF Queue
<1> QED  BY <1>1, <1>2, <1>3

\* The deferred function of DoRequest leaves the notify channels well typed.
LEMMA ReleaseTypes ==
  ASSUME ChanTypes, NEW r \in Requests, ReleaseNotifyChan(r)
  PROVE  ChanTypes'
<1>1. CASE respChan[r] = None
  BY <1>1 DEF ChanTypes, ReleaseNotifyChan, chanVars
<1>2. CASE respChan[r] # None
  BY <1>2 DEF ChanTypes, ReleaseNotifyChan
<1> QED  BY <1>1, <1>2

\* Every step of Exchange keeps TypeOK.
LEMMA TypeStep == TypeOK /\ HoldsChan /\ [Next]_vars => TypeOK'
<1> SUFFICES ASSUME TypeOK, HoldsChan, [Next]_vars PROVE TypeOK'
  OBVIOUS
<1> USE ExchangeAssumption DEF TypeOK, callVars, chanVars, wayVars, loopVars,
      openVars
<1>1. ASSUME NEW r \in Requests, Begin(r) PROVE TypeOK'
  <2>1. CallTypes'
    BY <1>1 DEF Begin, CallTypes, Steps
  <2>2. ChanTypes'
    BY <1>1 DEF Begin, ChanTypes, AcquireNotifyChan
  <2> QED
    BY <1>1, <2>1, <2>2 DEF Begin, WayTypes, LoopTypes, OpenTypes
<1>2. ASSUME NEW r \in Requests, Push(r) PROVE TypeOK'
  <2>1. CallTypes'
    BY <1>2 DEF Push, CallTypes, Steps
  <2> QED
    BY <1>2, <2>1 DEF Push, ChanTypes, WayTypes, LoopTypes, OpenTypes
<1>3. ASSUME NEW r \in Requests, SendCheck(r) PROVE TypeOK'
  <2>1. CallTypes'
    <3>1. PopTail(uncompleted) \in Seq(Requests)
      BY SubSeqProperties, LenProperties, ElementOfSeq DEF CallTypes, PopTail
    <3>2. CASE chOpen   BY <3>2, <1>3 DEF SendCheck, CallTypes, Steps
    <3>3. CASE ~chOpen  BY <3>1, <3>3, <1>3 DEF SendCheck, CallTypes, Steps
    <3> QED  BY <3>2, <3>3 DEF OpenTypes
  <2>2. ChanTypes'
    BY <1>3, ReleaseTypes DEF SendCheck, ChanTypes
  <2> QED
    BY <1>3, <2>1, <2>2 DEF SendCheck, WayTypes, LoopTypes, OpenTypes
<1>4. ASSUME NEW r \in Requests, Enqueue(r) PROVE TypeOK'
  <2>1. CallTypes'
    BY <1>4 DEF Enqueue, CallTypes, AfterSend, Steps
  <2>2. WayTypes'
    <3>1. CASE cOpen   BY <3>1, <1>4, QueueMoves DEF Enqueue, WayTypes
    <3>2. CASE ~cOpen  BY <3>2, <1>4, QueueMoves DEF Enqueue, WayTypes
    <3> QED  BY <3>1, <3>2 DEF OpenTypes
  <2> QED
    BY <1>4, <2>1, <2>2 DEF Enqueue, ChanTypes, LoopTypes, OpenTypes
<1>5. ASSUME NEW r \in Requests, EnqueueTimeout(r) PROVE TypeOK'
  <2>1. CallTypes'
    BY <1>5 DEF EnqueueTimeout, CallTypes, AfterSend, Steps
  <2> QED
    BY <1>5, <2>1 DEF EnqueueTimeout, ChanTypes, WayTypes, LoopTypes, OpenTypes
<1>6. ASSUME NEW r \in Requests, Timeout(r) PROVE TypeOK'
  <2>1. CallTypes'
    BY <1>6 DEF Timeout, CallTypes, Steps
  <2>2. ChanTypes'
    BY <1>6, ReleaseTypes DEF Timeout, ChanTypes
  <2> QED
    BY <1>6, <2>1, <2>2 DEF Timeout, WayTypes, LoopTypes, OpenTypes
<1>7. ASSUME NEW r \in Requests, Receive(r) PROVE TypeOK'
  <2>1. CallTypes'
    BY <1>7 DEF Receive, CallTypes, HoldsChan, ChanTypes, Steps
  <2>2. ChanTypes'
    BY <1>7, ReleaseTypes DEF Receive, ChanTypes
  <2> QED
    BY <1>7, <2>1, <2>2 DEF Receive, WayTypes, LoopTypes, OpenTypes
<1>8. CASE ClientWrite
  <2>1. WayTypes'
    <3>1. CASE sOpen   BY <3>1, <1>8, QueueMoves DEF ClientWrite, WayTypes
    <3>2. CASE ~sOpen  BY <3>2, <1>8, QueueMoves DEF ClientWrite, WayTypes
    <3> QED  BY <3>1, <3>2 DEF OpenTypes
  <2> QED
    BY <1>8, <2>1 DEF ClientWrite, CallTypes, ChanTypes, LoopTypes, OpenTypes
<1>9. CASE ServerRead
  <2>1. WayTypes'
    BY <1>9, QueueMoves DEF ServerRead, WayTypes
  <2> QED
    BY <1>9, <2>1 DEF ServerRead, CallTypes, ChanTypes, LoopTypes, OpenTypes
<1>10. CASE ServerWrite
  <2>1. WayTypes'
    <3>1. CASE cOpen   BY <3>1, <1>10, QueueMoves DEF ServerWrite, WayTypes
    <3>2. CASE ~cOpen  BY <3>2, <1>10, QueueMoves DEF ServerWrite, WayTypes
    <3> QED  BY <3>1, <3>2 DEF OpenTypes
  <2> QED
    BY <1>10, <2>1 DEF ServerWrite, CallTypes, ChanTypes, LoopTypes, OpenTypes
<1>11. CASE ClientRead
  <2>1. WayTypes'
    BY <1>11, QueueMoves DEF ClientRead, WayTypes, ClientClosed
  <2> QED
    BY <1>11, <2>1 DEF ClientRead, ClientClosed, CallTypes, ChanTypes, LoopTypes, OpenTypes
<1>12. CASE ServerHandle
  <2>1. WayTypes'
    BY <1>12 DEF ServerHandle, WayTypes, Queue
  <2> QED
    BY <1>12, <2>1 DEF ServerHandle, CallTypes, ChanTypes, LoopTypes, OpenTypes
<1>13. CASE ServerRespond
  <2>1. WayTypes'
    <3>1. CASE sOpen   BY <3>1, <1>13, QueueMoves DEF ServerRespond, WayTypes
    <3>2. CASE ~sOpen  BY <3>2, <1>13, QueueMoves DEF ServerRespond, WayTypes
    <3> QED  BY <3>1, <3>2 DEF OpenTypes
  <2> QED
    BY <1>13, <2>1 DEF ServerRespond, CallTypes, ChanTypes, LoopTypes, OpenTypes
<1>14. CASE ServerRespondTimeout
  <2>1. WayTypes'
    BY <1>14, QueueMoves DEF ServerRespondTimeout, WayTypes
  <2> QED
    BY <1>14, <2>1 DEF ServerRespondTimeout, CallTypes, ChanTypes, LoopTypes, OpenTypes
<1>15. CASE LoopTake
  <2>1. WayTypes'
    BY <1>15, QueueMoves DEF LoopTake, WayTypes
  <2>2. LoopTypes'
    <3>1. Head(cRecvQ) \in Requests
      BY <1>15, QueueMoves DEF LoopTake, WayTypes
    <3> QED  BY <3>1, <1>15 DEF LoopTake, LoopTypes
  <2> QED
    BY <1>15, <2>1, <2>2 DEF LoopTake, CallTypes, ChanTypes, OpenTypes
<1>16. CASE LoopHandle
  <2>1. CallTypes'
    <3>1. uncompleted' = uncompleted \/ (uncompleted # <<>> /\ uncompleted' = Tail(uncompleted))
      BY <1>16 DEF LoopHandle
    <3>2. uncompleted' \in Seq(Requests)
      BY <3>1, HeadTailProperties DEF CallTypes
    <3> QED  BY <3>2, <1>16 DEF LoopHandle, CallTypes
  <2>2. LoopTypes'
    <3>1. Head(cHand) \in Requests /\ <<>> \in Seq(Requests) /\ Len(<<>>) = 0
      BY <1>16, HeadTailProperties, EmptySeq DEF LoopHandle, LoopTypes
    <3>2. CASE uncompleted = <<>>  BY <3>1, <3>2, <1>16 DEF LoopHandle, LoopTypes
    <3>3. CASE uncompleted # <<>>
      <4>1. Head(uncompleted) \in Requests
        BY <3>3, HeadTailProperties DEF CallTypes
      <4> QED  BY <4>1, <3>1, <3>3, <1>16 DEF LoopHandle, LoopTypes, ChanTypes
    <3> QED  BY <3>2, <3>3
  <2> QED
    BY <1>16, <2>1, <2>2 DEF LoopHandle, ChanTypes, WayTypes, OpenTypes
<1>17. CASE LoopNotify
  <2>1. ChanTypes'
    BY <1>17 DEF LoopNotify, ChanTypes, LoopTypes
  <2>2. LoopTypes'
    BY <1>17 DEF LoopNotify, LoopTypes
  <2> QED
    BY <1>17, <2>1, <2>2 DEF LoopNotify, CallTypes, WayTypes, OpenTypes
<1>18. CASE LoopPut
  <2>1. ChanTypes'
    BY <1>18 DEF LoopPut, ChanTypes, LoopTypes
  <2>2. LoopTypes'
    BY <1>18 DEF LoopPut, LoopTypes
  <2> QED
    BY <1>18, <2>1, <2>2 DEF LoopPut, CallTypes, WayTypes, OpenTypes
<1>19. CASE LoopExit
  <2>1. LoopTypes'
    BY <1>19 DEF LoopExit, LoopTypes
  <2> QED
    BY <1>19, <2>1 DEF LoopExit, CallTypes, ChanTypes, WayTypes, OpenTypes
<1>20. CASE ClientConnFails
  <2>1. WayTypes'
    BY <1>20, QueueMoves DEF ClientConnFails, WayTypes, ClientClosed
  <2> QED
    BY <1>20, <2>1 DEF ClientConnFails, ClientClosed, CallTypes, ChanTypes, LoopTypes, OpenTypes
<1>21. CASE ServerConnFails
  <2>1. WayTypes'
    BY <1>21, QueueMoves DEF ServerConnFails, WayTypes
  <2> QED
    BY <1>21, <2>1 DEF ServerConnFails, CallTypes, ChanTypes, LoopTypes, OpenTypes
<1>22. CASE ChannelClose
  <2> QED
    BY <1>22 DEF ChannelClose, CallTypes, ChanTypes, WayTypes, LoopTypes, OpenTypes
<1>23. CASE UNCHANGED vars
  BY <1>23 DEF vars, CallTypes, ChanTypes, WayTypes, LoopTypes, OpenTypes
<1> QED
  BY <1>1, <1>2, <1>3, <1>4, <1>5, <1>6, <1>7, <1>8, <1>9, <1>10, <1>11,
     <1>12, <1>13, <1>14, <1>15, <1>16, <1>17, <1>18, <1>19, <1>20, <1>21,
     <1>22, <1>23 DEF Next, Call, Loop

-----------------------------------------------------------------------------
(* Who holds what: the notify channels and sendRequestLock.                *)

\* sendRequestLock is held exactly between PushTail and the end of
\* SendPacket.
LockHeld ==
  \A r \in Requests : sendRequestLock = r <=> pc[r] \in {"pushed", "sending"}

\* The steps of the connections and of the handle loops.
System ==
  \/ ClientWrite \/ ServerRead \/ ServerWrite \/ ClientRead
  \/ ServerHandle \/ ServerRespond \/ ServerRespondTimeout
  \/ Loop
  \/ ClientConnFails \/ ServerConnFails \/ ChannelClose
  \/ UNCHANGED vars

\* A step is a caller's or one of the system.
LEMMA StepCases ==
  ASSUME [Next]_vars
  PROVE  (\E r \in Requests : Begin(r) \/ Call(r)) \/ System
BY DEF Next, System

\* The connections and the handle loops leave the callers alone.
LEMMA SystemKeepsCalls ==
  ASSUME System PROVE UNCHANGED <<pc, respChan, sendRequestLock>>
<1> USE DEF callVars, chanVars
<1>1. CASE ClientWrite \/ ServerRead \/ ServerWrite \/ ClientRead
  BY <1>1 DEF ClientWrite, ServerRead, ServerWrite, ClientRead, ClientClosed
<1>2. CASE ServerHandle \/ ServerRespond \/ ServerRespondTimeout
  BY <1>2 DEF ServerHandle, ServerRespond, ServerRespondTimeout
<1>3. CASE Loop
  BY <1>3 DEF Loop, LoopTake, LoopHandle, LoopNotify, LoopPut, LoopExit
<1>4. CASE ClientConnFails \/ ServerConnFails \/ ChannelClose
  BY <1>4 DEF ClientConnFails, ClientClosed, ServerConnFails, ChannelClose
<1>5. CASE UNCHANGED vars
  BY <1>5 DEF vars
<1> QED  BY <1>1, <1>2, <1>3, <1>4, <1>5 DEF System

\* The deferred function touches the notify channel of its own call only.
LEMMA ReleaseOwn ==
  ASSUME ChanTypes, NEW r \in Requests, ReleaseNotifyChan(r)
  PROVE  \A q \in Requests \ {r} : respChan'[q] = respChan[q]
BY DEF ChanTypes, ReleaseNotifyChan, chanVars

\* A call that has not returned keeps its notify channel and nobody takes
\* sendRequestLock from its holder.
LEMMA HoldsStep ==
  TypeOK /\ HoldsChan /\ LockHeld /\ [Next]_vars => HoldsChan' /\ LockHeld'
<1> SUFFICES ASSUME TypeOK, HoldsChan, LockHeld, [Next]_vars
             PROVE  HoldsChan' /\ LockHeld'
  OBVIOUS
<1> USE ExchangeAssumption DEF TypeOK, CallTypes, ChanTypes, HoldsChan, LockHeld
<1>1. ASSUME NEW r \in Requests, Begin(r) PROVE HoldsChan' /\ LockHeld'
  <2>1. HoldsChan'  BY <1>1 DEF Begin, AcquireNotifyChan, chanVars
  <2>2. LockHeld'   BY <1>1 DEF Begin
  <2> QED  BY <2>1, <2>2
<1>2. ASSUME NEW r \in Requests, Push(r) PROVE HoldsChan' /\ LockHeld'
  <2>1. HoldsChan'  BY <1>2 DEF Push, chanVars
  <2>2. LockHeld'   BY <1>2 DEF Push
  <2> QED  BY <2>1, <2>2
<1>3. ASSUME NEW r \in Requests, SendCheck(r) PROVE HoldsChan' /\ LockHeld'
  <2>1. CASE chOpen   BY <2>1, <1>3 DEF SendCheck, chanVars
  <2>2. CASE ~chOpen
    <3>1. HoldsChan'  BY <2>2, <1>3, ReleaseOwn DEF SendCheck
    <3>2. LockHeld'   BY <2>2, <1>3 DEF SendCheck
    <3> QED  BY <3>1, <3>2
  <2> QED  BY <2>1, <2>2 DEF OpenTypes
<1>4. ASSUME NEW r \in Requests, Enqueue(r) \/ EnqueueTimeout(r)
      PROVE  HoldsChan' /\ LockHeld'
  <2>1. HoldsChan'
    BY <1>4 DEF Enqueue, EnqueueTimeout, AfterSend, chanVars
  <2>2. LockHeld'
    BY <1>4 DEF Enqueue, EnqueueTimeout, AfterSend
  <2> QED  BY <2>1, <2>2
<1>5. ASSUME NEW r \in Requests, Timeout(r) \/ Receive(r)
      PROVE  HoldsChan' /\ LockHeld'
  <2>1. HoldsChan'  BY <1>5, ReleaseOwn DEF Timeout, Receive
  <2>2. LockHeld'   BY <1>5 DEF Timeout, Receive
  <2> QED  BY <2>1, <2>2
<1>6. CASE System
  BY <1>6, SystemKeepsCalls
<1> QED  BY <1>1, <1>2, <1>3, <1>4, <1>5, <1>6, StepCases DEF Call

-----------------------------------------------------------------------------
(* Every packet under way has its entry in uncompletedRequestQueue.        *)

\* The length of packets laid out as Replies and as Ahead.
LEMMA LenConcat ==
  ASSUME NEW a \in Seq(Requests), NEW b \in Seq(Requests), NEW c \in Seq(Requests),
         NEW d \in Seq(Requests), NEW e \in Seq(Requests)
  PROVE  /\ Len(a \o (b \o c)) = Len(a) + Len(b) + Len(c)
         /\ Len(a \o (b \o (c \o (d \o e)))) =
              Len(a) + Len(b) + Len(c) + Len(d) + Len(e)
<1>1. c \o (d \o e) \in Seq(Requests)
        /\ Len(c \o (d \o e)) = Len(c) + Len(d) + Len(e)
  BY ConcatProperties
<1>2. b \o c \in Seq(Requests) /\ Len(b \o c) = Len(b) + Len(c)
  BY ConcatProperties
<1>3. b \o (c \o (d \o e)) \in Seq(Requests)
        /\ Len(b \o (c \o (d \o e))) = Len(b) + Len(c) + Len(d) + Len(e)
  BY <1>1, ConcatProperties
<1> QED  BY <1>2, <1>3, ConcatProperties

\* All the queues are sequences of requests.
LEMMA Queues ==
  TypeOK => /\ uncompleted \in Seq(Requests)
            /\ cHand \in Seq(Requests) /\ cRecvQ \in Seq(Requests)
            /\ s2c \in Seq(Requests) /\ sWriteQ \in Seq(Requests)
            /\ sHand \in Seq(Requests) /\ sRecvQ \in Seq(Requests)
            /\ c2s \in Seq(Requests) /\ cWriteQ \in Seq(Requests)
BY DEF TypeOK, CallTypes, WayTypes, LoopTypes, Queue

\* ResponseHasRequest, queue by queue.
Counted ==
  Len(uncompleted) >=
    Len(cHand) + Len(cRecvQ) + Len(s2c)
      + Len(sWriteQ) + Len(sHand) + Len(sRecvQ) + Len(c2s) + Len(cWriteQ)
      + (IF sendRequestLock = None THEN 0 ELSE 1)

\* Counted, written with one sum, is ResponseHasRequest.
LEMMA CountedImplies == TypeOK /\ Counted => ResponseHasRequest
<1> SUFFICES ASSUME TypeOK, Counted PROVE ResponseHasRequest
  OBVIOUS
<1>1. Len(Replies) = Len(cHand) + Len(cRecvQ) + Len(s2c)
  BY Queues, LenConcat DEF Replies
<1>2. Len(Ahead) = Len(sWriteQ) + Len(sHand) + Len(sRecvQ) + Len(c2s)
                    + Len(cWriteQ)
  BY Queues, LenConcat DEF Ahead
<1>3. Len(Unsent) = IF sendRequestLock = None THEN 0 ELSE 1
  BY DEF Unsent
<1>4. /\ Len(cHand) \in Nat /\ Len(cRecvQ) \in Nat /\ Len(s2c) \in Nat
      /\ Len(sWriteQ) \in Nat /\ Len(sHand) \in Nat /\ Len(sRecvQ) \in Nat
      /\ Len(c2s) \in Nat /\ Len(cWriteQ) \in Nat
  BY Queues, LenProperties
<1> QED  BY <1>1, <1>2, <1>3, <1>4 DEF Counted, ResponseHasRequest

\* How the queue operations of the steps change a length.
LEMMA LenMoves ==
  ASSUME NEW q \in Seq(Requests)
  PROVE  /\ Len(q) \in Nat
         /\ \A x \in Requests : Len(Append(q, x)) = Len(q) + 1
         /\ q # <<>> => Len(Tail(q)) = Len(q) - 1
         /\ Len(q) # 0 => Len(PopTail(q)) = Len(q) - 1
<1>1. Len(q) \in Nat
  BY LenProperties
<1>2. \A x \in Requests : Len(Append(q, x)) = Len(q) + 1
  BY AppendProperties
<1>3. q # <<>> => Len(Tail(q)) = Len(q) - 1
  BY HeadTailProperties
<1>4. ASSUME Len(q) # 0 PROVE Len(PopTail(q)) = Len(q) - 1
  <2>1. q # <<>> /\ Len(q) - 1 \in Int /\ 1 \in Int
    BY <1>1, <1>4, EmptySeq
  <2>2. \A i \in 1 .. Len(q) - 1 : q[i] \in Requests
    BY <1>1, ElementOfSeq
  <2>3. Len(SubSeq(q, 1, Len(q) - 1)) = IF 1 <= Len(q) - 1 THEN Len(q) - 1 ELSE 0
    BY <2>1, <2>2, SubSeqProperties, <1>1
  <2>4. PopTail(q) = SubSeq(q, 1, Len(q) - 1)
    BY <2>1 DEF PopTail
  <2>5. \A n \in Nat : n # 0 => (IF 1 <= n - 1 THEN n - 1 ELSE 0) = n - 1
    OBVIOUS
  <2> QED  BY <1>1, <1>4, <2>3, <2>4, <2>5, Zenon
<1> QED  BY <1>1, <1>2, <1>3, <1>4

\* Every step keeps Counted.
LEMMA CountStep ==
  TypeOK /\ LockHeld /\ Counted /\ [Next]_vars => Counted'
<1> SUFFICES ASSUME TypeOK, LockHeld, Counted, [Next]_vars PROVE Counted'
  OBVIOUS
<1>q. Len(<<>>) = 0
  BY EmptySeq
<1>l. /\ Len(uncompleted) \in Nat
      /\ Len(cHand) \in Nat /\ Len(cRecvQ) \in Nat /\ Len(s2c) \in Nat
      /\ Len(sWriteQ) \in Nat /\ Len(sHand) \in Nat /\ Len(sRecvQ) \in Nat
      /\ Len(c2s) \in Nat /\ Len(cWriteQ) \in Nat
  BY Queues, LenProperties
<1> USE ExchangeAssumption DEF Counted, callVars, wayVars
<1>1. ASSUME NEW r \in Requests, Begin(r) PROVE Counted'
  BY <1>1 DEF Begin
<1>2. ASSUME NEW r \in Requests, Push(r) PROVE Counted'
  <2>1. Len(uncompleted') = Len(uncompleted) + 1
    BY <1>2, Queues, LenMoves DEF Push
  <2> QED  BY <1>2, <1>l, <2>1 DEF Push
<1>3. ASSUME NEW r \in Requests, SendCheck(r) PROVE Counted'
  <2>1. CASE chOpen  BY <2>1, <1>3 DEF SendCheck
  <2>2. CASE ~chOpen
    <3>1. sendRequestLock = r  BY <1>3 DEF SendCheck, LockHeld
    <3>2. Len(uncompleted) # 0  BY <1>l, <3>1
    <3>3. Len(uncompleted') = Len(uncompleted) - 1
      BY <1>3, <2>2, <3>2, Queues, LenMoves DEF SendCheck
    <3> QED  BY <1>3, <1>l, <2>2, <3>1, <3>3 DEF SendCheck
  <2> QED  BY <2>1, <2>2
<1>4. ASSUME NEW r \in Requests, Enqueue(r) \/ EnqueueTimeout(r) PROVE Counted'
  <2>1. sendRequestLock = r /\ sendRequestLock' = None
    BY <1>4 DEF Enqueue, EnqueueTimeout, AfterSend, LockHeld
  <2>2. Len(cWriteQ') <= Len(cWriteQ) + 1 /\ Len(cWriteQ') \in Nat
    <3>1. cWriteQ' = cWriteQ \/ cWriteQ' = Append(cWriteQ, r)
      BY <1>4 DEF Enqueue, EnqueueTimeout
    <3>2. Len(Append(cWriteQ, r)) = Len(cWriteQ) + 1
      BY Queues, LenMoves
    <3> QED  BY <1>l, <3>1, <3>2
  <2>3. UNCHANGED <<uncompleted, cHand, cRecvQ, s2c, sWriteQ, sHand, sRecvQ, c2s>>
    BY <1>4 DEF Enqueue, EnqueueTimeout
  <2> QED  BY <1>l, <2>1, <2>2, <2>3
<1>5. ASSUME NEW r \in Requests, Timeout(r) \/ Receive(r) PROVE Counted'
  BY <1>5 DEF Timeout, Receive
<1>6. CASE ClientWrite
  <2>1. Len(cWriteQ') = Len(cWriteQ) - 1
    BY <1>6, Queues, LenMoves DEF ClientWrite
  <2>2. Len(c2s') \in Nat /\ Len(c2s') <= Len(c2s) + 1
    <3>1. c2s' = c2s \/ c2s' = Append(c2s, Head(cWriteQ))
      BY <1>6 DEF ClientWrite
    <3>2. Head(cWriteQ) \in Requests
      BY <1>6, Queues, HeadTailProperties DEF ClientWrite
    <3>3. Len(Append(c2s, Head(cWriteQ))) = Len(c2s) + 1
      BY <3>2, Queues, LenMoves
    <3> QED  BY <1>l, <3>1, <3>3
  <2> QED  BY <1>6, <1>l, <2>1, <2>2 DEF ClientWrite
<1>7. CASE ServerRead
  <2>1. Len(c2s') = Len(c2s) - 1 /\ Len(sRecvQ') = Len(sRecvQ) + 1
    BY <1>7, Queues, LenMoves, HeadTailProperties DEF ServerRead
  <2> QED  BY <1>7, <1>l, <2>1 DEF ServerRead
<1>8. CASE ServerWrite
  <2>1. Len(sWriteQ') = Len(sWriteQ) - 1
    BY <1>8, Queues, LenMoves DEF ServerWrite
  <2>2. Len(s2c') \in Nat /\ Len(s2c') <= Len(s2c) + 1
    <3>1. s2c' = s2c \/ s2c' = Append(s2c, Head(sWriteQ))
      BY <1>8 DEF ServerWrite
    <3>2. Head(sWriteQ) \in Requests
      BY <1>8, Queues, HeadTailProperties DEF ServerWrite
    <3>3. Len(Append(s2c, Head(sWriteQ))) = Len(s2c) + 1
      BY <3>2, Queues, LenMoves
    <3> QED  BY <1>l, <3>1, <3>3
  <2> QED  BY <1>8, <1>l, <2>1, <2>2 DEF ServerWrite
<1>9. CASE cOpen /\ ClientClosed
  BY <1>9, <1>l, <1>q DEF ClientClosed
<1>10. CASE ClientRead
  <2>1. CASE ~chOpen  BY <1>9, <1>10, <2>1 DEF ClientRead
  <2>2. CASE chOpen
    <3>1. Len(s2c') = Len(s2c) - 1 /\ Len(cRecvQ') = Len(cRecvQ) + 1
      <4>1. s2c # <<>> /\ s2c' = Tail(s2c) /\ cRecvQ' = Append(cRecvQ, Head(s2c))
        BY <1>10, <2>2 DEF ClientRead
      <4>2. Head(s2c) \in Requests /\ s2c \in Seq(Requests) /\ cRecvQ \in Seq(Requests)
        BY <4>1, Queues, HeadTailProperties
      <4>3. Len(Tail(s2c)) = Len(s2c) - 1
        BY <4>1, <4>2, LenMoves
      <4>4. Len(Append(cRecvQ, Head(s2c))) = Len(cRecvQ) + 1
        BY <4>2, LenMoves
      <4> QED  BY <4>1, <4>3, <4>4
    <3> QED  BY <1>10, <1>l, <2>2, <3>1 DEF ClientRead
  <2> QED  BY <2>1, <2>2
<1>11. CASE ServerHandle
  <2>1. Len(sRecvQ') = Len(sRecvQ) - 1
    BY <1>11, Queues, LenMoves DEF ServerHandle
  <2>2. Len(sHand') = 1  BY <1>11 DEF ServerHandle
  <2> QED  BY <1>11, <1>l, <1>q, <2>1, <2>2 DEF ServerHandle
<1>12. CASE ServerRespond \/ ServerRespondTimeout
  <2>1. Len(sHand) >= 1 /\ Len(sHand') = 0
    BY <1>12, <1>l, <1>q, Queues, EmptySeq DEF ServerRespond, ServerRespondTimeout
  <2>2. Len(sWriteQ') \in Nat /\ Len(sWriteQ') <= Len(sWriteQ) + 1
    <3>1. sWriteQ' = sWriteQ \/ sWriteQ' = Append(sWriteQ, Head(sHand))
      BY <1>12 DEF ServerRespond, ServerRespondTimeout
    <3>2. Head(sHand) \in Requests
      BY <1>12, Queues, HeadTailProperties DEF ServerRespond, ServerRespondTimeout
    <3>3. Len(Append(sWriteQ, Head(sHand))) = Len(sWriteQ) + 1
      BY <3>2, Queues, LenMoves
    <3> QED  BY <1>l, <3>1, <3>3
  <2>3. UNCHANGED <<uncompleted, cHand, cRecvQ, s2c, sRecvQ, c2s, cWriteQ, sendRequestLock>>
    BY <1>12 DEF ServerRespond, ServerRespondTimeout
  <2> QED  BY <1>l, <2>1, <2>2, <2>3
<1>13. CASE LoopTake
  <2>1. Len(cRecvQ') = Len(cRecvQ) - 1
    BY <1>13, Queues, LenMoves DEF LoopTake
  <2>2. Len(cHand') = 1 /\ Len(cHand) = 0
    BY <1>13 DEF LoopTake, TypeOK, LoopTypes
  <2> QED  BY <1>13, <1>l, <2>1, <2>2 DEF LoopTake
<1>14. CASE LoopHandle
  <2>1. Len(cHand) = 1 /\ Len(cHand') = 0
    BY <1>14, <1>q DEF LoopHandle, TypeOK, LoopTypes
  <2>2. uncompleted # <<>>
    BY <1>q, <1>l, <2>1
  <2>3. Len(uncompleted') = Len(uncompleted) - 1
    BY <1>14, <2>2, Queues, LenMoves DEF LoopHandle
  <2> QED  BY <1>14, <1>l, <2>1, <2>3 DEF LoopHandle
<1>15. CASE LoopNotify \/ LoopPut \/ LoopExit
  BY <1>15 DEF LoopNotify, LoopPut, LoopExit
<1>16. CASE ServerConnFails
  BY <1>16, <1>l, <1>q DEF ServerConnFails
<1>17. CASE ChannelClose \/ UNCHANGED vars
  BY <1>17 DEF ChannelClose, vars
<1> QED
  BY <1>1, <1>2, <1>3, <1>4, <1>5, <1>6, <1>7, <1>8, <1>9, <1>10, <1>11, <1>12,
     <1>13, <1>14, <1>15, <1>16, <1>17 DEF Next, Call, Loop, ClientConnFails

-----------------------------------------------------------------------------
(* The queue of uncompleted requests and the packets under way.            *)

\* A queue is its first packet followed by the rest.
LEMMA HeadTailCat ==
  ASSUME NEW a \in Seq(Requests), a # <<>>
  PROVE  /\ Head(a) \in Requests /\ Tail(a) \in Seq(Requests)
         /\ <<Head(a)>> \in Seq(Requests)
         /\ <<Head(a)>> \o Tail(a) = a
<1>1. /\ Head(a) \in Requests /\ Tail(a) \in Seq(Requests)
      /\ <<Head(a)>> \in Seq(Requests)
  BY HeadTailProperties
<1>2. <<Head(a)>> \o Tail(a) = a
  <2>1. Len(<<Head(a)>> \o Tail(a)) = Len(a)
    BY <1>1, HeadTailProperties, ConcatProperties, LenProperties
  <2>2. \A i \in 1 .. Len(a) : (<<Head(a)>> \o Tail(a))[i] = a[i]
    BY <1>1, HeadTailProperties, ConcatProperties, LenProperties
  <2> QED  BY <1>1, <2>1, <2>2, SeqEqual, ConcatProperties
<1> QED  BY <1>1, <1>2

\* A sequence of length one.
LEMMA Single ==
  \A q \in Seq(Requests) :
    Len(q) = 1 => /\ q # <<>> /\ Head(q) \in Requests
                  /\ q = <<Head(q)>> /\ Tail(q) = <<>>
<1> SUFFICES ASSUME NEW q \in Seq(Requests), Len(q) = 1
             PROVE  /\ q # <<>> /\ Head(q) \in Requests
                    /\ q = <<Head(q)>> /\ Tail(q) = <<>>
  OBVIOUS
<1>1. q # <<>>
  BY EmptySeq
<1>2. Head(q) \in Requests /\ Tail(q) \in Seq(Requests) /\ Len(Tail(q)) = 0
  BY <1>1, HeadTailProperties
<1>3. Tail(q) = <<>>
  BY <1>2, EmptySeq
<1>4. <<Head(q)>> \o Tail(q) = q
  BY <1>1, HeadTailCat
<1>5. <<Head(q)>> \o <<>> = <<Head(q)>>
  BY <1>2, ConcatEmptySeq
<1> QED  BY <1>1, <1>2, <1>3, <1>4, <1>5, Zenon

\* The first packet and the rest of <<h>> \o q.
LEMMA HeadTailOne ==
  ASSUME NEW h \in Requests, NEW q \in Seq(Requests)
  PROVE  <<h>> \o q # <<>> /\ Head(<<h>> \o q) = h /\ Tail(<<h>> \o q) = q
<1> DEFINE w == <<h>> \o q
<1>1. /\ <<h>> \in Seq(Requests) /\ w \in Seq(Requests) /\ Len(w) = 1 + Len(q)
      /\ Len(q) \in Nat /\ w[1] = h /\ \A i \in 1 .. Len(q) : w[i + 1] = q[i]
  BY ConcatProperties, LenProperties
<1> HIDE DEF w
<1>2. w # <<>> /\ Head(w) = h
  BY <1>1, EmptySeq
<1>3. /\ Tail(w) \in Seq(Requests) /\ Len(Tail(w)) = Len(q)
      /\ \A i \in 1 .. Len(q) : Tail(w)[i] = q[i]
  BY <1>1, <1>2, HeadTailProperties
<1>4. Tail(w) = q
  BY <1>3, SeqEqual
<1> QED  BY <1>2, <1>4 DEF w

\* SubSeq within the bounds of its sequence.
LEMMA SubSeqFacts ==
  ASSUME NEW w \in Seq(Requests), NEW f \in Nat \ {0}, NEW l \in Nat,
         l <= Len(w), f <= l + 1
  PROVE  /\ SubSeq(w, f, l) \in Seq(Requests)
         /\ Len(SubSeq(w, f, l)) = l - f + 1
         /\ \A i \in 1 .. l - f + 1 : SubSeq(w, f, l)[i] = w[f + i - 1]
BY SMT

\* The part of a sequence between a known front and a known end.
LEMMA Middle ==
  ASSUME NEW a \in Seq(Requests), NEW m \in Seq(Requests), NEW u \in Seq(Requests),
         NEW w, w = a \o (m \o u)
  PROVE  SubSeq(w, Len(a) + 1, Len(w) - Len(u)) = m
<1>1. /\ Len(a) \in Nat /\ Len(m) \in Nat /\ Len(u) \in Nat
      /\ m \o u \in Seq(Requests) /\ Len(m \o u) = Len(m) + Len(u)
      /\ w \in Seq(Requests) /\ Len(w) = Len(a) + Len(m) + Len(u)
  BY ConcatProperties, LenProperties
<1>2. \A i \in 1 .. Len(m) : w[Len(a) + i] = m[i]
  <2> SUFFICES ASSUME NEW i \in 1 .. Len(m) PROVE w[Len(a) + i] = m[i]
    OBVIOUS
  <2>1. w[Len(a) + i] = (m \o u)[i]
    <3>1. Len(a) + i \in 1 .. Len(a) + Len(m \o u) /\ ~(Len(a) + i <= Len(a))
            /\ Len(a) + i - Len(a) = i
      BY <1>1
    <3> QED  BY <1>1, <3>1, ConcatProperties
  <2>2. (m \o u)[i] = m[i]
    BY <1>1, ConcatProperties
  <2> QED  BY <2>1, <2>2
<1>3. /\ Len(w) - Len(u) = Len(a) + Len(m)
      /\ Len(a) + 1 \in Nat \ {0} /\ Len(a) + Len(m) \in Nat
      /\ Len(a) + Len(m) <= Len(w) /\ Len(a) + 1 <= Len(a) + Len(m) + 1
  BY <1>1
<1> DEFINE s == SubSeq(w, Len(a) + 1, Len(a) + Len(m))
<1>4. /\ s \in Seq(Requests)
      /\ Len(s) = (Len(a) + Len(m)) - (Len(a) + 1) + 1
      /\ \A i \in 1 .. (Len(a) + Len(m)) - (Len(a) + 1) + 1 :
           s[i] = w[(Len(a) + 1) + i - 1]
  BY <1>1, <1>3, SubSeqFacts
<1> HIDE DEF s
<1>5. Len(s) = Len(m) /\ \A i \in 1 .. Len(m) : s[i] = w[Len(a) + i]
  <2>1. (Len(a) + Len(m)) - (Len(a) + 1) + 1 = Len(m)
    BY <1>1
  <2>2. \A i \in 1 .. Len(m) : (Len(a) + 1) + i - 1 = Len(a) + i
    BY <1>1
  <2> QED  BY <1>4, <2>1, <2>2, Zenon
<1>6. s = m
  BY <1>2, <1>4, <1>5, SeqEqual
<1> QED  BY <1>3, <1>6 DEF s

\* PopTail undoes PushTail.
LEMMA PopPushed ==
  ASSUME NEW q \in Seq(Requests), NEW x \in Requests
  PROVE  PopTail(q \o <<x>>) = q
<1>1. <<x>> \in Seq(Requests) /\ Len(<<x>>) = 1 /\ <<>> \in Seq(Requests)
  BY EmptySeq
<1>2. <<>> \o (q \o <<x>>) = q \o <<x>>
  BY <1>1, ConcatEmptySeq, ConcatProperties
<1>3. SubSeq(q \o <<x>>, Len(<<>>) + 1, Len(q \o <<x>>) - Len(<<x>>)) = q
  BY <1>1, <1>2, Middle
<1>4. q \o <<x>> # <<>>
  BY <1>1, ConcatProperties, LenProperties
<1> QED  BY <1>1, <1>3, <1>4 DEF PopTail

\* Packets on their way and their concatenation, as opaque symbols: the
\* steps below need only the algebra of Cats.
Packets == Seq(Requests)
Cat(a, b) == a \o b

\* Cat is closed on packets, associative, and <<>> is its unit.
LEMMA Cats ==
  /\ \A a, b \in Packets : Cat(a, b) \in Packets
  /\ \A a, b, c \in Packets : Cat(Cat(a, b), c) = Cat(a, Cat(b, c))
  /\ \A a \in Packets : Cat(a, <<>>) = a /\ Cat(<<>>, a) = a
  /\ <<>> \in Packets
  /\ \A r \in Requests : <<r>> \in Packets
<1>1. \A a, b \in Packets : Cat(a, b) \in Packets
  BY ConcatProperties DEF Packets, Cat
<1>2. ASSUME NEW a \in Packets, NEW b \in Packets, NEW c \in Packets
      PROVE  Cat(Cat(a, b), c) = Cat(a, Cat(b, c))
  BY ConcatAssociative DEF Packets, Cat
<1>3. \A a \in Packets : Cat(a, <<>>) = a /\ Cat(<<>>, a) = a
  BY ConcatEmptySeq DEF Packets, Cat
<1>4. <<>> \in Packets /\ \A r \in Requests : <<r>> \in Packets
  BY EmptySeq DEF Packets
<1> QED  BY <1>1, <1>2, <1>3, <1>4

\* Append, Head and Tail in terms of Cat.
LEMMA Ends ==
  /\ \A a \in Packets, r \in Requests : Append(a, r) = Cat(a, <<r>>)
  /\ \A a \in Packets : a # <<>> =>
       Head(a) \in Requests /\ Tail(a) \in Packets /\ Cat(<<Head(a)>>, Tail(a)) = a
  /\ \A a \in Packets, r \in Requests :
       /\ Cat(<<r>>, a) # <<>>
       /\ Head(Cat(<<r>>, a)) = r /\ Tail(Cat(<<r>>, a)) = a
       /\ PopTail(Cat(a, <<r>>)) = a
<1>1. \A a \in Packets, r \in Requests : Append(a, r) = Cat(a, <<r>>)
  BY AppendIsConcat DEF Packets, Cat
<1>2. ASSUME NEW a \in Packets, a # <<>>
      PROVE  Head(a) \in Requests /\ Tail(a) \in Packets /\ Cat(<<Head(a)>>, Tail(a)) = a
  BY <1>2, HeadTailCat DEF Packets, Cat
<1>3. ASSUME NEW a \in Packets, NEW r \in Requests
      PROVE  /\ Cat(<<r>>, a) # <<>>
             /\ Head(Cat(<<r>>, a)) = r /\ Tail(Cat(<<r>>, a)) = a
             /\ PopTail(Cat(a, <<r>>)) = a
  BY HeadTailOne, PopPushed DEF Packets, Cat
<1> QED  BY <1>1, <1>2, <1>3

\* How one step of a packet, from the head of one queue to the tail of the
\* next, regroups the way.
LEMMA PacketMoves ==
  ASSUME NEW a \in Packets, a # <<>>, NEW b \in Packets, NEW c \in Packets
  PROVE  /\ Cat(Append(b, Head(a)), Tail(a)) = Cat(b, a)
         /\ Cat(<<Head(a)>>, Cat(Tail(a), c)) = Cat(<<>>, Cat(a, c))
<1>1. PICK h \in Requests, t \in Packets :
        h = Head(a) /\ t = Tail(a) /\ Cat(<<h>>, t) = a /\ Append(b, h) = Cat(b, <<h>>)
  BY Ends
<1>2. \A f, g, w \in Packets : /\ Cat(f, g) \in Packets
                               /\ Cat(Cat(f, g), w) = Cat(f, Cat(g, w))
  BY Cats
<1>3. <<h>> \in Packets /\ Cat(a, c) \in Packets /\ Cat(<<>>, Cat(a, c)) = Cat(a, c)
  BY Cats
<1>4. Cat(Cat(b, <<h>>), t) = Cat(b, a)
  BY <1>1, <1>2, <1>3
<1>5. Cat(<<h>>, Cat(t, c)) = Cat(<<>>, Cat(a, c))
  BY <1>1, <1>2, <1>3
<1> QED  BY <1>1, <1>4, <1>5

\* The regrouping with more of the way behind, as a predicate: the packet at the head of a goes to
\* the end of b, with c behind.
Forward(a, b, c) == Cat(Append(b, Head(a)), Cat(Tail(a), c)) = Cat(b, Cat(a, c))

\* It holds of every step of a packet along the way.
LEMMA Forwards == \A a, b, c \in Packets : a # <<>> => Forward(a, b, c)
<1> SUFFICES ASSUME NEW a \in Packets, NEW b \in Packets, NEW c \in Packets, a # <<>>
             PROVE  Forward(a, b, c)
  OBVIOUS
<1>1. PICK h \in Requests, t \in Packets :
        h = Head(a) /\ t = Tail(a) /\ Cat(<<h>>, t) = a /\ Append(b, h) = Cat(b, <<h>>)
  BY Ends
<1>2. <<h>> \in Packets /\ Cat(t, c) \in Packets
  BY Cats
<1>3. Cat(Cat(b, <<h>>), Cat(t, c)) = Cat(b, Cat(<<h>>, Cat(t, c)))
  BY <1>2, Cats
<1>4. Cat(<<h>>, Cat(t, c)) = Cat(a, c)
  BY <1>1, <1>2, Cats
<1> QED  BY <1>1, <1>3, <1>4, Zenon DEF Forward

\* A packet that leaves the front of what is ahead and joins the replies.
LEMMA AcrossMoves ==
  ASSUME NEW a \in Packets, a # <<>>, NEW c \in Packets, NEW x \in Packets,
         NEW y \in Packets, NEW z \in Packets, NEW u \in Packets
  PROVE  /\ Cat(Tail(a), c) \in Packets
         /\ Cat(Cat(x, Cat(y, z)), Cat(Cat(a, c), u))
              = Cat(Cat(x, Cat(y, Append(z, Head(a)))), Cat(Cat(Tail(a), c), u))
<1>1. PICK h \in Requests, t \in Packets :
        h = Head(a) /\ t = Tail(a) /\ Cat(<<h>>, t) = a /\ Append(z, h) = Cat(z, <<h>>)
  BY Ends
<1>2. \A f, g, w \in Packets : /\ Cat(f, g) \in Packets
                               /\ Cat(Cat(f, g), w) = Cat(f, Cat(g, w))
  BY Cats
<1>3. <<h>> \in Packets /\ Cat(t, c) \in Packets
  BY Cats
<1>4. Cat(Cat(x, Cat(y, z)), Cat(Cat(Cat(<<h>>, t), c), u))
        = Cat(Cat(x, Cat(y, Cat(z, <<h>>))), Cat(Cat(t, c), u))
  <2>1. Cat(Cat(<<h>>, t), c) = Cat(<<h>>, Cat(t, c))
    BY <1>2, <1>3
  <2>2. Cat(x, Cat(y, Cat(z, <<h>>))) = Cat(Cat(x, Cat(y, z)), <<h>>)
    BY <1>2, <1>3
  <2>3. ASSUME NEW f \in Packets, NEW g \in Packets
        PROVE  Cat(f, Cat(Cat(<<h>>, g), u)) = Cat(Cat(f, <<h>>), Cat(g, u))
    BY <1>2, <1>3
  <2>4. Cat(x, Cat(y, z)) \in Packets
    BY <1>2
  <2>5. Cat(Cat(x, Cat(y, z)), Cat(Cat(<<h>>, Cat(t, c)), u))
          = Cat(Cat(Cat(x, Cat(y, z)), <<h>>), Cat(Cat(t, c), u))
    BY <1>3, <2>3, <2>4
  <2> QED  BY <2>1, <2>2, <2>5, Zenon
<1> QED  BY <1>1, <1>3, <1>4

\* A request that joins the end of the way and of the queue, or leaves it.
LEMMA EndMoves ==
  ASSUME NEW a \in Packets, NEW b \in Packets, NEW c \in Packets,
         NEW d \in Packets, NEW e \in Packets, NEW r \in Requests
  PROVE  /\ Append(Cat(a, Cat(b, <<>>)), r) = Cat(a, Cat(b, <<r>>))
         /\ PopTail(Cat(a, Cat(b, <<r>>))) = Cat(a, Cat(b, <<>>))
         /\ Cat(a, Cat(b, <<r>>)) = Cat(a, Cat(Cat(b, <<r>>), <<>>))
         /\ Cat(a, Cat(b, Cat(c, Cat(d, Append(e, r)))))
              = Cat(Cat(a, Cat(b, Cat(c, Cat(d, e)))), <<r>>)
<1>1. /\ <<r>> \in Packets /\ Cat(a, b) \in Packets
      /\ Cat(a, Cat(b, <<r>>)) = Cat(Cat(a, b), <<r>>)
      /\ Cat(a, Cat(b, <<>>)) = Cat(a, b)
      /\ Cat(Cat(b, <<r>>), <<>>) = Cat(b, <<r>>)
  BY Cats
<1>2. Append(Cat(a, b), r) = Cat(Cat(a, b), <<r>>) /\ Append(e, r) = Cat(e, <<r>>)
  BY <1>1, Ends
<1>3. PopTail(Cat(Cat(a, b), <<r>>)) = Cat(a, b)
  BY <1>1, Ends
<1>4. Cat(a, Cat(b, Cat(c, Cat(d, Cat(e, <<r>>)))))
        = Cat(Cat(a, Cat(b, Cat(c, Cat(d, e)))), <<r>>)
  BY <1>1, Cats
<1> QED  BY <1>1, <1>2, <1>3, <1>4, Zenon

\* What is left when the responses in TCP are lost.
LEMMA LossMoves ==
  ASSUME NEW a \in Packets, NEW b \in Packets, NEW c \in Packets,
         NEW d \in Packets, NEW e \in Packets
  PROVE  /\ Cat(c, d) \in Packets
         /\ Cat(Cat(a, Cat(b, c)), Cat(d, e))
              = Cat(Cat(a, Cat(b, <<>>)), Cat(Cat(c, d), e))
BY Cats

\* PopHead on a queue that starts with the one packet of a.
LEMMA HeadMoves ==
  ASSUME NEW a \in Packets, a # <<>>, Tail(a) = <<>>, NEW b \in Packets,
         NEW c \in Packets
  PROVE  /\ Cat(Cat(a, b), c) # <<>>
         /\ Head(Cat(Cat(a, b), c)) = Head(a)
         /\ Tail(Cat(Cat(a, b), c)) = Cat(Cat(<<>>, b), c)
<1>1. PICK h \in Requests : h = Head(a) /\ Cat(<<h>>, <<>>) = a
  <2>1. Head(a) \in Requests /\ Cat(<<Head(a)>>, Tail(a)) = a
    BY Ends
  <2> QED  BY <2>1
<1>2. Cat(Cat(a, b), c) = Cat(<<h>>, Cat(b, c)) /\ Cat(b, c) \in Packets
        /\ Cat(Cat(<<>>, b), c) = Cat(b, c)
  <2>1. a = <<h>>
    BY <1>1, Cats
  <2>2. <<h>> \in Packets /\ Cat(b, c) \in Packets /\ Cat(<<>>, b) = b
    BY Cats
  <2> QED  BY <2>1, <2>2, Cats
<1>3. /\ Cat(<<h>>, Cat(b, c)) # <<>>
      /\ Head(Cat(<<h>>, Cat(b, c))) = h /\ Tail(Cat(<<h>>, Cat(b, c))) = Cat(b, c)
  BY <1>2, Ends
<1> QED  BY <1>1, <1>2, <1>3, Zenon

\* What HeadMoves says, as a predicate.
PopsFirst(a, b, c) == /\ Cat(Cat(a, b), c) # <<>>
                      /\ Head(Cat(Cat(a, b), c)) = Head(a)
                      /\ Tail(Cat(Cat(a, b), c)) = Cat(Cat(<<>>, b), c)

\* HeadMoves in a form whose instances the provers find.
LEMMA Pops ==
  \A a, b, c \in Packets : a # <<>> /\ Tail(a) = <<>> => PopsFirst(a, b, c)
<1> SUFFICES ASSUME NEW a \in Packets, NEW b \in Packets, NEW c \in Packets,
                    a # <<>>, Tail(a) = <<>>
             PROVE  PopsFirst(a, b, c)
  OBVIOUS
<1> QED  BY HeadMoves DEF PopsFirst

\* The way of the packets in terms of Cat.
LEMMA Ways ==
  /\ Replies = Cat(cHand, Cat(cRecvQ, s2c))
  /\ Ahead = Cat(sWriteQ, Cat(sHand, Cat(sRecvQ, Cat(c2s, cWriteQ))))
  /\ TypeOK =>
       /\ uncompleted \in Packets
       /\ cHand \in Packets /\ cRecvQ \in Packets /\ s2c \in Packets
       /\ sWriteQ \in Packets /\ sHand \in Packets /\ sRecvQ \in Packets
       /\ c2s \in Packets /\ cWriteQ \in Packets
       /\ Unsent \in Packets
       /\ (sHand # <<>> => Tail(sHand) = <<>>)
       /\ (loop = "handle" => cHand # <<>> /\ Tail(cHand) = <<>>)
       /\ (loop # "handle" => cHand = <<>>)
<1>1. Replies = Cat(cHand, Cat(cRecvQ, s2c))
  BY DEF Replies, Cat
<1>2. Ahead = Cat(sWriteQ, Cat(sHand, Cat(sRecvQ, Cat(c2s, cWriteQ))))
  BY DEF Ahead, Cat
<1>3. ASSUME TypeOK
      PROVE  /\ uncompleted \in Packets
             /\ cHand \in Packets /\ cRecvQ \in Packets /\ s2c \in Packets
             /\ sWriteQ \in Packets /\ sHand \in Packets /\ sRecvQ \in Packets
             /\ c2s \in Packets /\ cWriteQ \in Packets
  BY <1>3, Queues DEF Packets
<1>4. ASSUME TypeOK PROVE Unsent \in Packets
  BY <1>4, EmptySeq DEF Unsent, TypeOK, CallTypes, Packets
<1>5. ASSUME TypeOK, sHand # <<>> PROVE Tail(sHand) = <<>>
  <2>1. sHand \in Seq(Requests) /\ Len(sHand) <= 1
    BY <1>5 DEF TypeOK, WayTypes, Queue
  <2>2. Len(sHand) \in Nat \ {0}
    BY <1>5, <2>1, EmptySeq
  <2>3. \A n \in Nat \ {0} : n <= 1 => n = 1
    OBVIOUS
  <2>4. Len(sHand) = 1
    BY <2>1, <2>2, <2>3, Zenon
  <2> QED  BY <2>1, <2>4, Single
<1>6. ASSUME TypeOK
      PROVE  /\ (loop = "handle" => cHand # <<>> /\ Tail(cHand) = <<>>)
             /\ (loop # "handle" => cHand = <<>>)
  <2>1. cHand \in Seq(Requests) /\ Len(cHand) = IF loop = "handle" THEN 1 ELSE 0
    BY <1>6 DEF TypeOK, LoopTypes
  <2> QED  BY <2>1, Single, EmptySeq
<1> QED  BY <1>1, <1>2, <1>3, <1>4, <1>5, <1>6

\* PairedUnlessDropped with the part between Replies and Unsent named.
Paired ==
  ~dropped =>
    \E rest \in Packets : /\ uncompleted = Cat(Replies, Cat(rest, Unsent))
                          /\ cOpen /\ sOpen => rest = Ahead

\* Paired, written with Cat, is PairedUnlessDropped.
LEMMA PairedImplies == TypeOK /\ Paired => PairedUnlessDropped
<1> SUFFICES ASSUME TypeOK, Paired, ~dropped
             PROVE  /\ uncompleted = Replies \o (Between \o Unsent)
                    /\ cOpen /\ sOpen => Between = Ahead
  BY DEF PairedUnlessDropped
<1>1. PICK rest \in Packets : /\ uncompleted = Cat(Replies, Cat(rest, Unsent))
                              /\ cOpen /\ sOpen => rest = Ahead
  BY DEF Paired
<1>2. Between = rest
  <2>1. /\ Replies \in Seq(Requests) /\ Unsent \in Seq(Requests)
        /\ rest \in Seq(Requests)
    BY Ways, Cats DEF Packets
  <2>2. SubSeq(uncompleted, Len(Replies) + 1, Len(uncompleted) - Len(Unsent)) = rest
    BY <1>1, <2>1, Middle DEF Cat
  <2> QED  BY <2>2 DEF Between
<1>3. uncompleted = Replies \o (rest \o Unsent)
  BY <1>1 DEF Cat
<1> QED  BY <1>1, <1>2, <1>3, Zenon

\* A packet that was dropped stays dropped.
LEMMA Monotone == ASSUME [Next]_vars, dropped PROVE dropped'
<1>1. ASSUME NEW r \in Requests, Begin(r) \/ Call(r) PROVE dropped'
  BY <1>1 DEF Begin, Call, Push, SendCheck, Enqueue, EnqueueTimeout, Timeout, Receive
<1>2. CASE ClientWrite \/ ServerRead \/ ServerWrite \/ ClientRead
  BY <1>2 DEF ClientWrite, ServerRead, ServerWrite, ClientRead, ClientClosed
<1>3. CASE ServerHandle \/ ServerRespond \/ ServerRespondTimeout
  BY <1>3 DEF ServerHandle, ServerRespond, ServerRespondTimeout
<1>4. CASE Loop
  BY <1>4 DEF Loop, LoopTake, LoopHandle, LoopNotify, LoopPut, LoopExit
<1>5. CASE ClientConnFails \/ ServerConnFails \/ ChannelClose \/ UNCHANGED vars
  BY <1>5 DEF ClientConnFails, ClientClosed, ServerConnFails, ChannelClose, vars
<1> QED  BY <1>1, <1>2, <1>3, <1>4, <1>5 DEF Next

\* PopHead in handleClientLoop finds the request of the response in hand.
LEMMA HandledFirst ==
  ASSUME TypeOK, loop = "handle", NEW rest \in Packets,
         uncompleted = Cat(Replies, Cat(rest, Unsent))
  PROVE  /\ uncompleted # <<>>
         /\ Head(uncompleted) = Head(cHand)
         /\ Tail(uncompleted) = Cat(Cat(<<>>, Cat(cRecvQ, s2c)), Cat(rest, Unsent))
<1>1. /\ cHand \in Packets /\ cHand # <<>> /\ Tail(cHand) = <<>>
      /\ Cat(cRecvQ, s2c) \in Packets /\ Cat(rest, Unsent) \in Packets
  BY Ways, Cats
<1>2. uncompleted = Cat(Cat(cHand, Cat(cRecvQ, s2c)), Cat(rest, Unsent))
  BY Ways
<1>3. PopsFirst(cHand, Cat(cRecvQ, s2c), Cat(rest, Unsent))
  BY <1>1, Pops
<1> QED  BY <1>2, <1>3, Zenon DEF PopsFirst

\* Every step keeps Paired.
LEMMA PairStep == TypeOK /\ LockHeld /\ Paired /\ [Next]_vars => Paired'
<1> SUFFICES ASSUME TypeOK, LockHeld, Paired, [Next]_vars, ~dropped PROVE Paired'
  BY Monotone DEF Paired
<1>p. PICK rest \in Packets : /\ uncompleted = Cat(Replies, Cat(rest, Unsent))
                              /\ cOpen /\ sOpen => rest = Ahead
  BY Zenon DEF Paired
<1>r. Replies = Cat(cHand, Cat(cRecvQ, s2c))
        /\ Replies' = Cat(cHand', Cat(cRecvQ', s2c'))
  BY DEF Replies, Cat
<1>a. /\ Ahead = Cat(sWriteQ, Cat(sHand, Cat(sRecvQ, Cat(c2s, cWriteQ))))
      /\ Ahead' = Cat(sWriteQ', Cat(sHand', Cat(sRecvQ', Cat(c2s', cWriteQ'))))
  BY DEF Ahead, Cat
<1>k. ASSUME UNCHANGED <<uncompleted, Replies, Unsent, cOpen, sOpen>>,
             cOpen /\ sOpen => Ahead' = Ahead
      PROVE  Paired'
  BY <1>p, <1>k, Zenon DEF Paired
<1>l. ASSUME UNCHANGED <<uncompleted, Replies, Unsent>>, ~(cOpen' /\ sOpen')
      PROVE  Paired'
  BY <1>p, <1>l, Zenon DEF Paired
<1>1. ASSUME NEW r \in Requests, Begin(r) \/ Timeout(r) \/ Receive(r) PROVE Paired'
  <2>1. UNCHANGED <<uncompleted, Replies, Unsent, cOpen, sOpen, Ahead>>
    BY <1>1 DEF Begin, Timeout, Receive, Replies, Ahead, Unsent, wayVars, openVars
  <2> QED  BY <1>k, <2>1
<1>2. ASSUME NEW r \in Requests, Push(r) PROVE Paired'
  <2>1. Unsent = <<>> /\ Unsent' = <<r>> /\ uncompleted' = Append(uncompleted, r)
    BY <1>2, ExchangeAssumption DEF Push, Unsent
  <2>2. Replies \in Packets
    BY <1>r, Ways, Cats
  <2>3. uncompleted' = Cat(Replies, Cat(rest, <<r>>))
    BY <1>p, <2>1, <2>2, EndMoves
  <2>4. UNCHANGED <<Replies, Ahead, cOpen, sOpen>>
    BY <1>2 DEF Push, Replies, Ahead, wayVars, openVars
  <2> QED  BY <1>p, <2>1, <2>3, <2>4, Zenon DEF Paired
<1>3. ASSUME NEW r \in Requests, SendCheck(r) PROVE Paired'
  <2>1. UNCHANGED <<Replies, Ahead, cOpen, sOpen>>
    BY <1>3 DEF SendCheck, Replies, Ahead, wayVars, openVars
  <2>2. CASE chOpen
    <3>1. UNCHANGED <<uncompleted, Unsent>>
      BY <1>3, <2>2 DEF SendCheck, Unsent
    <3> QED  BY <1>k, <2>1, <3>1
  <2>3. CASE ~chOpen
    <3>1. Unsent = <<r>> /\ Unsent' = <<>> /\ uncompleted' = PopTail(uncompleted)
      BY <1>3, <2>3, ExchangeAssumption DEF SendCheck, LockHeld, Unsent
    <3>2. Replies \in Packets
      BY <1>r, Ways, Cats
    <3>3. uncompleted' = Cat(Replies, Cat(rest, <<>>))
      BY <1>p, <3>1, <3>2, EndMoves
    <3> QED  BY <1>p, <2>1, <3>1, <3>3, Zenon DEF Paired
  <2> QED  BY <2>2, <2>3
<1>4. ASSUME NEW r \in Requests, Enqueue(r) PROVE Paired'
  <2>1. Unsent = <<r>> /\ Unsent' = <<>>
    BY <1>4, ExchangeAssumption DEF Enqueue, AfterSend, LockHeld, Unsent
  <2>2. UNCHANGED <<uncompleted, Replies, cOpen, sOpen>>
    BY <1>4 DEF Enqueue, Replies, openVars
  <2>3. Replies \in Packets /\ Cat(rest, <<r>>) \in Packets
    BY <1>r, Ways, Cats
  <2>4. uncompleted' = Cat(Replies, Cat(Cat(rest, <<r>>), <<>>))
    <3>1. uncompleted' = Cat(Replies, Cat(rest, <<r>>))
      BY <1>p, <2>1, <2>2
    <3> QED  BY <2>3, <3>1, EndMoves
  <2>5. ASSUME cOpen PROVE Ahead' = Cat(Ahead, <<r>>)
    <3>1. /\ cWriteQ' = Append(cWriteQ, r)
          /\ UNCHANGED <<sWriteQ, sHand, sRecvQ, c2s>>
      BY <1>4, <2>5 DEF Enqueue
    <3>2. /\ sWriteQ \in Packets /\ sHand \in Packets /\ sRecvQ \in Packets
          /\ c2s \in Packets /\ cWriteQ \in Packets
      BY Ways
    <3>3. Cat(sWriteQ, Cat(sHand, Cat(sRecvQ, Cat(c2s, Append(cWriteQ, r)))))
            = Cat(Cat(sWriteQ, Cat(sHand, Cat(sRecvQ, Cat(c2s, cWriteQ)))), <<r>>)
      BY <3>2, EndMoves, SMTT(30)
    <3> QED  BY <1>a, <3>1, <3>3, Zenon
  <2> QED  BY <1>p, <2>1, <2>2, <2>3, <2>4, <2>5, Zenon DEF Paired
<1>5. ASSUME NEW r \in Requests, EnqueueTimeout(r) PROVE Paired'
  BY <1>5 DEF EnqueueTimeout, Paired
<1>6. CASE ClientWrite
  <2>1. UNCHANGED <<uncompleted, Replies, Unsent, cOpen, sOpen>>
    BY <1>6 DEF ClientWrite, Replies, Unsent, callVars, openVars
  <2>2. ASSUME sOpen PROVE Ahead' = Ahead
    <3>1. /\ c2s' = Append(c2s, Head(cWriteQ)) /\ cWriteQ' = Tail(cWriteQ)
          /\ cWriteQ # <<>> /\ UNCHANGED <<sWriteQ, sHand, sRecvQ>>
      BY <1>6, <2>2 DEF ClientWrite
    <3>2. Cat(Append(c2s, Head(cWriteQ)), Tail(cWriteQ)) = Cat(c2s, cWriteQ)
      BY <3>1, Ways, PacketMoves
    <3> QED  BY <1>a, <3>1, <3>2, Zenon
  <2> QED  BY <1>k, <2>1, <2>2, Zenon
<1>7. CASE ServerRead
  <2>1. /\ sRecvQ' = Append(sRecvQ, Head(c2s)) /\ c2s' = Tail(c2s)
        /\ c2s # <<>> /\ UNCHANGED <<sWriteQ, sHand, cWriteQ>>
    BY <1>7 DEF ServerRead
  <2>2. Cat(Append(sRecvQ, Head(c2s)), Cat(Tail(c2s), cWriteQ))
          = Cat(sRecvQ, Cat(c2s, cWriteQ))
    <3>1. sRecvQ \in Packets /\ c2s \in Packets /\ cWriteQ \in Packets
      BY Ways
    <3>2. c2s # <<>>
      BY <2>1
    <3>3. Forward(c2s, sRecvQ, cWriteQ)
      BY <3>1, <3>2, Forwards
    <3> QED  BY <3>3 DEF Forward
  <2>3. Ahead' = Ahead
    BY <1>a, <2>1, <2>2, Zenon
  <2>4. UNCHANGED <<uncompleted, Replies, Unsent, cOpen, sOpen>>
    BY <1>7 DEF ServerRead, Replies, Unsent, callVars, openVars
  <2> QED  BY <1>k, <2>3, <2>4, Zenon
<1>8. CASE ServerHandle
  <2>1. /\ sHand = <<>> /\ sHand' = <<Head(sRecvQ)>> /\ sRecvQ' = Tail(sRecvQ)
        /\ sRecvQ # <<>> /\ UNCHANGED <<sWriteQ, c2s, cWriteQ>>
    BY <1>8 DEF ServerHandle
  <2>2. Cat(c2s, cWriteQ) \in Packets
    BY Ways, Cats
  <2>3. Cat(<<Head(sRecvQ)>>, Cat(Tail(sRecvQ), Cat(c2s, cWriteQ)))
          = Cat(<<>>, Cat(sRecvQ, Cat(c2s, cWriteQ)))
    BY <2>1, <2>2, Ways, PacketMoves
  <2>4. Ahead' = Ahead
    BY <1>a, <2>1, <2>3, Zenon
  <2>5. UNCHANGED <<uncompleted, Replies, Unsent, cOpen, sOpen>>
    BY <1>8 DEF ServerHandle, Replies, Unsent, callVars, openVars
  <2> QED  BY <1>k, <2>4, <2>5, Zenon
<1>9. CASE ServerRespond
  <2>1. UNCHANGED <<uncompleted, Replies, Unsent, cOpen, sOpen>>
    BY <1>9 DEF ServerRespond, Replies, Unsent, callVars, openVars
  <2>2. ASSUME sOpen PROVE Ahead' = Ahead
    <3>1. /\ sWriteQ' = Append(sWriteQ, Head(sHand)) /\ sHand' = <<>>
          /\ sHand # <<>> /\ UNCHANGED <<sRecvQ, c2s, cWriteQ>>
      BY <1>9, <2>2 DEF ServerRespond
    <3>2. Cat(sRecvQ, Cat(c2s, cWriteQ)) \in Packets /\ Tail(sHand) = <<>>
      BY <3>1, Ways, Cats
    <3>3. Cat(Append(sWriteQ, Head(sHand)), Cat(Tail(sHand), Cat(sRecvQ, Cat(c2s, cWriteQ))))
            = Cat(sWriteQ, Cat(sHand, Cat(sRecvQ, Cat(c2s, cWriteQ))))
      <4>1. sWriteQ \in Packets /\ sHand \in Packets
        BY Ways
      <4>2. \A c \in Packets :
              Cat(Append(sWriteQ, Head(sHand)), Cat(Tail(sHand), c))
                = Cat(sWriteQ, Cat(sHand, c))
        <5>1. \A c \in Packets : Forward(sHand, sWriteQ, c)
          BY <3>1, <4>1, Forwards
        <5> QED  BY <5>1 DEF Forward
      <4> QED  BY <3>2, <4>2, Zenon
    <3> QED  BY <1>a, <3>1, <3>2, <3>3, Zenon
  <2> QED  BY <1>k, <2>1, <2>2, Zenon
<1>10. CASE ServerRespondTimeout
  BY <1>10 DEF ServerRespondTimeout, Paired
<1>11. CASE ServerWrite
  <2>1. UNCHANGED <<uncompleted, Unsent, cOpen, sOpen>> /\ sOpen
    BY <1>11 DEF ServerWrite, Unsent, callVars, openVars
  <2>2. CASE ~cOpen
    <3>1. Replies' = Replies
      BY <1>11, <2>2 DEF ServerWrite, Replies
    <3> QED  BY <1>l, <2>1, <2>2, <3>1, Zenon
  <2>3. CASE cOpen
    <3> DEFINE c == Cat(sHand, Cat(sRecvQ, Cat(c2s, cWriteQ)))
    <3>1. /\ s2c' = Append(s2c, Head(sWriteQ)) /\ sWriteQ' = Tail(sWriteQ)
          /\ sWriteQ # <<>> /\ UNCHANGED <<sHand, sRecvQ, c2s, cWriteQ, cHand, cRecvQ>>
      BY <1>11, <2>3 DEF ServerWrite
    <3>2. Ahead = Cat(sWriteQ, c) /\ Ahead' = Cat(Tail(sWriteQ), c)
            /\ Replies' = Cat(cHand, Cat(cRecvQ, Append(s2c, Head(sWriteQ))))
      BY <1>a, <1>r, <3>1, Zenon
    <3>3. c \in Packets
      BY Ways, Cats
    <3> HIDE DEF c
    <3>4. uncompleted = Cat(Cat(cHand, Cat(cRecvQ, s2c)), Cat(Cat(sWriteQ, c), Unsent))
      BY <1>p, <1>r, <2>1, <2>3, <3>2, Zenon
    <3>5. Ahead' \in Packets /\ uncompleted = Cat(Replies', Cat(Ahead', Unsent))
      <4>1. /\ sWriteQ \in Packets /\ cHand \in Packets /\ cRecvQ \in Packets
            /\ s2c \in Packets /\ Unsent \in Packets
        BY Ways
      <4>2. /\ Cat(Tail(sWriteQ), c) \in Packets
            /\ Cat(Cat(cHand, Cat(cRecvQ, s2c)), Cat(Cat(sWriteQ, c), Unsent))
                 = Cat(Cat(cHand, Cat(cRecvQ, Append(s2c, Head(sWriteQ)))),
                       Cat(Cat(Tail(sWriteQ), c), Unsent))
        BY <3>1, <3>3, <4>1, AcrossMoves
      <4> QED  BY <3>2, <3>4, <4>2, Zenon
    <3> QED  BY <2>1, <3>5, Zenon DEF Paired
  <2> QED  BY <2>2, <2>3
<1>12. CASE cOpen /\ ClientClosed
  <2>1. /\ UNCHANGED <<uncompleted, Unsent, cHand, cRecvQ>>
        /\ s2c' = <<>> /\ cOpen' = FALSE
    BY <1>12 DEF ClientClosed, Unsent, callVars
  <2>2. /\ Cat(s2c, rest) \in Packets
        /\ uncompleted = Cat(Cat(cHand, Cat(cRecvQ, <<>>)), Cat(Cat(s2c, rest), Unsent))
    <3>1. /\ cHand \in Packets /\ cRecvQ \in Packets /\ s2c \in Packets
          /\ Unsent \in Packets
      BY Ways
    <3>2. /\ Cat(s2c, rest) \in Packets
          /\ Cat(Cat(cHand, Cat(cRecvQ, s2c)), Cat(rest, Unsent))
               = Cat(Cat(cHand, Cat(cRecvQ, <<>>)), Cat(Cat(s2c, rest), Unsent))
      BY <3>1, LossMoves
    <3> QED  BY <1>p, <1>r, <3>2, Zenon
  <2>3. uncompleted' = Cat(Replies', Cat(Cat(s2c, rest), Unsent'))
    BY <1>r, <2>1, <2>2, Zenon
  <2> QED  BY <2>1, <2>2, <2>3, Zenon DEF Paired
<1>13. CASE ClientRead
  <2>1. CASE ~chOpen
    BY <1>12, <1>13, <2>1 DEF ClientRead
  <2>2. CASE chOpen
    <3>1. /\ cRecvQ' = Append(cRecvQ, Head(s2c)) /\ s2c' = Tail(s2c)
          /\ s2c # <<>> /\ cHand' = cHand
      BY <1>13, <2>2 DEF ClientRead
    <3>2. Cat(Append(cRecvQ, Head(s2c)), Tail(s2c)) = Cat(cRecvQ, s2c)
      BY <3>1, Ways, PacketMoves
    <3>3. Replies' = Replies
      BY <1>r, <3>1, <3>2, Zenon
    <3>4. UNCHANGED <<uncompleted, Unsent, cOpen, sOpen, Ahead>>
      BY <1>13, <2>2 DEF ClientRead, Ahead, Unsent, callVars, openVars
    <3> QED  BY <1>k, <3>3, <3>4
  <2> QED  BY <2>1, <2>2
<1>14. CASE ClientConnFails
  BY <1>12, <1>14 DEF ClientConnFails
<1>15. CASE ServerConnFails
  <2>1. UNCHANGED <<uncompleted, Replies, Unsent>> /\ sOpen' = FALSE
    BY <1>15 DEF ServerConnFails, Replies, Unsent, callVars
  <2> QED  BY <1>l, <2>1, Zenon
<1>16. CASE LoopTake
  <2>1. /\ cHand = <<>> /\ cHand' = <<Head(cRecvQ)>> /\ cRecvQ' = Tail(cRecvQ)
        /\ cRecvQ # <<>> /\ s2c' = s2c
    BY <1>16, Ways DEF LoopTake
  <2>2. Cat(<<Head(cRecvQ)>>, Cat(Tail(cRecvQ), s2c)) = Cat(<<>>, Cat(cRecvQ, s2c))
    BY <2>1, Ways, PacketMoves
  <2>3. Replies' = Replies
    BY <1>r, <2>1, <2>2, Zenon
  <2>4. UNCHANGED <<uncompleted, Unsent, cOpen, sOpen, Ahead>>
    BY <1>16 DEF LoopTake, Ahead, Unsent, callVars, openVars
  <2> QED  BY <1>k, <2>3, <2>4
<1>17. CASE LoopHandle
  <2>1. /\ uncompleted' = Cat(Cat(<<>>, Cat(cRecvQ, s2c)), Cat(rest, Unsent))
        /\ cHand' = <<>> /\ UNCHANGED <<cRecvQ, s2c>>
    BY <1>17, <1>p, HandledFirst DEF LoopHandle
  <2>2. Ahead' = Ahead /\ Unsent' = Unsent /\ cOpen' = cOpen /\ sOpen' = sOpen
    BY <1>17 DEF LoopHandle, Ahead, Unsent, callVars
  <2> QED  BY <1>p, <1>r, <2>1, <2>2, Zenon DEF Paired
<1>18. CASE LoopNotify \/ LoopPut \/ LoopExit \/ ChannelClose \/ UNCHANGED vars
  <2>1. UNCHANGED <<uncompleted, Replies, Unsent, cOpen, sOpen, Ahead>>
    BY <1>18 DEF LoopNotify, LoopPut, LoopExit, ChannelClose, vars, Replies,
       Ahead, Unsent, callVars, wayVars, openVars
  <2> QED  BY <1>k, <2>1
<1> QED
  BY <1>1, <1>2, <1>3, <1>4, <1>5, <1>6, <1>7, <1>8, <1>9, <1>10, <1>11, <1>13,
     <1>14, <1>15, <1>16, <1>17, <1>18 DEF Next, Call, Loop

-----------------------------------------------------------------------------
(* The theorems.                                                           *)

\* What the steps keep: the types, who holds the notify channels and the
\* lock, the count of the queue's entries, their order, and with it what
\* the path handler was given.
IInv ==
  /\ TypeOK
  /\ HoldsChan
  /\ LockHeld
  /\ Counted
  /\ Paired
  /\ CallbackPaired

\* The inductive invariant holds of a connection just made.
LEMMA InitIInv == Init => IInv
<1> SUFFICES ASSUME Init PROVE IInv
  OBVIOUS
<1> USE ExchangeAssumption DEF Init
<1>1. TypeOK
  <2>1. <<>> \in Seq(Requests) /\ Len(<<>>) = 0
    BY EmptySeq
  <2>2. \A cap \in Nat : <<>> \in Queue(cap)
    BY <2>1 DEF Queue
  <2>3. CallTypes /\ ChanTypes
    BY <2>1 DEF CallTypes, ChanTypes, Steps
  <2>4. WayTypes
    BY <2>2 DEF WayTypes
  <2>5. LoopTypes
    BY <2>1 DEF LoopTypes
  <2>6. OpenTypes
    BY DEF OpenTypes
  <2> QED  BY <2>3, <2>4, <2>5, <2>6 DEF TypeOK
<1>2. HoldsChan /\ LockHeld
  BY DEF HoldsChan, LockHeld
<1>3. Counted
  BY EmptySeq DEF Counted
<1>4. Paired
  <2>1. Replies = <<>> /\ Ahead = <<>> /\ Unsent = <<>>
    BY EmptySeq, ConcatEmptySeq DEF Replies, Ahead, Unsent
  <2>2. uncompleted = Cat(Replies, Cat(<<>>, Unsent)) /\ <<>> \in Packets
    BY <2>1, Cats
  <2> QED  BY <2>1, <2>2, Zenon DEF Paired
<1>5. CallbackPaired
  BY DEF CallbackPaired
<1> QED  BY <1>1, <1>2, <1>3, <1>4, <1>5 DEF IInv

\* The path handler is given a response with its request: PopHead took the
\* request of the response in hand.
LEMMA CallbackStep ==
  TypeOK /\ Paired /\ CallbackPaired /\ [Next]_vars => CallbackPaired'
<1> SUFFICES ASSUME TypeOK, Paired, CallbackPaired, [Next]_vars, ~dropped'
             PROVE  \A r \in Requests : callback'[r] \in {None, r}
  BY DEF CallbackPaired
<1>1. ~dropped /\ \A r \in Requests : callback[r] \in {None, r}
  BY Monotone DEF CallbackPaired
<1>2. CASE UNCHANGED callback
  BY <1>1, <1>2
<1>3. CASE LoopHandle
  <2>1. PICK rest \in Packets : uncompleted = Cat(Replies, Cat(rest, Unsent))
    BY <1>1 DEF Paired
  <2>2. uncompleted # <<>> /\ Head(uncompleted) = Head(cHand)
    BY <1>3, <2>1, HandledFirst DEF LoopHandle
  <2>3. callback' = [callback EXCEPT ![Head(cHand)] = Head(cHand)]
    BY <1>3, <2>2 DEF LoopHandle
  <2>4. callback \in [Requests -> Requests \cup {None}]
    BY DEF TypeOK, LoopTypes
  <2> QED  BY <1>1, <2>3, <2>4
<1>4. ASSUME NEW r \in Requests, Begin(r) \/ Call(r) PROVE UNCHANGED callback
  BY <1>4 DEF Begin, Call, Push, SendCheck, Enqueue, EnqueueTimeout, Timeout,
     Receive, loopVars
<1>5. CASE ClientWrite \/ ServerRead \/ ServerWrite \/ ClientRead
  BY <1>2, <1>5 DEF ClientWrite, ServerRead, ServerWrite, ClientRead, ClientClosed,
     loopVars
<1>6. CASE ServerHandle \/ ServerRespond \/ ServerRespondTimeout
  BY <1>2, <1>6 DEF ServerHandle, ServerRespond, ServerRespondTimeout, loopVars
<1>7. CASE LoopTake \/ LoopNotify \/ LoopPut \/ LoopExit
  BY <1>2, <1>7 DEF LoopTake, LoopNotify, LoopPut, LoopExit
<1>8. CASE ClientConnFails \/ ServerConnFails \/ ChannelClose \/ UNCHANGED vars
  BY <1>2, <1>8 DEF ClientConnFails, ClientClosed, ServerConnFails, ChannelClose,
     vars, loopVars
<1> QED  BY <1>2, <1>3, <1>4, <1>5, <1>6, <1>7, <1>8 DEF Next, Loop

\* Every behaviour of Exchange keeps IInv.
THEOREM Invariance == Spec => []IInv
<1>1. IInv /\ [Next]_vars => IInv'
  BY TypeStep, HoldsStep, CountStep, PairStep, CallbackStep DEF IInv
<1> QED  BY InitIInv, <1>1, PTL DEF Spec

\* The queues of both connections and both channels stay within their
\* capacities and every variable keeps its type.
THEOREM TypeCorrect == Spec => []TypeOK
BY Invariance, PTL DEF IInv

\* handleClientLoop never finds uncompletedRequestQueue empty when it has a
\* response in hand, whatever was dropped, timed out or failed.
THEOREM ResponseFindsRequest == Spec => []ResponseHasRequest
<1>1. IInv => ResponseHasRequest
  BY CountedImplies DEF IInv
<1> QED  BY Invariance, <1>1, PTL

\* Until packetToSendQueue drops a packet, uncompletedRequestQueue is the
\* requests under way in the order of the way, so PopHead and PopTail in
\* client.go and protocol.go take the entry they mean.
THEOREM QueueMatchesWay == Spec => []PairedUnlessDropped
<1>1. IInv => PairedUnlessDropped
  BY PairedImplies DEF IInv
<1> QED  BY Invariance, <1>1, PTL

\* Until packetToSendQueue drops a packet, the client's path handler is given
\* every response with the request it answers.
THEOREM CallbacksPaired == Spec => []CallbackPaired
BY Invariance, PTL DEF IInv
-----------------------------------------------------------------------------
(* Exchange implements Service.  IInv has the order of the requests, which *)
(* Service's Ask, Withdraw and Answer need.  Return needs more: that a     *)
(* notify channel belongs to one call at a time and, until a call times    *)
(* out, carries nothing but that call's own response.                      *)

\* Some call has given up waiting.
TimedOut == \E r \in Requests : pc[r] = "timeout"

\* A notify channel belongs to one call that has not returned, or to the pool.
Owned ==
  /\ \A r \in Requests : respChan[r] # None =>
       /\ respChan[r] \notin pool /\ r \notin Streams
       /\ pc[r] \in {"ready", "pushed", "sending", "waiting"}
  /\ \A r, s \in Requests : respChan[r] # None /\ respChan[r] = respChan[s] => r = s

\* Only a call that was answered has returned data.
ReplyLast == \A r \in Requests : reply[r] # None => pc[r] = "answered"

Distinct(q) == \A i, j \in 1 .. Len(q) : q[i] = q[j] => i = j

\* Until a packet is dropped, a request is in uncompletedRequestQueue once,
\* from PushTail until its response comes, and its response comes after it
\* was sent.
Queued ==
  ~dropped =>
    /\ Distinct(uncompleted)
    /\ \A i \in 1 .. Len(uncompleted) :
         /\ pc[uncompleted[i]] \notin {"idle", "ready", "failed"}
         /\ callback[uncompleted[i]] = None
    /\ \A r \in Requests : callback[r] # None =>
         pc[r] \in {"waiting", "sent", "timeout", "answered"}

\* The response to request r is, or is about to be put, in notify channel ch.
For(r, ch) == pc[r] = "waiting" /\ respChan[r] = ch /\ callback[r] = r

\* Until a packet is dropped or a call times out, a notify channel holds the
\* response of its owner, and so does handleClientLoop.
Delivered ==
  (~dropped /\ ~TimedOut) =>
    /\ \A ch \in Chans : buf[ch] # None => For(buf[ch], ch)
    /\ loop \in {"notify", "put"} => /\ For(notifyData, notifyChan)
                                     /\ buf[notifyChan] = None

\* The inductive invariant of the refinement.
RInv == IInv /\ Owned /\ ReplyLast /\ Queued /\ Delivered
-----------------------------------------------------------------------------
(* Ownership of the notify channels.                                       *)

\* The deferred function of DoRequest: what it gives back, and what it leaves.
LEMMA ReleaseOwned ==
  ASSUME ChanTypes, NEW r \in Requests, ReleaseNotifyChan(r), Owned
  PROVE  /\ respChan'[r] = None
         /\ \A q \in Requests \ {r} : respChan'[q] = respChan[q]
         /\ pool' = pool \cup ({respChan[r]} \ {None})
         /\ \A ch \in Chans : buf'[ch] = IF ch = respChan[r] THEN None ELSE buf[ch]
<1> USE ExchangeAssumption DEF ChanTypes
<1>1. CASE respChan[r] = None
  BY <1>1 DEF ReleaseNotifyChan, chanVars
<1>2. CASE respChan[r] # None
  BY <1>2 DEF ReleaseNotifyChan
<1> QED  BY <1>1, <1>2

\* A call that returns gives its notify channel back and keeps nothing.
LEMMA OwnedRelease ==
  ASSUME TypeOK, Owned, NEW r \in Requests, ReleaseNotifyChan(r),
         \A q \in Requests \ {r} : pc'[q] = pc[q]
  PROVE  Owned'
<1>1. ChanTypes
  BY DEF TypeOK
<1>2. /\ respChan'[r] = None
      /\ \A q \in Requests \ {r} : respChan'[q] = respChan[q]
      /\ pool' = pool \cup ({respChan[r]} \ {None})
  BY <1>1, ReleaseOwned
<1>3. ASSUME NEW q \in Requests, respChan'[q] # None
      PROVE  /\ respChan'[q] \notin pool' /\ q \notin Streams
             /\ pc'[q] \in {"ready", "pushed", "sending", "waiting"}
  <2>1. q # r
    BY <1>2, <1>3
  <2>2. respChan'[q] = respChan[q] /\ pc'[q] = pc[q]
    BY <1>2, <2>1
  <2>3. /\ respChan[q] \notin pool /\ q \notin Streams
        /\ pc[q] \in {"ready", "pushed", "sending", "waiting"}
    BY <1>3, <2>2 DEF Owned
  <2>4. respChan[q] # respChan[r]
    BY <1>3, <2>1, <2>2 DEF Owned
  <2> QED  BY <1>2, <2>2, <2>3, <2>4
<1>4. ASSUME NEW q \in Requests, NEW s \in Requests,
             respChan'[q] # None, respChan'[q] = respChan'[s]
      PROVE  q = s
  BY <1>2, <1>4 DEF Owned
<1> QED  BY <1>3, <1>4 DEF Owned

\* The connections and the handle loops return nothing to a caller and leave
\* the pool of notify channels alone.
LEMMA SystemKeepsPool == ASSUME System PROVE UNCHANGED <<pool, reply>>
<1> USE DEF callVars, chanVars
<1>1. CASE ClientWrite \/ ServerRead \/ ServerWrite \/ ClientRead
  BY <1>1 DEF ClientWrite, ServerRead, ServerWrite, ClientRead, ClientClosed
<1>2. CASE ServerHandle \/ ServerRespond \/ ServerRespondTimeout
  BY <1>2 DEF ServerHandle, ServerRespond, ServerRespondTimeout
<1>3. CASE Loop
  BY <1>3 DEF Loop, LoopTake, LoopHandle, LoopNotify, LoopPut, LoopExit
<1>4. CASE ClientConnFails \/ ServerConnFails \/ ChannelClose \/ UNCHANGED vars
  BY <1>4 DEF ClientConnFails, ClientClosed, ServerConnFails, ChannelClose, vars
<1> QED  BY <1>1, <1>2, <1>3, <1>4 DEF System

\* A notify channel is never held by two calls, nor by a call and the pool.
LEMMA OwnedStep == TypeOK /\ Owned /\ [Next]_vars => Owned'
<1> SUFFICES ASSUME TypeOK, Owned, [Next]_vars PROVE Owned'
  OBVIOUS
<1>t. pc \in [Requests -> Steps] /\ respChan \in [Requests -> Chans \cup {None}]
  BY DEF TypeOK, CallTypes, ChanTypes
<1>1. ASSUME NEW r \in Requests, Begin(r) PROVE Owned'
  <2>1. \A q \in Requests \ {r} : pc'[q] = pc[q]
    BY <1>t, <1>1 DEF Begin
  <2>2. CASE UNCHANGED chanVars
    BY <1>1, <2>1, <2>2 DEF Begin, Owned, chanVars
  <2>3. CASE chOpen /\ r \notin Streams
    <3>1. PICK ch \in Chans : AcquireNotifyChan(r, ch)
      BY <1>1, <2>3 DEF Begin
    <3>2. /\ ch \in pool /\ pool' = pool \ {ch} /\ respChan'[r] = ch
          /\ \A q \in Requests \ {r} : respChan'[q] = respChan[q]
      BY <1>t, <3>1 DEF AcquireNotifyChan
    <3>3. pc'[r] = "ready"
      BY <1>t, <1>1, <2>3 DEF Begin
    <3>4. \A q \in Requests : respChan'[q] # None =>
            /\ respChan'[q] \notin pool' /\ q \notin Streams
            /\ pc'[q] \in {"ready", "pushed", "sending", "waiting"}
      BY <2>1, <2>3, <3>2, <3>3 DEF Owned
    <3>5. \A q, s \in Requests :
            respChan'[q] # None /\ respChan'[q] = respChan'[s] => q = s
      BY <3>2 DEF Owned
    <3> QED  BY <3>4, <3>5 DEF Owned
  <2> QED  BY <1>1, <2>2, <2>3 DEF Begin
<1>2. ASSUME NEW r \in Requests, Push(r) \/ Enqueue(r) \/ EnqueueTimeout(r)
      PROVE  Owned'
  <2>1. CASE Push(r)
    BY <1>t, <2>1 DEF Push, Owned, chanVars
  <2>2. CASE Enqueue(r) \/ EnqueueTimeout(r)
    <3>1. UNCHANGED <<respChan, pool>> /\ pc'[r] \in {"sent", "waiting"}
            /\ (r \notin Streams => pc'[r] = "waiting")
            /\ \A q \in Requests \ {r} : pc'[q] = pc[q]
      BY <1>t, <2>2 DEF Enqueue, EnqueueTimeout, AfterSend, chanVars
    <3> QED  BY <3>1 DEF Owned
  <2> QED  BY <1>2, <2>1, <2>2
<1>3. ASSUME NEW r \in Requests, SendCheck(r) PROVE Owned'
  <2>1. CASE chOpen
    BY <1>t, <1>3, <2>1 DEF SendCheck, Owned, chanVars
  <2>2. CASE ~chOpen
    BY <1>t, <1>3, <2>2, OwnedRelease DEF SendCheck
  <2> QED  BY <2>1, <2>2
<1>4. ASSUME NEW r \in Requests, Timeout(r) \/ Receive(r) PROVE Owned'
  BY <1>t, <1>4, OwnedRelease DEF Timeout, Receive
<1>5. CASE System
  <2>1. UNCHANGED pool
    BY <1>5, SystemKeepsPool
  <2> QED  BY <1>5, <2>1, SystemKeepsCalls DEF Owned
<1> QED  BY <1>1, <1>2, <1>3, <1>4, <1>5, StepCases DEF Call

\* Data is returned once, and ends the call.
LEMMA ReplyStep == TypeOK /\ ReplyLast /\ [Next]_vars => ReplyLast'
<1> SUFFICES ASSUME TypeOK, ReplyLast, [Next]_vars PROVE ReplyLast'
  OBVIOUS
<1> USE DEF TypeOK, CallTypes, ReplyLast
<1>1. ASSUME NEW r \in Requests, Begin(r) \/ Push(r) \/ SendCheck(r) \/ Timeout(r)
      PROVE  ReplyLast'
  BY <1>1 DEF Begin, Push, SendCheck, Timeout
<1>2. ASSUME NEW r \in Requests, Enqueue(r) \/ EnqueueTimeout(r) PROVE ReplyLast'
  BY <1>2 DEF Enqueue, EnqueueTimeout, AfterSend
<1>3. ASSUME NEW r \in Requests, Receive(r) PROVE ReplyLast'
  BY <1>3 DEF Receive
<1>4. CASE System
  BY <1>4, SystemKeepsPool, SystemKeepsCalls
<1> QED  BY <1>1, <1>2, <1>3, <1>4, StepCases DEF Call
-----------------------------------------------------------------------------
(* The entries of uncompletedRequestQueue.                                 *)

\* The request that is being sent is the last one in the queue; when a
\* response is in hand there is another one before it.
LEMMA UnsentLast ==
  ASSUME TypeOK, Counted, Paired, ~dropped, sendRequestLock \in Requests
  PROVE  /\ Len(uncompleted) \in Nat \ {0}
         /\ uncompleted[Len(uncompleted)] = sendRequestLock
         /\ loop = "handle" => Len(uncompleted) >= 2
<1>1. PICK rest \in Packets : uncompleted = Cat(Replies, Cat(rest, Unsent))
  BY DEF Paired
<1>2. Unsent = <<sendRequestLock>>
  BY ExchangeAssumption DEF Unsent
<1>3. Replies \in Packets
  BY Ways, Cats
<1>4. uncompleted = Cat(Cat(Replies, rest), <<sendRequestLock>>)
  BY <1>1, <1>2, <1>3, Cats
<1> DEFINE y == Cat(Replies, rest)
<1>5. y \in Seq(Requests) /\ <<sendRequestLock>> \in Seq(Requests)
  BY <1>3, Cats DEF Packets
<1>6. uncompleted = y \o <<sendRequestLock>>
  BY <1>4 DEF Cat
<1> HIDE DEF y
<1>7. /\ Len(y) \in Nat /\ Len(uncompleted) = Len(y) + 1
      /\ uncompleted[Len(y) + 1] = sendRequestLock
  BY <1>5, <1>6, ConcatProperties, LenProperties
<1>8. ASSUME loop = "handle" PROVE Len(uncompleted) >= 2
  <2>1. Len(cHand) = 1
    BY <1>8 DEF TypeOK, LoopTypes
  <2>2. /\ Len(cRecvQ) \in Nat /\ Len(s2c) \in Nat /\ Len(sWriteQ) \in Nat
        /\ Len(sHand) \in Nat /\ Len(sRecvQ) \in Nat /\ Len(c2s) \in Nat
        /\ Len(cWriteQ) \in Nat
    BY Queues, LenProperties
  <2>3. sendRequestLock # None
    BY ExchangeAssumption
  <2> QED  BY <1>7, <2>1, <2>2, <2>3 DEF Counted
<1> QED  BY <1>7, <1>8

\* What PushTail, PopTail and PopHead leave of a queue without duplicates.
LEMMA DistinctMoves ==
  ASSUME NEW q \in Seq(Requests), Distinct(q)
  PROVE  /\ \A x \in Requests : (\A i \in 1 .. Len(q) : q[i] # x) =>
              /\ Distinct(Append(q, x)) /\ Len(Append(q, x)) = Len(q) + 1
              /\ \A i \in 1 .. Len(q) + 1 :
                   Append(q, x)[i] = IF i = Len(q) + 1 THEN x ELSE q[i]
         /\ q # <<>> =>
              /\ Distinct(PopTail(q)) /\ Len(PopTail(q)) = Len(q) - 1
              /\ \A i \in 1 .. Len(q) - 1 : /\ PopTail(q)[i] = q[i]
                                            /\ q[i] # q[Len(q)]
              /\ Distinct(Tail(q)) /\ Len(Tail(q)) = Len(q) - 1 /\ Head(q) = q[1]
              /\ \A i \in 1 .. Len(q) - 1 : /\ Tail(q)[i] = q[i + 1]
                                            /\ q[i + 1] # q[1]
<1>1. Len(q) \in Nat
  BY LenProperties
<1>2. ASSUME NEW x \in Requests, \A i \in 1 .. Len(q) : q[i] # x
      PROVE  /\ Distinct(Append(q, x)) /\ Len(Append(q, x)) = Len(q) + 1
             /\ \A i \in 1 .. Len(q) + 1 :
                  Append(q, x)[i] = IF i = Len(q) + 1 THEN x ELSE q[i]
  <2>1. /\ Len(Append(q, x)) = Len(q) + 1
        /\ \A i \in 1 .. Len(q) : Append(q, x)[i] = q[i]
        /\ Append(q, x)[Len(q) + 1] = x
    BY <1>1, AppendProperties
  <2> QED  BY <1>1, <1>2, <2>1 DEF Distinct
<1>3. ASSUME q # <<>>
      PROVE  /\ Distinct(PopTail(q)) /\ Len(PopTail(q)) = Len(q) - 1
             /\ \A i \in 1 .. Len(q) - 1 : PopTail(q)[i] = q[i] /\ q[i] # q[Len(q)]
  <2>1. Len(q) > 0
    BY <1>1, <1>3, EmptySeq
  <2>2. /\ Len(SubSeq(q, 1, Len(q) - 1)) = Len(q) - 1
        /\ \A i \in 1 .. Len(q) - 1 : SubSeq(q, 1, Len(q) - 1)[i] = q[i]
    <3>1. /\ 1 \in Nat \ {0} /\ Len(q) - 1 \in Nat /\ Len(q) - 1 <= Len(q)
          /\ 1 <= (Len(q) - 1) + 1 /\ (Len(q) - 1) - 1 + 1 = Len(q) - 1
      BY <1>1, <2>1
    <3>2. /\ Len(SubSeq(q, 1, Len(q) - 1)) = (Len(q) - 1) - 1 + 1
          /\ \A i \in 1 .. (Len(q) - 1) - 1 + 1 :
               SubSeq(q, 1, Len(q) - 1)[i] = q[1 + i - 1]
      BY <3>1, SubSeqFacts
    <3>3. \A i \in 1 .. Len(q) - 1 : 1 + i - 1 = i
      BY <1>1
    <3> QED  BY <3>1, <3>2, <3>3, Zenon
  <2>3. PopTail(q) = SubSeq(q, 1, Len(q) - 1)
    BY <1>3 DEF PopTail
  <2>4. \A i \in 1 .. Len(q) - 1 : q[i] # q[Len(q)]
    BY <1>1, <2>1 DEF Distinct
  <2>5. Distinct(PopTail(q))
    BY <1>1, <2>1, <2>2, <2>3 DEF Distinct
  <2> QED  BY <2>2, <2>3, <2>4, <2>5
<1>4. ASSUME q # <<>>
      PROVE  /\ Distinct(Tail(q)) /\ Len(Tail(q)) = Len(q) - 1 /\ Head(q) = q[1]
             /\ \A i \in 1 .. Len(q) - 1 : Tail(q)[i] = q[i + 1] /\ q[i + 1] # q[1]
  <2>1. Len(q) > 0
    BY <1>1, <1>4, EmptySeq
  <2>2. /\ Len(Tail(q)) = Len(q) - 1 /\ Head(q) = q[1]
        /\ \A i \in 1 .. Len(q) - 1 : Tail(q)[i] = q[i + 1]
    BY <1>1, <1>4, HeadTailProperties
  <2> QED  BY <1>1, <2>1, <2>2 DEF Distinct
<1> QED  BY <1>2, <1>3, <1>4

\* The calls, the connections and most steps of the loops leave the queue and
\* what the path handler was given alone.
LEMMA SystemKeepsQueue ==
  ASSUME System, ~LoopHandle PROVE UNCHANGED <<uncompleted, callback>>
<1> USE DEF loopVars
<1>1. CASE ClientWrite \/ ServerRead \/ ServerWrite \/ ClientRead
  BY <1>1 DEF ClientWrite, ServerRead, ServerWrite, ClientRead, ClientClosed
<1>2. CASE ServerHandle \/ ServerRespond \/ ServerRespondTimeout
  BY <1>2 DEF ServerHandle, ServerRespond, ServerRespondTimeout
<1>3. CASE Loop
  BY <1>3 DEF Loop, LoopTake, LoopNotify, LoopPut, LoopExit
<1>4. CASE ClientConnFails \/ ServerConnFails \/ ChannelClose \/ UNCHANGED vars
  BY <1>4 DEF ClientConnFails, ClientClosed, ServerConnFails, ChannelClose, vars
<1> QED  BY <1>1, <1>2, <1>3, <1>4 DEF System

\* PopHead finds a request that was sent.
LEMMA HeadWasSent ==
  ASSUME TypeOK, LockHeld, Counted, Paired, Queued, ~dropped, loop = "handle"
  PROVE  /\ uncompleted # <<>> /\ Head(uncompleted) \in Requests
         /\ Head(uncompleted) = Head(cHand)
         /\ pc[Head(uncompleted)] \in {"waiting", "sent", "timeout", "answered"}
         /\ callback[Head(uncompleted)] = None
<1>1. PICK rest \in Packets : uncompleted = Cat(Replies, Cat(rest, Unsent))
  BY DEF Paired
<1>2. uncompleted # <<>> /\ Head(uncompleted) = Head(cHand)
  BY <1>1, HandledFirst
<1>3. /\ uncompleted \in Seq(Requests) /\ Len(uncompleted) \in Nat \ {0}
      /\ Head(uncompleted) \in Requests /\ Head(uncompleted) = uncompleted[1]
  BY <1>2, Queues, HeadTailProperties, LenProperties, EmptySeq
<1>4. /\ pc[uncompleted[1]] \notin {"idle", "ready", "failed"}
      /\ callback[uncompleted[1]] = None
  BY <1>3 DEF Queued
<1>5. pc[uncompleted[1]] \notin {"pushed", "sending"}
  <2> SUFFICES ASSUME pc[uncompleted[1]] \in {"pushed", "sending"} PROVE FALSE
    OBVIOUS
  <2>1. sendRequestLock = uncompleted[1] /\ sendRequestLock \in Requests
    BY <1>3 DEF LockHeld
  <2>2. /\ uncompleted[Len(uncompleted)] = uncompleted[1]
        /\ Len(uncompleted) >= 2
    BY <2>1, UnsentLast
  <2>3. Distinct(uncompleted)
    BY DEF Queued
  <2> QED  BY <1>3, <2>2, <2>3 DEF Distinct
<1>6. pc[uncompleted[1]] \in Steps
  BY <1>3 DEF TypeOK, CallTypes
<1> QED  BY <1>2, <1>3, <1>4, <1>5, <1>6 DEF Steps

\* Every step keeps Queued.
LEMMA QueuedStep ==
  TypeOK /\ LockHeld /\ Counted /\ Paired /\ Queued /\ [Next]_vars => Queued'
<1> SUFFICES ASSUME TypeOK, LockHeld, Counted, Paired, Queued, [Next]_vars, ~dropped'
             PROVE  Queued'
  BY DEF Queued
<1>0. ~dropped
  BY Monotone
<1>t. /\ pc \in [Requests -> Steps] /\ uncompleted \in Seq(Requests)
      /\ callback \in [Requests -> Requests \cup {None}]
      /\ Len(uncompleted) \in Nat
      /\ \A i \in 1 .. Len(uncompleted) : uncompleted[i] \in Requests
  BY LenProperties, ElementOfSeq DEF TypeOK, CallTypes, LoopTypes
<1>q. /\ Distinct(uncompleted)
      /\ \A i \in 1 .. Len(uncompleted) :
           /\ pc[uncompleted[i]] \notin {"idle", "ready", "failed"}
           /\ callback[uncompleted[i]] = None
      /\ \A r \in Requests : callback[r] # None =>
           pc[r] \in {"waiting", "sent", "timeout", "answered"}
  BY <1>0 DEF Queued
<1>1. ASSUME NEW r \in Requests, Begin(r) PROVE Queued'
  <2>1. UNCHANGED <<uncompleted, callback>> /\ pc[r] = "idle"
          /\ \A q \in Requests \ {r} : pc'[q] = pc[q]
    BY <1>t, <1>1 DEF Begin, loopVars
  <2>2. \A i \in 1 .. Len(uncompleted) : uncompleted[i] # r
    BY <1>q, <2>1
  <2>3. \A q \in Requests : callback[q] # None => q # r
    BY <1>q, <2>1
  <2> QED  BY <1>t, <1>q, <2>1, <2>2, <2>3 DEF Queued
<1>2. ASSUME NEW r \in Requests, Push(r) PROVE Queued'
  <2>1. /\ uncompleted' = Append(uncompleted, r) /\ callback' = callback
        /\ pc[r] = "ready" /\ pc'[r] = "pushed"
        /\ \A q \in Requests \ {r} : pc'[q] = pc[q]
    BY <1>t, <1>2 DEF Push, loopVars
  <2>2. \A i \in 1 .. Len(uncompleted) : uncompleted[i] # r
    BY <1>q, <2>1
  <2>3. /\ Distinct(Append(uncompleted, r))
        /\ Len(Append(uncompleted, r)) = Len(uncompleted) + 1
        /\ \A i \in 1 .. Len(uncompleted) + 1 :
             Append(uncompleted, r)[i] = IF i = Len(uncompleted) + 1 THEN r ELSE uncompleted[i]
    BY <1>t, <1>q, <2>2, DistinctMoves
  <2>4. callback[r] = None
    BY <1>q, <2>1
  <2>5. \A q \in Requests : callback'[q] # None =>
           pc'[q] \in {"waiting", "sent", "timeout", "answered"}
    BY <1>q, <2>1, <2>4
  <2>6. \A i \in 1 .. Len(uncompleted) :
           /\ pc'[uncompleted[i]] \notin {"idle", "ready", "failed"}
           /\ callback'[uncompleted[i]] = None
    BY <1>t, <1>q, <2>1, <2>2
  <2>7. \A i \in 1 .. Len(uncompleted') :
           uncompleted'[i] = r \/ \E j \in 1 .. Len(uncompleted) : uncompleted'[i] = uncompleted[j]
    BY <1>t, <2>1, <2>3
  <2>8. \A i \in 1 .. Len(uncompleted') :
           /\ pc'[uncompleted'[i]] \notin {"idle", "ready", "failed"}
           /\ callback'[uncompleted'[i]] = None
    BY <2>1, <2>4, <2>6, <2>7
  <2> QED  BY <2>1, <2>3, <2>5, <2>8 DEF Queued
<1>3. ASSUME NEW r \in Requests, SendCheck(r) PROVE Queued'
  <2>1. CASE chOpen
    BY <1>t, <1>q, <1>3, <2>1 DEF SendCheck, Queued, loopVars
  <2>2. CASE ~chOpen
    <3>1. /\ uncompleted' = PopTail(uncompleted) /\ callback' = callback
          /\ pc[r] = "pushed" /\ \A q \in Requests \ {r} : pc'[q] = pc[q]
      BY <1>t, <1>3, <2>2 DEF SendCheck, loopVars
    <3>2. sendRequestLock = r
      BY <3>1 DEF LockHeld
    <3>3. Len(uncompleted) \in Nat \ {0} /\ uncompleted[Len(uncompleted)] = r
      BY <1>0, <3>2, UnsentLast
    <3>4. uncompleted # <<>>
      BY <1>t, <3>3, EmptySeq
    <3>5. /\ Distinct(PopTail(uncompleted))
          /\ Len(PopTail(uncompleted)) = Len(uncompleted) - 1
          /\ \A i \in 1 .. Len(uncompleted) - 1 :
               PopTail(uncompleted)[i] = uncompleted[i] /\ uncompleted[i] # r
      BY <1>t, <1>q, <3>3, <3>4, DistinctMoves
    <3>6. \A i \in 1 .. Len(uncompleted') :
             /\ pc'[uncompleted'[i]] \notin {"idle", "ready", "failed"}
             /\ callback'[uncompleted'[i]] = None
      BY <1>t, <1>q, <3>1, <3>5
    <3>7. \A q \in Requests : callback'[q] # None =>
             pc'[q] \in {"waiting", "sent", "timeout", "answered"}
      BY <1>q, <3>1
    <3> QED  BY <3>1, <3>5, <3>6, <3>7 DEF Queued
  <2> QED  BY <2>1, <2>2
<1>4. ASSUME NEW r \in Requests, Enqueue(r) \/ EnqueueTimeout(r) \/ Timeout(r) \/ Receive(r)
      PROVE  Queued'
  <2>1. /\ UNCHANGED <<uncompleted, callback>>
        /\ pc'[r] \in {"waiting", "sent", "timeout", "answered"}
        /\ \A q \in Requests \ {r} : pc'[q] = pc[q]
    BY <1>t, <1>4 DEF Enqueue, EnqueueTimeout, AfterSend, Timeout, Receive, loopVars
  <2> QED  BY <1>t, <1>q, <2>1 DEF Queued
<1>5. CASE LoopHandle
  <2> DEFINE h == Head(uncompleted)
  <2>1. loop = "handle"
    BY <1>5 DEF LoopHandle
  <2>2. /\ uncompleted # <<>> /\ h \in Requests
        /\ pc[h] \in {"waiting", "sent", "timeout", "answered"}
    BY <1>0, <2>1, HeadWasSent
  <2>3. /\ uncompleted' = Tail(uncompleted) /\ pc' = pc
        /\ callback' = [callback EXCEPT ![h] = Head(cHand)]
    BY <1>5, <2>2 DEF LoopHandle, callVars
  <2> HIDE DEF h
  <2>4. \A q \in Requests \ {h} : callback'[q] = callback[q]
    BY <1>t, <2>3
  <2>5. /\ Distinct(Tail(uncompleted))
        /\ Len(Tail(uncompleted)) = Len(uncompleted) - 1 /\ h = uncompleted[1]
        /\ \A i \in 1 .. Len(uncompleted) - 1 :
             Tail(uncompleted)[i] = uncompleted[i + 1] /\ uncompleted[i + 1] # uncompleted[1]
    BY <1>t, <1>q, <2>2, DistinctMoves DEF h
  <2>6. \A i \in 1 .. Len(uncompleted') :
          \E j \in 1 .. Len(uncompleted) : uncompleted'[i] = uncompleted[j] /\ uncompleted[j] # h
    <3>1. \A i \in 1 .. Len(uncompleted) - 1 : i + 1 \in 1 .. Len(uncompleted)
      BY <1>t
    <3> QED  BY <2>3, <2>5, <3>1
  <2>7. \A i \in 1 .. Len(uncompleted') :
           /\ pc'[uncompleted'[i]] \notin {"idle", "ready", "failed"}
           /\ callback'[uncompleted'[i]] = None
    BY <1>t, <1>q, <2>3, <2>4, <2>6
  <2>8. \A q \in Requests : callback'[q] # None =>
           pc'[q] \in {"waiting", "sent", "timeout", "answered"}
    BY <1>q, <2>2, <2>3, <2>4
  <2> QED  BY <2>3, <2>5, <2>7, <2>8 DEF Queued
<1>6. CASE System /\ ~LoopHandle
  BY <1>q, <1>6, SystemKeepsQueue, SystemKeepsCalls DEF Queued
<1> QED  BY <1>1, <1>2, <1>3, <1>4, <1>5, <1>6, StepCases DEF Call
-----------------------------------------------------------------------------
(* What the notify channels hold.                                          *)

\* A call that timed out never returns anything else.
LEMMA LateStays == ASSUME TypeOK, [Next]_vars, TimedOut PROVE TimedOut'
<1>t. pc \in [Requests -> Steps]
  BY DEF TypeOK, CallTypes
<1>1. ASSUME NEW r \in Requests, Begin(r) \/ Call(r)
      PROVE  pc[r] # "timeout" /\ \A q \in Requests \ {r} : pc'[q] = pc[q]
  BY <1>t, <1>1 DEF Begin, Call, Push, SendCheck, Enqueue, EnqueueTimeout, AfterSend,
     Timeout, Receive
<1>2. CASE \E r \in Requests : Begin(r) \/ Call(r)
  BY <1>1, <1>2 DEF TimedOut
<1>3. CASE System
  BY <1>3, SystemKeepsCalls DEF TimedOut
<1> QED  BY <1>2, <1>3, StepCases

\* A step of a call that waits for nothing changes no response under way.
LEMMA OthersDelivered ==
  ASSUME TypeOK, Delivered, ~dropped, ~TimedOut,
         NEW r \in Requests, pc[r] # "waiting",
         \A q \in Requests \ {r} : pc'[q] = pc[q] /\ respChan'[q] = respChan[q],
         \A ch \in Chans : buf'[ch] \in {None, buf[ch]},
         UNCHANGED loopVars
  PROVE  Delivered'
<1> USE DEF For, loopVars
<1>t. /\ buf \in [Chans -> Requests \cup {None}]
      /\ loop \in {"notify", "put"} => notifyChan \in Chans /\ notifyData \in Requests
  BY DEF TypeOK, ChanTypes, LoopTypes
<1>1. ASSUME NEW ch \in Chans, buf'[ch] # None PROVE For(buf[ch], ch)' /\ buf'[ch] = buf[ch]
  <2>1. buf'[ch] = buf[ch] /\ buf[ch] \in Requests
    BY <1>t, <1>1
  <2>2. For(buf[ch], ch)
    BY <1>1, <2>1 DEF Delivered
  <2> QED  BY <1>t, <2>1, <2>2
<1>2. ASSUME loop' \in {"notify", "put"}
      PROVE  For(notifyData, notifyChan)' /\ buf'[notifyChan'] = None
  <2>1. For(notifyData, notifyChan) /\ buf[notifyChan] = None
    BY <1>2 DEF Delivered
  <2> QED  BY <1>t, <1>2, <2>1
<1> QED  BY <1>1, <1>2 DEF Delivered

\* The steps of the system that have nothing to do with a notify channel.
LEMMA SystemKeepsBuf ==
  ASSUME System, ~LoopHandle, ~LoopNotify, ~LoopPut
  PROVE  /\ UNCHANGED <<buf, callback>>
         /\ loop' \in {"notify", "put"} => UNCHANGED <<loop, notifyChan, notifyData>>
<1> USE DEF loopVars, chanVars
<1>1. CASE ClientWrite \/ ServerRead \/ ServerWrite \/ ClientRead
  BY <1>1 DEF ClientWrite, ServerRead, ServerWrite, ClientRead, ClientClosed
<1>2. CASE ServerHandle \/ ServerRespond \/ ServerRespondTimeout
  BY <1>2 DEF ServerHandle, ServerRespond, ServerRespondTimeout
<1>3. CASE Loop
  BY <1>3 DEF Loop, LoopTake, LoopExit
<1>4. CASE ClientConnFails \/ ServerConnFails \/ ChannelClose \/ UNCHANGED vars
  BY <1>4 DEF ClientConnFails, ClientClosed, ServerConnFails, ChannelClose, vars
<1> QED  BY <1>1, <1>2, <1>3, <1>4 DEF System

\* What a waiting call finds in its notify channel is its own response.
LEMMA ReceivesOwn ==
  ASSUME TypeOK, HoldsChan, Owned, Delivered, ~dropped, ~TimedOut,
         NEW r \in Requests, Receive(r)
  PROVE  /\ respChan[r] \in Chans
         /\ buf[respChan[r]] = r /\ callback[r] = r
<1>1. respChan[r] \in Chans
  BY DEF Receive, HoldsChan
<1>2. buf[respChan[r]] # None /\ buf[respChan[r]] \in Requests
  BY <1>1 DEF Receive, TypeOK, ChanTypes
<1>3. For(buf[respChan[r]], respChan[r])
  BY <1>1, <1>2 DEF Delivered
<1>4. buf[respChan[r]] = r
  BY <1>1, <1>2, <1>3, ExchangeAssumption DEF For, Owned
<1> QED  BY <1>1, <1>3, <1>4 DEF For

\* Every step keeps Delivered.
LEMMA DeliveredStep ==
  IInv /\ Owned /\ Queued /\ Delivered /\ [Next]_vars => Delivered'
<1> SUFFICES ASSUME IInv, Owned, Queued, Delivered, [Next]_vars, ~dropped', ~TimedOut'
             PROVE  Delivered'
  BY DEF Delivered
<1>i. TypeOK /\ HoldsChan /\ LockHeld /\ Counted /\ Paired
  BY DEF IInv
<1>0. ~dropped /\ ~TimedOut
  BY <1>i, Monotone, LateStays
<1>c. ChanTypes
  BY <1>i DEF TypeOK
<1>t. /\ pc \in [Requests -> Steps]
      /\ respChan \in [Requests -> Chans \cup {None}]
      /\ buf \in [Chans -> Requests \cup {None}]
      /\ callback \in [Requests -> Requests \cup {None}]
      /\ loop \in {"notify", "put"} => notifyChan \in Chans /\ notifyData \in Requests
  BY <1>i DEF TypeOK, CallTypes, ChanTypes, LoopTypes
<1>d. /\ \A ch \in Chans : buf[ch] # None => For(buf[ch], ch)
      /\ loop \in {"notify", "put"} => /\ For(notifyData, notifyChan)
                                       /\ buf[notifyChan] = None
  BY <1>0 DEF Delivered
<1>1. ASSUME NEW r \in Requests, Begin(r) PROVE Delivered'
  <2>1. /\ pc[r] # "waiting" /\ UNCHANGED loopVars
        /\ \A q \in Requests \ {r} : pc'[q] = pc[q]
    BY <1>t, <1>1 DEF Begin
  <2>2. /\ \A q \in Requests \ {r} : respChan'[q] = respChan[q]
        /\ \A ch \in Chans : buf'[ch] \in {None, buf[ch]}
    BY <1>t, <1>1 DEF Begin, AcquireNotifyChan, chanVars
  <2> QED  BY <1>i, <1>0, <2>1, <2>2, OthersDelivered
<1>2. ASSUME NEW r \in Requests, Push(r) \/ Enqueue(r) \/ EnqueueTimeout(r)
      PROVE  Delivered'
  <2>1. /\ pc[r] # "waiting" /\ UNCHANGED <<loopVars, respChan, buf>>
        /\ \A q \in Requests \ {r} : pc'[q] = pc[q]
    BY <1>t, <1>2 DEF Push, Enqueue, EnqueueTimeout, AfterSend, chanVars
  <2> QED  BY <1>i, <1>0, <2>1, OthersDelivered
<1>3. ASSUME NEW r \in Requests, SendCheck(r) PROVE Delivered'
  <2>1. /\ pc[r] # "waiting" /\ UNCHANGED loopVars
        /\ \A q \in Requests \ {r} : pc'[q] = pc[q]
    BY <1>t, <1>3 DEF SendCheck
  <2>2. ReleaseNotifyChan(r) \/ UNCHANGED <<respChan, buf>>
    BY <1>3 DEF SendCheck, chanVars
  <2>3. /\ \A q \in Requests \ {r} : respChan'[q] = respChan[q]
        /\ \A ch \in Chans : buf'[ch] \in {None, buf[ch]}
    BY <1>c, <2>2, ReleaseOwned
  <2> QED  BY <1>i, <1>0, <2>1, <2>3, OthersDelivered
<1>4. ASSUME NEW r \in Requests, Timeout(r) PROVE FALSE
  BY <1>t, <1>4 DEF Timeout, TimedOut
<1>5. ASSUME NEW r \in Requests, Receive(r) PROVE Delivered'
  <2>1. respChan[r] \in Chans /\ buf[respChan[r]] = r
    BY <1>i, <1>0, <1>5, ReceivesOwn
  <2>2. /\ \A q \in Requests \ {r} : pc'[q] = pc[q]
        /\ UNCHANGED <<loop, notifyChan, notifyData, callback>>
    BY <1>t, <1>5 DEF Receive, loopVars
  <2>3. /\ \A q \in Requests \ {r} : respChan'[q] = respChan[q]
        /\ \A ch \in Chans : buf'[ch] = IF ch = respChan[r] THEN None ELSE buf[ch]
    BY <1>c, <1>5, ReleaseOwned DEF Receive
  <2>4. ASSUME NEW ch \in Chans, buf'[ch] # None PROVE For(buf[ch], ch)' /\ buf'[ch] = buf[ch]
    <3>1. ch # respChan[r] /\ buf'[ch] = buf[ch] /\ buf[ch] \in Requests
      BY <1>t, <2>3, <2>4
    <3>2. For(buf[ch], ch)
      BY <1>d, <2>4, <3>1
    <3>3. buf[ch] # r
      BY <3>1, <3>2 DEF For
    <3> QED  BY <2>2, <2>3, <3>1, <3>2, <3>3 DEF For
  <2>5. ASSUME loop' \in {"notify", "put"}
        PROVE  For(notifyData, notifyChan)' /\ buf'[notifyChan'] = None
    <3>1. For(notifyData, notifyChan) /\ buf[notifyChan] = None
      BY <1>d, <2>2, <2>5
    <3>2. notifyData # r
      BY <2>1, <3>1, ExchangeAssumption DEF For
    <3>3. notifyData \in Requests /\ notifyChan \in Chans
      BY <1>t, <2>2, <2>5
    <3> QED  BY <2>2, <2>3, <3>1, <3>2, <3>3 DEF For
  <2> QED  BY <2>4, <2>5 DEF Delivered
<1>6. CASE LoopHandle
  <2> DEFINE h == Head(uncompleted)
  <2>1. /\ uncompleted # <<>> /\ h \in Requests /\ h = Head(cHand)
        /\ pc[h] \in {"waiting", "sent", "timeout", "answered"}
        /\ callback[h] = None
    BY <1>i, <1>0, <1>6, HeadWasSent DEF LoopHandle
  <2>2. /\ UNCHANGED <<pc, respChan, buf>>
        /\ callback' = [callback EXCEPT ![h] = Head(cHand)]
        /\ loop' = IF respChan[h] = None THEN "select" ELSE "notify"
        /\ notifyChan' = respChan[h]
        /\ notifyData' = IF respChan[h] = None THEN None ELSE Head(cHand)
    BY <1>6, <2>1 DEF LoopHandle, callVars, chanVars
  <2> HIDE DEF h
  <2>3. \A x \in Requests : callback'[x] = IF x = h THEN h ELSE callback[x]
    BY <1>t, <2>1, <2>2
  <2>4. ASSUME NEW ch \in Chans, buf'[ch] # None PROVE For(buf[ch], ch)' /\ buf'[ch] = buf[ch]
    <3>1. For(buf[ch], ch) /\ buf[ch] \in Requests
      BY <1>d, <1>t, <2>2, <2>4
    <3> QED  BY <2>2, <2>3, <3>1 DEF For
  <2>5. ASSUME loop' \in {"notify", "put"}
        PROVE  For(notifyData, notifyChan)' /\ buf'[notifyChan'] = None
    <3>1. /\ respChan[h] # None /\ respChan[h] \in Chans
          /\ notifyChan' = respChan[h] /\ notifyData' = h
      BY <1>t, <2>1, <2>2, <2>5
    <3>2. pc[h] = "waiting"
      BY <2>1, <3>1 DEF Owned
    <3>3. buf[respChan[h]] = None
      <4> SUFFICES ASSUME buf[respChan[h]] # None PROVE FALSE
        OBVIOUS
      <4>1. /\ For(buf[respChan[h]], respChan[h]) /\ buf[respChan[h]] \in Requests
        BY <1>t, <1>d, <3>1
      <4>2. buf[respChan[h]] = h
        BY <2>1, <3>1, <4>1 DEF For, Owned
      <4> QED  BY <2>1, <4>1, <4>2, ExchangeAssumption DEF For
    <3> QED  BY <2>1, <2>2, <2>3, <3>1, <3>2, <3>3 DEF For
  <2> QED  BY <2>4, <2>5 DEF Delivered
<1>7. CASE LoopNotify
  <2>1. loop = "notify" /\ buf[notifyChan] = None
    BY <1>d, <1>7 DEF LoopNotify
  <2>2. UNCHANGED <<buf, notifyChan, notifyData, callback, pc, respChan>>
    BY <1>7, <2>1 DEF LoopNotify, callVars
  <2> QED  BY <1>d, <2>1, <2>2 DEF Delivered, For
<1>8. CASE LoopPut
  <2>1. /\ loop = "put" /\ loop' = "select"
        /\ buf' = [buf EXCEPT ![notifyChan] = notifyData]
        /\ UNCHANGED <<callback, pc, respChan>>
    BY <1>8 DEF LoopPut, callVars
  <2>2. For(notifyData, notifyChan)
    BY <1>d, <2>1
  <2>3. ASSUME NEW ch \in Chans, buf'[ch] # None PROVE For(buf'[ch], ch)
    BY <1>d, <1>t, <2>1, <2>2, <2>3
  <2> QED  BY <2>1, <2>3 DEF Delivered, For
<1>9. CASE System /\ ~LoopHandle /\ ~LoopNotify /\ ~LoopPut
  BY <1>d, <1>9, SystemKeepsBuf, SystemKeepsCalls DEF Delivered, For
<1> QED  BY <1>1, <1>2, <1>3, <1>4, <1>5, <1>6, <1>7, <1>8, <1>9, StepCases DEF Call
-----------------------------------------------------------------------------
(* The refinement.                                                         *)

\* Every behaviour of Exchange keeps RInv.
THEOREM RefinementInvariance == Spec => []RInv
<1>1. Init => RInv
  <2> SUFFICES ASSUME Init PROVE RInv
    OBVIOUS
  <2>1. IInv
    BY InitIInv
  <2>2. Owned /\ ReplyLast
    BY DEF Init, Owned, ReplyLast
  <2>3. Queued
    BY EmptySeq DEF Init, Queued, Distinct
  <2>4. Delivered
    BY DEF Init, Delivered
  <2> QED  BY <2>1, <2>2, <2>3, <2>4 DEF RInv
<1>2. RInv /\ [Next]_vars => RInv'
  <2> SUFFICES ASSUME RInv, [Next]_vars PROVE RInv'
    OBVIOUS
  <2>1. IInv'
    BY TypeStep, HoldsStep, CountStep, PairStep, CallbackStep DEF IInv, RInv
  <2>2. Owned' /\ ReplyLast'
    BY OwnedStep, ReplyStep DEF IInv, RInv
  <2>3. Queued'
    BY QueuedStep DEF IInv, RInv
  <2>4. Delivered'
    BY DeliveredStep DEF RInv
  <2> QED  BY <2>1, <2>2, <2>3, <2>4 DEF RInv
<1> QED  BY <1>1, <1>2, PTL DEF Spec

\* Only DoRequest's timer makes a call late.
LEMMA LateKept ==
  ASSUME TypeOK,
         \/ System
         \/ \E r \in Requests : \/ Begin(r) \/ Push(r) \/ SendCheck(r)
                                \/ Enqueue(r) \/ EnqueueTimeout(r) \/ Receive(r)
  PROVE  TimedOut' = TimedOut
<1>t. pc \in [Requests -> Steps]
  BY DEF TypeOK, CallTypes
<1>1. CASE System
  BY <1>1, SystemKeepsCalls DEF TimedOut
<1>2. ASSUME NEW r \in Requests,
             \/ Begin(r) \/ Push(r) \/ SendCheck(r)
             \/ Enqueue(r) \/ EnqueueTimeout(r) \/ Receive(r)
      PROVE  TimedOut' = TimedOut
  <2>1. CASE Begin(r) \/ Push(r) \/ SendCheck(r)
    BY <1>t, <2>1 DEF Begin, Push, SendCheck, TimedOut
  <2>2. CASE Enqueue(r) \/ EnqueueTimeout(r) \/ Receive(r)
    BY <1>t, <2>2 DEF Enqueue, EnqueueTimeout, AfterSend, Receive, TimedOut
  <2> QED  BY <1>2, <2>1, <2>2
<1> QED  BY <1>1, <1>2

\* The steps of the connections and of the loops that Service does not see.
LEMMA HiddenSteps ==
  ASSUME \/ ClientWrite \/ ServerRead \/ ServerWrite \/ ServerHandle \/ ServerRespond
         \/ (ClientRead /\ chOpen) \/ LoopTake \/ LoopNotify \/ LoopPut \/ LoopExit
         \/ UNCHANGED vars
  PROVE  UNCHANGED <<uncompleted, callback, reply, dropped, openVars>>
<1> USE DEF callVars, loopVars
<1>1. CASE ClientWrite \/ ServerRead \/ ServerWrite \/ (ClientRead /\ chOpen)
  BY <1>1 DEF ClientWrite, ServerRead, ServerWrite, ClientRead
<1>2. CASE ServerHandle \/ ServerRespond
  BY <1>2 DEF ServerHandle, ServerRespond
<1>3. CASE LoopTake \/ LoopNotify \/ LoopPut \/ LoopExit \/ UNCHANGED vars
  BY <1>3 DEF LoopTake, LoopNotify, LoopPut, LoopExit, vars
<1> QED  BY <1>1, <1>2, <1>3

\* Every step of Exchange is a step of Service or leaves what it sees alone.
LEMMA PromiseStep == RInv /\ [Next]_vars => [Promise!Next]_Promise!vars
<1> SUFFICES ASSUME RInv, [Next]_vars PROVE Promise!Next \/ UNCHANGED Promise!vars
  OBVIOUS
<1>i. /\ TypeOK /\ HoldsChan /\ LockHeld /\ Counted /\ Paired
      /\ Owned /\ ReplyLast /\ Queued /\ Delivered
  BY DEF RInv, IInv
<1>u. /\ uncompleted \in Seq(Requests) /\ Len(uncompleted) \in Nat
      /\ (Len(uncompleted) # 0 => uncompleted # <<>>)
  BY <1>i, Queues, LenProperties, EmptySeq
<1>k. ASSUME UNCHANGED <<uncompleted, callback, reply, dropped, openVars>>,
             TimedOut' = TimedOut
      PROVE  UNCHANGED Promise!vars
  BY <1>k DEF Promise!vars, TimedOut, openVars
<1>1. ASSUME NEW r \in Requests, Begin(r) \/ Enqueue(r) PROVE UNCHANGED Promise!vars
  <2>1. UNCHANGED <<uncompleted, callback, reply, dropped, openVars>>
    BY <1>1 DEF Begin, Enqueue, loopVars
  <2> QED  BY <1>i, <1>1, <1>k, <2>1, LateKept
<1>2. ASSUME NEW r \in Requests, Push(r) PROVE Promise!Ask(r)
  <2>1. /\ uncompleted' = Append(uncompleted, r)
        /\ UNCHANGED <<callback, reply, dropped, openVars>>
    BY <1>2 DEF Push, loopVars
  <2>2. TimedOut' = TimedOut
    BY <1>i, <1>2, LateKept
  <2> QED  BY <2>1, <2>2 DEF Promise!Ask, TimedOut, openVars
<1>3. ASSUME NEW r \in Requests, SendCheck(r)
      PROVE  Promise!Withdraw \/ UNCHANGED Promise!vars
  <2>1. TimedOut' = TimedOut
    BY <1>i, <1>3, LateKept
  <2>2. CASE chOpen
    <3>1. UNCHANGED <<uncompleted, callback, reply, dropped, openVars>>
      BY <1>3, <2>2 DEF SendCheck, loopVars
    <3> QED  BY <1>k, <2>1, <3>1
  <2>3. CASE ~chOpen
    <3>1. sendRequestLock = r
      BY <1>i, <1>3 DEF SendCheck, LockHeld
    <3>2. uncompleted # <<>>
      <4>1. /\ Len(cHand) \in Nat /\ Len(cRecvQ) \in Nat /\ Len(s2c) \in Nat
            /\ Len(sWriteQ) \in Nat /\ Len(sHand) \in Nat /\ Len(sRecvQ) \in Nat
            /\ Len(c2s) \in Nat /\ Len(cWriteQ) \in Nat
        BY <1>i, Queues, LenProperties
      <4>2. Len(uncompleted) # 0
        BY <1>i, <1>u, <3>1, <4>1, ExchangeAssumption DEF Counted
      <4> QED  BY <1>u, <4>2
    <3>3. /\ uncompleted' = SubSeq(uncompleted, 1, Len(uncompleted) - 1)
          /\ UNCHANGED <<callback, reply, dropped, openVars>>
      BY <1>3, <2>3, <3>2 DEF SendCheck, PopTail, loopVars
    <3> QED  BY <2>1, <2>3, <3>2, <3>3 DEF Promise!Withdraw, TimedOut, openVars
  <2> QED  BY <2>2, <2>3
<1>4. ASSUME (\E r \in Requests : EnqueueTimeout(r)) \/ ServerRespondTimeout
      PROVE  Promise!Lose
  <2>1. dropped' = TRUE /\ UNCHANGED <<uncompleted, callback, reply, openVars>>
    BY <1>4 DEF EnqueueTimeout, ServerRespondTimeout, callVars, loopVars
  <2>2. TimedOut' = TimedOut
    BY <1>i, <1>4, LateKept DEF System
  <2> QED  BY <2>1, <2>2 DEF Promise!Lose, TimedOut, openVars
<1>5. ASSUME NEW r \in Requests, Timeout(r) PROVE Promise!GiveUp
  <2>1. /\ UNCHANGED <<uncompleted, callback, reply, dropped, openVars>>
        /\ pc'[r] = "timeout"
    BY <1>i, <1>5 DEF Timeout, loopVars, TypeOK, CallTypes
  <2> QED  BY <2>1 DEF Promise!GiveUp, openVars
<1>6. ASSUME NEW r \in Requests, Receive(r)
      PROVE  \E v \in Requests : Promise!Return(r, v)
  <2> DEFINE v == buf[respChan[r]]
  <2>1. v \in Requests
    BY <1>i, <1>6 DEF Receive, HoldsChan, TypeOK, ChanTypes
  <2>2. /\ UNCHANGED <<uncompleted, callback, dropped, openVars>>
        /\ reply' = [reply EXCEPT ![r] = v]
    BY <1>6 DEF Receive, loopVars
  <2>3. reply[r] = None
    BY <1>i, <1>6 DEF Receive, ReplyLast
  <2>4. dropped \/ TimedOut \/ (v = r /\ callback[r] = r)
    BY <1>i, <1>6, ReceivesOwn
  <2>5. TimedOut' = TimedOut
    BY <1>i, <1>6, LateKept
  <2> HIDE DEF v
  <2>6. Promise!Return(r, v)
    BY <2>2, <2>3, <2>4, <2>5 DEF Promise!Return, TimedOut, openVars
  <2> QED  BY <2>1, <2>6
<1>7. ASSUME LoopHandle PROVE \E v \in Requests : Promise!Answer(v)
  <2>1. /\ cHand \in Seq(Requests) /\ Len(cHand) = 1 /\ loop = "handle"
    BY <1>i, <1>7 DEF LoopHandle, TypeOK, LoopTypes
  <2>2. Head(cHand) \in Requests
    BY <2>1, Single
  <2>3. uncompleted # <<>>
    <3>1. /\ Len(cRecvQ) \in Nat /\ Len(s2c) \in Nat
          /\ Len(sWriteQ) \in Nat /\ Len(sHand) \in Nat /\ Len(sRecvQ) \in Nat
          /\ Len(c2s) \in Nat /\ Len(cWriteQ) \in Nat
      BY <1>i, Queues, LenProperties
    <3>2. Len(uncompleted) # 0
      BY <1>i, <1>u, <2>1, <3>1 DEF Counted
    <3> QED  BY <1>u, <3>2
  <2>4. dropped \/ Head(cHand) = Head(uncompleted)
    BY <1>i, <2>1, HeadWasSent
  <2>5. /\ uncompleted' = Tail(uncompleted)
        /\ callback' = [callback EXCEPT ![Head(uncompleted)] = Head(cHand)]
        /\ UNCHANGED <<reply, dropped, openVars>>
    BY <1>7, <2>3 DEF LoopHandle, callVars, openVars
  <2>6. TimedOut' = TimedOut
    BY <1>i, <1>7, LateKept DEF System, Loop
  <2>7. Promise!Answer(Head(cHand))
    BY <2>3, <2>4, <2>5, <2>6 DEF Promise!Answer, TimedOut, openVars
  <2> QED  BY <2>2, <2>7
<1>8. ASSUME ClientConnFails \/ ServerConnFails \/ ChannelClose \/ (ClientRead /\ ~chOpen)
      PROVE  Promise!Close
  <2>1. /\ UNCHANGED <<uncompleted, callback, reply, dropped>>
        /\ ~(cOpen' /\ sOpen' /\ chOpen')
    BY <1>8 DEF ClientConnFails, ServerConnFails, ChannelClose, ClientRead, ClientClosed,
       callVars, loopVars
  <2>2. TimedOut' = TimedOut
    BY <1>i, <1>8, LateKept DEF System
  <2> QED  BY <2>1, <2>2 DEF Promise!Close, TimedOut
<1>9. ASSUME \/ ClientWrite \/ ServerRead \/ ServerWrite \/ ServerHandle \/ ServerRespond
             \/ (ClientRead /\ chOpen) \/ LoopTake \/ LoopNotify \/ LoopPut \/ LoopExit
             \/ UNCHANGED vars
      PROVE  UNCHANGED Promise!vars
  <2>1. TimedOut' = TimedOut
    BY <1>i, <1>9, LateKept DEF System, Loop
  <2> QED  BY <1>9, <1>k, <2>1, HiddenSteps
<1>10. CASE \E r \in Requests : Begin(r) \/ Call(r)
  BY <1>1, <1>2, <1>3, <1>4, <1>5, <1>6, <1>10 DEF Call, Promise!Next
<1>11. CASE System
  BY <1>4, <1>7, <1>8, <1>9, <1>11 DEF System, Loop, Promise!Next
<1> QED  BY <1>10, <1>11, StepCases

\* The queues, locks and loops of a channel and of its two connections
\* together keep what module Service promises to the program: first in, first
\* out, the path handler before the caller, nothing taken back while the
\* channel is open and, until a call times out, DoRequest's own response.
THEOREM ExchangeImplementsService == Spec => KeepsPromise
<1>1. Init => Promise!Init
  BY DEF Init, Promise!Init
<1> QED  BY <1>1, PromiseStep, RefinementInvariance, PTL DEF Spec, KeepsPromise, Promise!Spec
=============================================================================
