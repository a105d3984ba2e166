------------------------------ MODULE Exchange ------------------------------
(***************************************************************************)
(* The request/response exchange of one iip channel: DoRequest and         *)
(* DoStreamRequest (client.go), the two Connections with their write and   *)
(* read loops, the two Channel handle loops (protocol.go) and the pool of  *)
(* notify channels (utils.go).                                             *)
(*                                                                         *)
(* A packet is named by the request it carries or answers, so pairing a    *)
(* response with a request is an equality.  Every request and response     *)
(* fits one packet (module Framing has the multi-packet case), hence every *)
(* packet is complete (StatusC1, StatusS5).                                *)
(*                                                                         *)
(* Grain.  A goroutine takes one step per shared access.  A write loop     *)
(* moves a packet from its queue to the TCP stream in one step and a read  *)
(* loop from the stream to the received queue: the packet in the           *)
(* goroutine's hand counts as still queued, which only changes a capacity  *)
(* by one.  Connection.Close is one step here; the steps inside it are     *)
(* left to a module of their own.                                          *)
(***************************************************************************)
EXTENDS Integers, Sequences

CONSTANTS
  Requests,       \* calls of DoRequest / DoStreamRequest, each made once
  Streams,        \* the requests sent with DoStreamRequest
  Chans,          \* response notify channels (chan []byte of capacity 1)
  WriteQueueLen,  \* TcpWriteQueueLen: capacity of tcpWriteQueue
  PacketQueueLen, \* ChannelPacketQueueLen: capacity of receivedQueue
  NetCap,         \* packets the TCP buffers of one direction hold
  None            \* "nil"

ASSUME ExchangeAssumption ==
  /\ Streams \subseteq Requests
  /\ None \notin Requests
  /\ None \notin Chans
  /\ WriteQueueLen \in Nat \ {0}
  /\ PacketQueueLen \in Nat \ {0}
  /\ NetCap \in Nat \ {0}

VARIABLES
  pc,              \* where each caller is in DoRequest / DoStreamRequest
  reply,           \* the data DoRequest returned, None if it returned none
  sendRequestLock, \* holder of ClientChannel.sendRequestLock
  uncompleted,     \* ClientChannel.uncompletedRequestQueue
  respChan,        \* CtxResponseChan of each request
  buf,             \* content of each notify channel
  pool,            \* notify channels no request holds: responseNotifyChanPool,
                   \* and those not made yet
  cWriteQ, c2s, sRecvQ, sHand, sWriteQ, s2c, cRecvQ, cHand,
                   \* the packets on their way, in the order of the way:
                   \* client tcpWriteQueue, TCP, server receivedQueue, the
                   \* request being handled, server tcpWriteQueue, TCP,
                   \* client receivedQueue, the response just received
  loop,            \* where handleClientLoop is
  notifyChan,      \* the notify channel it read from the request's context
  notifyData,      \* the response it is about to put there
  callback,        \* history: the response given to the path handler for
                   \* each request (CtxRequest)
  cOpen, sOpen,    \* closedMark = 0 of the client's, the server's Connection
  chOpen,          \* the client's Channel has err = nil
  dropped          \* history: packetToSendQueue timed out at least once

callVars == <<pc, reply, sendRequestLock>>
chanVars == <<respChan, buf, pool>>
wayVars  == <<cWriteQ, c2s, sRecvQ, sHand, sWriteQ, s2c, cRecvQ, cHand>>
loopVars == <<loop, notifyChan, notifyData, callback>>
openVars == <<cOpen, sOpen, chOpen>>
vars == <<callVars, uncompleted, chanVars, wayVars, loopVars, openVars, dropped>>

Init ==
  /\ pc = [r \in Requests |-> "idle"]
  /\ reply = [r \in Requests |-> None]
  /\ sendRequestLock = None
  /\ uncompleted = <<>>
  /\ respChan = [r \in Requests |-> None]
  /\ buf = [ch \in Chans |-> None]
  /\ pool = Chans
  /\ cWriteQ = <<>> /\ c2s = <<>> /\ sRecvQ = <<>> /\ sHand = <<>>
  /\ sWriteQ = <<>> /\ s2c = <<>> /\ cRecvQ = <<>> /\ cHand = <<>>
  /\ loop = "select"
  /\ notifyChan = None
  /\ notifyData = None
  /\ callback = [r \in Requests |-> None]
  /\ cOpen = TRUE /\ sOpen = TRUE /\ chOpen = TRUE
  /\ dropped = FALSE
-----------------------------------------------------------------------------
(* Helpers.                                                                *)

\* Fault: one packet too many.
HasRoomOffByOne(q, cap) == Len(q) <= cap

HasRoom(q, cap) == Len(q) < cap

\* Fault: the oldest entry is taken out instead of the newest.
PopTailOldest(q) == IF q = <<>> THEN q ELSE Tail(q)

\* LinkedList.PopTail: nothing happens on an empty list.
PopTail(q) == IF q = <<>> THEN q ELSE SubSeq(q, 1, Len(q) - 1)

\* Fault: the channel stays in the pool.
AcquireSharedChan(r, ch) ==
  /\ ch \in pool
  /\ buf' = [buf EXCEPT ![ch] = None]
  /\ respChan' = [respChan EXCEPT ![r] = ch]
  /\ UNCHANGED pool

\* acquireNotifyChan: a pooled channel is drained, a new one is empty.
AcquireNotifyChan(r, ch) ==
  /\ ch \in pool
  /\ pool' = pool \ {ch}
  /\ buf' = [buf EXCEPT ![ch] = None]
  /\ respChan' = [respChan EXCEPT ![r] = ch]

\* DoRequest's deferred function: forget the channel, drain it, pool it.
ReleaseNotifyChan(r) ==
  IF respChan[r] = None THEN UNCHANGED chanVars
  ELSE /\ respChan' = [respChan EXCEPT ![r] = None]
       /\ buf' = [buf EXCEPT ![respChan[r]] = None]
       /\ pool' = pool \cup {respChan[r]}
-----------------------------------------------------------------------------
(* The callers.                                                            *)

\* The checks at the top; a request on an invalid channel is refused.
Begin(r) ==
  /\ pc[r] = "idle"
  /\ IF ~chOpen
     THEN /\ pc' = [pc EXCEPT ![r] = "failed"]
          /\ UNCHANGED chanVars
     ELSE /\ pc' = [pc EXCEPT ![r] = "ready"]
          /\ IF r \in Streams THEN UNCHANGED chanVars
             ELSE \E ch \in Chans : AcquireNotifyChan(r, ch)
  /\ UNCHANGED <<reply, sendRequestLock, uncompleted, wayVars, loopVars,
                 openVars, dropped>>

\* Fault: PushTail without waiting for the lock.
PushUnlocked(r) ==
  /\ pc[r] = "ready"
  /\ sendRequestLock' = r
  /\ uncompleted' = Append(uncompleted, r)
  /\ pc' = [pc EXCEPT ![r] = "pushed"]
  /\ UNCHANGED <<reply, chanVars, wayVars, loopVars, openVars, dropped>>

\* sendRequestLock.Lock and PushTail.
Push(r) ==
  /\ pc[r] = "ready"
  /\ sendRequestLock = None
  /\ sendRequestLock' = r
  /\ uncompleted' = Append(uncompleted, r)
  /\ pc' = [pc EXCEPT ![r] = "pushed"]
  /\ UNCHANGED <<reply, chanVars, wayVars, loopVars, openVars, dropped>>

\* The checks of SendPacket and sendPacket.  A refused packet takes its
\* request back out of the queue and the call fails.
SendCheck(r) ==
  /\ pc[r] = "pushed"
  /\ IF chOpen
     THEN /\ pc' = [pc EXCEPT ![r] = "sending"]
          /\ UNCHANGED <<sendRequestLock, uncompleted, chanVars>>
     ELSE /\ pc' = [pc EXCEPT ![r] = "failed"]
          /\ sendRequestLock' = None
          /\ uncompleted' = PopTail(uncompleted)
          /\ ReleaseNotifyChan(r)
  /\ UNCHANGED <<reply, wayVars, loopVars, openVars, dropped>>

\* Fault: sendRequestLock is not released.
AfterSendLocked(r) ==
  /\ pc' = [pc EXCEPT ![r] = IF r \in Streams THEN "sent" ELSE "waiting"]
  /\ UNCHANGED sendRequestLock

\* After sendPacket returned nil: DoRequest waits, DoStreamRequest returns.
AfterSend(r) ==
  /\ pc' = [pc EXCEPT ![r] = IF r \in Streams THEN "sent" ELSE "waiting"]
  /\ sendRequestLock' = None

\* packetToSendQueue gets the packet in.  The queue of a connection closed
\* after the check is never written out.
Enqueue(r) ==
  /\ pc[r] = "sending"
  /\ IF cOpen THEN /\ HasRoom(cWriteQ, WriteQueueLen)
                   /\ cWriteQ' = Append(cWriteQ, r)
              ELSE UNCHANGED cWriteQ
  /\ AfterSend(r)
  /\ UNCHANGED <<reply, uncompleted, chanVars, c2s, sRecvQ, sHand, sWriteQ,
                 s2c, cRecvQ, cHand, loopVars, openVars, dropped>>

\* packetToSendQueue times out on a full queue; sendPacket ignores its error.
EnqueueTimeout(r) ==
  /\ pc[r] = "sending"
  /\ cOpen
  /\ ~HasRoom(cWriteQ, WriteQueueLen)
  /\ dropped' = TRUE
  /\ AfterSend(r)
  /\ UNCHANGED <<reply, uncompleted, chanVars, wayVars, loopVars, openVars>>

\* Fault: a call that timed out takes an entry out of the queue.
TimeoutPops(r) ==
  /\ pc[r] = "waiting"
  /\ pc' = [pc EXCEPT ![r] = "timeout"]
  /\ uncompleted' = PopTail(uncompleted)
  /\ ReleaseNotifyChan(r)
  /\ UNCHANGED <<reply, sendRequestLock, wayVars, loopVars, openVars, dropped>>

\* DoRequest's select: the timer ...
Timeout(r) ==
  /\ pc[r] = "waiting"
  /\ pc' = [pc EXCEPT ![r] = "timeout"]
  /\ ReleaseNotifyChan(r)
  /\ UNCHANGED <<reply, sendRequestLock, uncompleted, wayVars, loopVars,
                 openVars, dropped>>

\* ... or the response.
Receive(r) ==
  /\ pc[r] = "waiting"
  /\ buf[respChan[r]] # None
  /\ reply' = [reply EXCEPT ![r] = buf[respChan[r]]]
  /\ pc' = [pc EXCEPT ![r] = "answered"]
  /\ ReleaseNotifyChan(r)
  /\ UNCHANGED <<sendRequestLock, uncompleted, wayVars, loopVars, openVars,
                 dropped>>

Call(r) == Push(r) \/ SendCheck(r) \/ Enqueue(r) \/ EnqueueTimeout(r)
             \/ Timeout(r) \/ Receive(r)
-----------------------------------------------------------------------------
(* The connections.                                                        *)

\* writeLoop of the client.  What is written to a peer that is gone is lost.
ClientWrite ==
  /\ cOpen
  /\ cWriteQ # <<>>
  /\ IF sOpen THEN /\ HasRoom(c2s, NetCap)
                   /\ c2s' = Append(c2s, Head(cWriteQ))
              ELSE UNCHANGED c2s
  /\ cWriteQ' = Tail(cWriteQ)
  /\ UNCHANGED <<callVars, uncompleted, chanVars, sRecvQ, sHand, sWriteQ, s2c,
                 cRecvQ, cHand, loopVars, openVars, dropped>>

\* serverReadLoop: blocks while the channel's receivedQueue is full.
ServerRead ==
  /\ sOpen
  /\ c2s # <<>>
  /\ HasRoom(sRecvQ, PacketQueueLen)
  /\ sRecvQ' = Append(sRecvQ, Head(c2s))
  /\ c2s' = Tail(c2s)
  /\ UNCHANGED <<callVars, uncompleted, chanVars, cWriteQ, sHand, sWriteQ, s2c,
                 cRecvQ, cHand, loopVars, openVars, dropped>>

\* writeLoop of the server.
ServerWrite ==
  /\ sOpen
  /\ sWriteQ # <<>>
  /\ IF cOpen THEN /\ HasRoom(s2c, NetCap)
                   /\ s2c' = Append(s2c, Head(sWriteQ))
              ELSE UNCHANGED s2c
  /\ sWriteQ' = Tail(sWriteQ)
  /\ UNCHANGED <<callVars, uncompleted, chanVars, cWriteQ, c2s, sRecvQ, sHand,
                 cRecvQ, cHand, loopVars, openVars, dropped>>

\* Connection.Close on the client: every channel is closed with it, the
\* write queue is drained and what TCP still holds for this side is lost.
\* uncompletedRequestQueue is left as it is.
ClientClosed ==
  /\ cOpen' = FALSE
  /\ chOpen' = FALSE
  /\ cWriteQ' = <<>>
  /\ s2c' = <<>>
  /\ UNCHANGED <<callVars, uncompleted, chanVars, c2s, sRecvQ, sHand, sWriteQ,
                 cRecvQ, cHand, loopVars, sOpen, dropped>>

\* clientReadLoop.  A packet for a channel that is closed closes the
\* whole connection.
ClientRead ==
  /\ cOpen
  /\ s2c # <<>>
  /\ \/ /\ chOpen
        /\ HasRoom(cRecvQ, PacketQueueLen)
        /\ cRecvQ' = Append(cRecvQ, Head(s2c))
        /\ s2c' = Tail(s2c)
        /\ UNCHANGED <<callVars, uncompleted, chanVars, cWriteQ, c2s, sRecvQ,
                       sHand, sWriteQ, cHand, loopVars, openVars, dropped>>
     \/ /\ ~chOpen
        /\ ClientClosed

\* A read or write error, the write deadline or Client.Close: at any time.
ClientConnFails == cOpen /\ ClientClosed

\* The same on the server; its handle loop gets no response out any more.
ServerConnFails ==
  /\ sOpen
  /\ sOpen' = FALSE
  /\ sWriteQ' = <<>>
  /\ c2s' = <<>>
  /\ UNCHANGED <<callVars, uncompleted, chanVars, cWriteQ, sRecvQ, sHand, s2c,
                 cRecvQ, cHand, loopVars, cOpen, chOpen, dropped>>

\* ClientChannel.Close by the application: the connection stays.
ChannelClose ==
  /\ chOpen
  /\ chOpen' = FALSE
  /\ UNCHANGED <<callVars, uncompleted, chanVars, wayVars, loopVars, cOpen,
                 sOpen, dropped>>
-----------------------------------------------------------------------------
(* The handle loops.                                                       *)

\* handleServerLoop takes a request and runs the path handler.
ServerHandle ==
  /\ sHand = <<>>
  /\ sRecvQ # <<>>
  /\ sHand' = <<Head(sRecvQ)>>
  /\ sRecvQ' = Tail(sRecvQ)
  /\ UNCHANGED <<callVars, uncompleted, chanVars, cWriteQ, c2s, sWriteQ, s2c,
                 cRecvQ, cHand, loopVars, openVars, dropped>>

\* Fault: a handler that returned nothing is not answered.
ServerRespondNothing ==
  /\ sHand # <<>>
  /\ sHand' = <<>>
  /\ UNCHANGED <<callVars, uncompleted, chanVars, cWriteQ, c2s, sRecvQ, sWriteQ,
                 s2c, cRecvQ, cHand, loopVars, openVars, dropped>>

\* Whatever the handler returned (data, an error or nothing), one response
\* packet is sent for a complete request.
ServerRespond ==
  /\ sHand # <<>>
  /\ IF sOpen THEN /\ HasRoom(sWriteQ, WriteQueueLen)
                   /\ sWriteQ' = Append(sWriteQ, Head(sHand))
              ELSE UNCHANGED sWriteQ
  /\ sHand' = <<>>
  /\ UNCHANGED <<callVars, uncompleted, chanVars, cWriteQ, c2s, sRecvQ, s2c,
                 cRecvQ, cHand, loopVars, openVars, dropped>>

\* packetToSendQueue times out on the server: the response is gone.
ServerRespondTimeout ==
  /\ sHand # <<>>
  /\ sOpen
  /\ ~HasRoom(sWriteQ, WriteQueueLen)
  /\ sHand' = <<>>
  /\ dropped' = TRUE
  /\ UNCHANGED <<callVars, uncompleted, chanVars, cWriteQ, c2s, sRecvQ,
                 sWriteQ, s2c, cRecvQ, cHand, loopVars, openVars>>

\* handleClientLoop takes a response.
LoopTake ==
  /\ loop = "select"
  /\ cRecvQ # <<>>
  /\ loop' = "handle"
  /\ cHand' = <<Head(cRecvQ)>>
  /\ cRecvQ' = Tail(cRecvQ)
  /\ UNCHANGED <<callVars, uncompleted, chanVars, cWriteQ, c2s, sRecvQ, sHand,
                 sWriteQ, s2c, notifyChan, notifyData, callback, openVars,
                 dropped>>

\* PopHead, the path handler, and CtxResponseChan of the request found.
\* With no request in the queue the channel is closed and the loop ends.
LoopHandle ==
  /\ loop = "handle"
  /\ cHand' = <<>>
  /\ IF uncompleted = <<>>
     THEN /\ loop' = "exit"
          /\ chOpen' = FALSE
          /\ UNCHANGED <<uncompleted, notifyChan, notifyData, callback>>
     ELSE LET req == Head(uncompleted)
          IN  /\ uncompleted' = Tail(uncompleted)
              /\ callback' = [callback EXCEPT ![req] = Head(cHand)]
              /\ loop' = IF respChan[req] = None THEN "select" ELSE "notify"
              /\ notifyChan' = respChan[req]
              /\ notifyData' = IF respChan[req] = None THEN None
                                                       ELSE Head(cHand)
              /\ UNCHANGED chOpen
  /\ UNCHANGED <<callVars, chanVars, cWriteQ, c2s, sRecvQ, sHand, sWriteQ, s2c,
                 cRecvQ, cOpen, sOpen, dropped>>

\* select { case <-notifyChan: default: notifyChan <- data }: what the
\* channel holds is thrown away, and the response with it ...
LoopNotify ==
  /\ loop = "notify"
  /\ IF buf[notifyChan] # None
     THEN /\ buf' = [buf EXCEPT ![notifyChan] = None]
          /\ loop' = "select"
          /\ notifyChan' = None
          /\ notifyData' = None
     ELSE /\ loop' = "put"
          /\ UNCHANGED <<buf, notifyChan, notifyData>>
  /\ UNCHANGED <<callVars, uncompleted, respChan, pool, wayVars, callback,
                 openVars, dropped>>

\* ... or, in a second step, the response is put there.
LoopPut ==
  /\ loop = "put"
  /\ buf[notifyChan] = None
  /\ buf' = [buf EXCEPT ![notifyChan] = notifyData]
  /\ loop' = "select"
  /\ notifyChan' = None
  /\ notifyData' = None
  /\ UNCHANGED <<callVars, uncompleted, respChan, pool, wayVars, callback,
                 openVars, dropped>>

\* closeNotify, or the ticker once the connection is closed.
LoopExit ==
  /\ loop = "select"
  /\ ~chOpen
  /\ loop' = "exit"
  /\ UNCHANGED <<callVars, uncompleted, chanVars, wayVars, notifyChan,
                 notifyData, callback, openVars, dropped>>

Loop == LoopTake \/ LoopHandle \/ LoopNotify \/ LoopPut \/ LoopExit
-----------------------------------------------------------------------------
Next ==
  \/ \E r \in Requests : Begin(r) \/ Call(r)
  \/ ClientWrite \/ ServerRead \/ ServerWrite \/ ClientRead
  \/ ServerHandle \/ ServerRespond \/ ServerRespondTimeout
  \/ Loop
  \/ ClientConnFails \/ ServerConnFails \/ ChannelClose

Spec == Init /\ [][Next]_vars

\* Every goroutine that can run runs, path handlers return and timers fire;
\* nothing says that a request is ever made or that a connection ever fails.
Fairness ==
  /\ \A r \in Requests : WF_vars(Call(r))
  /\ WF_vars(ClientWrite) /\ WF_vars(ServerRead)
  /\ WF_vars(ServerWrite) /\ WF_vars(ClientRead)
  /\ WF_vars(ServerHandle) /\ WF_vars(ServerRespond \/ ServerRespondTimeout)
  /\ WF_vars(Loop)

FairSpec == Spec /\ Fairness
-----------------------------------------------------------------------------
(* Properties.                                                             *)

Steps == {"idle", "ready", "pushed", "sending", "waiting",
          "failed", "sent", "timeout", "answered"}

CallTypes ==
  /\ pc \in [Requests -> Steps]
  /\ reply \in [Requests -> Requests \cup {None}]
  /\ sendRequestLock \in Requests \cup {None}
  /\ uncompleted \in Seq(Requests)

ChanTypes ==
  /\ respChan \in [Requests -> Chans \cup {None}]
  /\ buf \in [Chans -> Requests \cup {None}]
  /\ pool \in SUBSET Chans

Queue(cap) == {q \in Seq(Requests) : Len(q) <= cap}

WayTypes ==
  /\ cWriteQ \in Queue(WriteQueueLen)
  /\ c2s \in Queue(NetCap)
  /\ sRecvQ \in Queue(PacketQueueLen)
  /\ sHand \in Queue(1)
  /\ sWriteQ \in Queue(WriteQueueLen)
  /\ s2c \in Queue(NetCap)
  /\ cRecvQ \in Queue(PacketQueueLen)

LoopTypes ==
  /\ loop \in {"select", "handle", "notify", "put", "exit"}
  /\ cHand \in Seq(Requests)
  /\ Len(cHand) = IF loop = "handle" THEN 1 ELSE 0
  /\ IF loop \in {"notify", "put"}
     THEN notifyChan \in Chans /\ notifyData \in Requests
     ELSE notifyChan = None /\ notifyData = None
  /\ callback \in [Requests -> Requests \cup {None}]

OpenTypes ==
  /\ cOpen \in BOOLEAN /\ sOpen \in BOOLEAN /\ chOpen \in BOOLEAN
  /\ dropped \in BOOLEAN

\* Every variable has its type, and no queue holds more than its capacity.
TypeOK == CallTypes /\ ChanTypes /\ WayTypes /\ LoopTypes /\ OpenTypes

\* The responses the client can still see, oldest first.
Replies == cHand \o (cRecvQ \o s2c)

\* The requests that have not come back as responses yet, oldest first.
Ahead == sWriteQ \o (sHand \o (sRecvQ \o (c2s \o cWriteQ)))

\* The request pushed but not yet handed to the write queue.
Unsent == IF sendRequestLock = None THEN <<>> ELSE <<sendRequestLock>>

\* What uncompletedRequestQueue holds between Replies and Unsent.
Between == SubSeq(uncompleted, Len(Replies) + 1, Len(uncompleted) - Len(Unsent))

\* As long as packetToSendQueue has not timed out, the queue of uncompleted
\* requests starts with the requests whose responses reached the client, in
\* that order, and ends with the one being sent; while both connections are
\* open it is exactly the requests under way, in the order of the way.  So
\* PopHead finds the request of the response just received and PopTail
\* after a failed send takes out the caller's own request.
PairedUnlessDropped ==
  ~dropped => /\ uncompleted = Replies \o (Between \o Unsent)
              /\ cOpen /\ sOpen => Between = Ahead

\* Even when packets were dropped and connections failed, every packet
\* under way has an entry of its own in the queue of uncompleted requests:
\* handleClientLoop never takes the "request not found" branch, which would
\* close the channel.
ResponseHasRequest ==
  Len(uncompleted) >= Len(Replies) + Len(Ahead) + Len(Unsent)

\* Unless a packet was dropped, the path handler of the client is given each
\* response together with the request it answers (CtxRequest), whatever
\* timed out or failed meanwhile.
CallbackPaired ==
  ~dropped => \A r \in Requests : callback[r] \in {None, r}

\* What the echo test ("response not same as request") asserts of DoRequest:
\* the data returned is the response of this very request, here where no
\* packet was dropped.  A notify channel that went back to the pool while
\* handleClientLoop held it breaks it.
OwnReplyUnlessDropped ==
  ~dropped => \A r \in Requests : reply[r] \in {None, r}

\* Every call returns: whoever waits for sendRequestLock, for room in the
\* write queue or for a response gets on, and the timer ends the rest.
CallsReturn ==
  \A r \in Requests :
    pc[r] \in {"ready", "pushed", "sending", "waiting"}
      ~> pc[r] \in {"failed", "sent", "timeout", "answered"}

\* A request in the queue of uncompleted requests is answered: the bounded
\* queues never leave the loops waiting for each other, so the only ways
\* out are a dropped packet and a failed connection or closed channel.
RequestsAnswered ==
  \A r \in Requests :
    (\E i \in DOMAIN uncompleted : uncompleted[i] = r)
      ~> \/ \A i \in DOMAIN uncompleted : uncompleted[i] # r
         \/ dropped \/ ~cOpen \/ ~sOpen \/ ~chOpen
-----------------------------------------------------------------------------
(* The promise of the channel (module Service) in terms of this module.    *)

Promise == INSTANCE Service WITH
  outstanding <- uncompleted,
  handled     <- callback,
  returned    <- reply,
  lost        <- dropped,
  late        <- \E r \in Requests : pc[r] = "timeout",
  closed      <- ~(cOpen /\ sOpen /\ chOpen)

\* All the queues, locks and loops together keep the promise of module
\* Service: first in, first out, the path handler before the caller, nothing
\* taken back while the channel is open; and, until a call times out, what
\* DoRequest returns is the response of its own request.
KeepsPromise == Promise!Spec
=============================================================================
