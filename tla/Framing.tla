------------------------------- MODULE Framing -------------------------------
(***************************************************************************)
(* How one message travels as one or several packets on a channel, in one  *)
(* direction: sendPacket cuts it up, writeLoop and CreateNetPacket put the *)
(* packets on the wire, the read loop of the other side checks status and  *)
(* length, and the handle loop merges them (protocol.go).                  *)
(*                                                                         *)
(* role is the receiver's: a "client" merges responses and looks up their  *)
(* requests, a "server" merges requests and answers them.  The sender is   *)
(* this code, or (foreign) any implementation of the protocol, conforming  *)
(* or not: the read loops check what they are sent.                        *)
(***************************************************************************)
EXTENDS Integers, Sequences, SequencesExt

CONSTANTS
  MaxPacketSize,  \* the most data one packet carries
  PacketQueueLen, \* capacity of receivedQueue
  WireCap,        \* packets the TCP buffers hold
  Sizes,          \* the sizes of messages this code sends
  MaxMessages,    \* bound: messages sent (own) and requests made
  MaxPackets      \* bound: packets a foreign sender sends

ASSUME FramingAssumption ==
  /\ MaxPacketSize \in Nat \ {0} /\ PacketQueueLen \in Nat \ {0}
  /\ WireCap \in Nat \ {0}
  /\ Sizes \subseteq Nat \ {0}
  /\ MaxMessages \in Nat /\ MaxPackets \in Nat

VARIABLES
  role,          \* of the receiver: "client" or "server"
  foreign,       \* the sender is another implementation
  asked,         \* requests the client has made; uncompleted numbers them
  outstanding,   \* uncompletedRequestQueue (role = "client")
  sentMsgs,      \* history: the messages given to sendPacket
  writeQ,        \* sender: tcpWriteQueue
  wire,          \* TCP
  made,          \* packets a foreign sender made so far
  started,       \* messages the sender has started
  packetStatus,  \* Channel.packetStatus: status of the last packet read
  accepted,      \* history: the packets the read loop passed on
  receivedQueue,
  whole,         \* pktWholeResponse / pktWholeRequest: packets merged so far
  loop,          \* where the handle loop is
  request,       \* the request it popped for the packet in hand
  delivered,     \* history: the messages handled as complete
  pairs,         \* history: <<message, request>> of every call of the handler
  responses,     \* responses the server sent
  alive          \* closedMark = 0 and the channel is not closed

sendVars == <<role, foreign, asked, sentMsgs, writeQ, made, started>>
readVars == <<packetStatus, accepted>>
handleVars == <<whole, loop, request, delivered, pairs, responses>>
framingVars ==
  <<sendVars, outstanding, wire, readVars, receivedQueue, handleVars, alive>>

FramingInit ==
  /\ role \in {"client", "server"} /\ foreign \in BOOLEAN
  /\ asked = 0 /\ outstanding = <<>> /\ sentMsgs = <<>>
  /\ writeQ = <<>> /\ wire = <<>> /\ made = 0 /\ started = 0
  /\ packetStatus = 255 /\ accepted = <<>> /\ receivedQueue = <<>>
  /\ whole = <<>> /\ loop = "select" /\ request = 0
  /\ delivered = <<>> /\ pairs = <<>> /\ responses = 0
  /\ alive = TRUE
-----------------------------------------------------------------------------
(* Statuses.  StatusC0..StatusC3 mark the packets of a request, StatusS4.. *)
(* StatusS7 those of a response: first or later, complete or not.          *)

FirstPart == IF role = "client" THEN 4 ELSE 0
FirstFull == FirstPart + 1
LaterPart == FirstPart + 2
LaterFull == FirstPart + 3
Status8   == 8

Completed(status) == status \in {FirstFull, LaterFull}
Uncompleted(status) == status \in {FirstPart, LaterPart}

\* Fault: a later packet is accepted after a complete one.
CheckLoosely(prev, current) ==
  \/ current \in {FirstPart, FirstFull} /\ (prev = 255 \/ Completed(prev))
  \/ current \in {LaterPart, LaterFull} /\ prev # 255

\* CheckServerPacketStatus and CheckClientPacketStatus return nil.
CheckPacketStatus(prev, current) ==
  \/ current \in {FirstPart, FirstFull} /\ (prev = 255 \/ Completed(prev))
  \/ current \in {LaterPart, LaterFull} /\ Uncompleted(prev)
  \/ current = Status8
-----------------------------------------------------------------------------
(* Sending.  A packet is [status, data]; data is a sequence whose elements *)
(* say which message, or which packet of a foreign sender, they belong to. *)

\* The number of rounds of sendPacket's loop for n bytes.
Rounds(n) == (n + MaxPacketSize - 1) \div MaxPacketSize

\* What sendPacket puts into the write queue for a message of n bytes.  The
\* packets of a client are all DontChunk; and each round of the loop cuts out
\* a chunk with its status but queues the packet it was given, whose status
\* was never set.
Queued(m, n) ==
  LET data == [j \in 1 .. n |-> m]
  IN  IF n <= MaxPacketSize \/ role = "server"
      THEN <<[status |-> FirstFull, data |-> data]>>
      ELSE [i \in 1 .. Rounds(n) |-> [status |-> 0, data |-> data]]

\* A client that is to get responses makes requests (DoRequest: PushTail
\* before SendPacket).
Ask ==
  /\ alive
  /\ role = "client"
  /\ asked < MaxMessages
  /\ asked' = asked + 1
  /\ outstanding' = Append(outstanding, asked')
  /\ UNCHANGED <<role, foreign, sentMsgs, writeQ, made, started, wire,
                 readVars, receivedQueue, handleVars, alive>>

\* A sender starts a response only for a request it got.
MayStart == IF role = "client" THEN started < asked ELSE started < MaxMessages

SendPacket ==
  /\ alive /\ ~foreign
  /\ MayStart
  /\ started' = started + 1
  /\ \E n \in Sizes :
       /\ writeQ' = writeQ \o Queued(started', n)
       /\ sentMsgs' = Append(sentMsgs, [j \in 1 .. n |-> started'])
  /\ UNCHANGED <<role, foreign, asked, made, outstanding, wire, readVars,
                 receivedQueue, handleVars, alive>>

\* Fault: the newest packet is written first.
WriteNewest ==
  /\ alive
  /\ writeQ # <<>>
  /\ Len(wire) < WireCap
  /\ writeQ' = Front(writeQ)
  /\ IF Len(Last(writeQ).data) > MaxPacketSize
     THEN alive' = FALSE /\ UNCHANGED wire
     ELSE wire' = Append(wire, Last(writeQ)) /\ UNCHANGED alive
  /\ UNCHANGED <<role, foreign, asked, sentMsgs, made, started, outstanding,
                 readVars, receivedQueue, handleVars>>

\* writeLoop: CreateNetPacket refuses too much data, and the connection is
\* closed.
Write ==
  /\ alive
  /\ writeQ # <<>>
  /\ Len(wire) < WireCap
  /\ writeQ' = Tail(writeQ)
  /\ IF Len(Head(writeQ).data) > MaxPacketSize
     THEN alive' = FALSE /\ UNCHANGED wire
     ELSE wire' = Append(wire, Head(writeQ)) /\ UNCHANGED alive
  /\ UNCHANGED <<role, foreign, asked, sentMsgs, made, started, outstanding,
                 readVars, receivedQueue, handleVars>>

\* A foreign sender sends any packet, right or wrong; only it does not
\* start a response without a request.
ForeignSend ==
  /\ alive /\ foreign
  /\ made < MaxPackets
  /\ Len(wire) < WireCap
  /\ \E status \in 0 .. 9, n \in 0 .. MaxPacketSize + 1 :
       /\ status \in {FirstPart, FirstFull} => MayStart
       /\ started' = IF status \in {FirstPart, FirstFull} THEN started + 1
                                                          ELSE started
       /\ wire' = Append(wire, [status |-> status,
                                data |-> [j \in 1 .. n |-> made + 1]])
  /\ made' = made + 1
  /\ UNCHANGED <<role, foreign, asked, sentMsgs, writeQ, outstanding, readVars,
                 receivedQueue, handleVars, alive>>
-----------------------------------------------------------------------------
(* Receiving.                                                              *)

\* Fault: a packet of the largest size is refused.
AcceptableBelow(p) ==
  /\ p.status # Status8
  /\ CheckPacketStatus(packetStatus, p.status)
  /\ Len(p.data) < MaxPacketSize
  /\ Len(p.data) # 0

\* The checks of clientReadLoop / serverReadLoop, in their order.
Acceptable(p) ==
  /\ p.status # Status8
  /\ CheckPacketStatus(packetStatus, p.status)
  /\ Len(p.data) <= MaxPacketSize
  /\ Len(p.data) # 0

\* The read loop blocks on a full receivedQueue; what it does not accept
\* closes the connection.
Read ==
  /\ alive
  /\ wire # <<>>
  /\ wire' = Tail(wire)
  /\ LET p == Head(wire)
     IN  IF Acceptable(p)
         THEN /\ Len(receivedQueue) < PacketQueueLen
              /\ packetStatus' = p.status
              /\ accepted' = Append(accepted, p)
              /\ receivedQueue' = Append(receivedQueue, p)
              /\ UNCHANGED alive
         ELSE /\ alive' = FALSE
              /\ UNCHANGED <<readVars, receivedQueue>>
  /\ UNCHANGED <<sendVars, outstanding, handleVars>>

\* The status of the packets merged so far is the last one's.
WholeStatus == whole[Len(whole)].status

\* The handle loop takes a packet and merges it.  The client pops the
\* request; with none to pop the channel is closed.
Take ==
  /\ alive
  /\ loop = "select"
  /\ receivedQueue # <<>>
  /\ whole' = Append(whole, Head(receivedQueue))
  /\ receivedQueue' = Tail(receivedQueue)
  /\ IF role = "client" /\ outstanding = <<>>
     THEN alive' = FALSE /\ UNCHANGED <<outstanding, loop, request>>
     ELSE /\ loop' = "handle"
          /\ IF role = "client"
             THEN /\ request' = Head(outstanding)
                  /\ outstanding' = Tail(outstanding)
             ELSE UNCHANGED <<request, outstanding>>
          /\ UNCHANGED alive
  /\ UNCHANGED <<sendVars, wire, readVars, delivered, pairs, responses>>

\* After the handler: a complete message is done with.
AfterWhole ==
  IF Completed(WholeStatus)
  THEN /\ delivered' = Append(delivered, whole)
       /\ whole' = <<>>
  ELSE UNCHANGED <<delivered, whole>>

\* Fault: the request goes to the end of the queue.
PutBackAtTail(q, r) == Append(q, r)

\* PushHead.
PutBack(q, r) == <<r>> \o q

\* The client's loop after the path handler: the request of a response that
\* is not complete goes back to the head of the queue.
ClientHandled ==
  /\ alive
  /\ role = "client"
  /\ loop = "handle"
  /\ loop' = "select"
  /\ request' = 0
  /\ pairs' = Append(pairs, <<Len(delivered) + 1, request>>)
  /\ AfterWhole
  /\ outstanding' = IF Completed(WholeStatus) THEN outstanding
                                              ELSE PutBack(outstanding, request)
  /\ UNCHANGED <<sendVars, wire, readVars, receivedQueue, responses, alive>>

\* The server's: a complete request is answered in any case, one that is
\* not complete when the path handler returned data or an error.
ServerHandled ==
  /\ alive
  /\ role = "server"
  /\ loop = "handle"
  /\ loop' = "select"
  /\ \E returned \in BOOLEAN :
       responses' = IF returned \/ Completed(WholeStatus) THEN responses + 1
                                                          ELSE responses
  /\ AfterWhole
  /\ UNCHANGED <<sendVars, outstanding, wire, readVars, receivedQueue, request,
                 pairs, alive>>
-----------------------------------------------------------------------------
FramingNext ==
  \/ Ask \/ SendPacket \/ Write \/ ForeignSend
  \/ Read \/ Take \/ ClientHandled \/ ServerHandled

FramingSpec == FramingInit /\ [][FramingNext]_framingVars
-----------------------------------------------------------------------------
(* Properties.                                                             *)

\* The data of merged packets.
Data(packets) == FlattenSeq([i \in DOMAIN packets |-> packets[i].data])

\* A complete message: one packet, or a first, some later ones, the last.
IsMessage(packets) ==
  \/ Len(packets) = 1 /\ packets[1].status = FirstFull
  \/ /\ Len(packets) > 1
     /\ packets[1].status = FirstPart
     /\ packets[Len(packets)].status = LaterFull
     /\ \A i \in 2 .. Len(packets) - 1 : packets[i].status = LaterPart

\* Whatever the peer sends, what the handle loop hands out as a complete
\* message is exactly the packets of one message: the status check of the
\* read loop, which runs ahead by a queue of packets, keeps the merge from
\* joining two messages, cutting one short or losing a packet.
MergedMessages ==
  /\ FlattenSeq(delivered) \o whole \o receivedQueue = accepted
  /\ \A i \in DOMAIN delivered : IsMessage(delivered[i])

\* Messages of this code arrive as they were sent, in order and unmixed.
ArriveAsSent ==
  ~foreign => IsPrefix([i \in DOMAIN delivered |-> Data(delivered[i])], sentMsgs)

\* Every call of the client's path handler, for a part of a response as for
\* the whole, comes with the request that this response answers, while new
\* requests join the queue between PopHead and PushHead.
PartsFindRequest == \A i \in DOMAIN pairs : pairs[i][1] = pairs[i][2]

\* Messages of at most a packet never close a connection between two ends that
\* run this code: the read loop accepts every one of them, also of the largest
\* size, and handleClientLoop finds a request for every response, although
\* callers, loops and queues run apart.
SmallMessagesPass ==
  (~foreign /\ \A i \in DOMAIN sentMsgs : Len(sentMsgs[i]) <= MaxPacketSize) => alive
=============================================================================
