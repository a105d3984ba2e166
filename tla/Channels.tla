------------------------------ MODULE Channels ------------------------------
(***************************************************************************)
(* The channels multiplexed on one connection: how Client.newChannel       *)
(* (client.go) opens one through channel 0, how both Connections allot and *)
(* free ids (makeNewChannelId, newChannel, removeChannel in protocol.go),  *)
(* how the read loops route packets by id, and how channels are closed.    *)
(*                                                                         *)
(* Exchange shows what happens inside one channel; here a request is sent  *)
(* in one step, queues have no capacity and no packet is dropped, so that  *)
(* only ids can go wrong.  The two Connections close together: open turns  *)
(* FALSE when either read loop meets an id it does not know.               *)
(***************************************************************************)
EXTENDS Integers, Sequences, FiniteSets

CONSTANTS
  Callers,      \* calls of Client.NewChannel; also names the channel opened
  Sys,          \* the client's channel 0
  MaxChannelsPerConn,  \* ClientConfig.MaxChannelsPerConn
  MaxRequests,  \* bound: requests sent on one channel
  MaxUint32     \* the largest channel id

ASSUME ChannelsAssumption ==
  /\ Sys \notin Callers
  /\ MaxChannelsPerConn \in Nat \ {0}
  /\ MaxRequests \in Nat
  /\ MaxUint32 \in Nat \ {0}

VARIABLES
  pc,           \* where each caller is
  newId,        \* the id of its channel on the client
  answer,       \* content of its notify channel: the id in the response
  cChannels, cFree, cMax,  \* client: Channels, FreeChannleId, MaxChannelId
  sChannels, sFree, sMax,  \* server: the same, each channel with the packets
                           \* in its receivedQueue
  c2s, s2c,     \* packets under way
  cRecv,        \* receivedQueue of each channel of the client
  sysQueue,     \* uncompletedRequestQueue of channel 0
  uncompleted,  \* uncompletedRequestQueue of the other channels
  sent,         \* requests sent on each channel
  open,         \* the connection is open
  deleted,      \* history: PathDeleteChannel was requested
  untidy,       \* history: a channel left Channels with requests uncompleted,
                \* or was used after it left
  wrapped,      \* history: makeNewChannelId had no id left
  mixed         \* history: a response was paired with another request

openVars == <<newId, answer>>
cIdVars == <<cChannels, cFree, cMax>>
sIdVars == <<sChannels, sFree, sMax>>
queueVars == <<sysQueue, uncompleted, sent>>
historyVars == <<deleted, untidy, wrapped, mixed>>
vars == <<pc, openVars, cIdVars, sIdVars, c2s, s2c, cRecv, queueVars,
          open, historyVars>>

Init ==
  /\ pc = [k \in Callers |-> "idle"]
  /\ newId = [k \in Callers |-> 0]
  /\ answer = [k \in Callers |-> <<>>]
  /\ cChannels = [i \in {0} |-> Sys] /\ cFree = {} /\ cMax = 0
  /\ sChannels = [i \in {0} |-> <<>>] /\ sFree = {} /\ sMax = 0
  /\ c2s = <<>> /\ s2c = <<>>
  /\ cRecv = [c \in Callers \cup {Sys} |-> <<>>]
  /\ sysQueue = <<>>
  /\ uncompleted = [k \in Callers |-> <<>>]
  /\ sent = [k \in Callers |-> 0]
  /\ open = TRUE
  /\ deleted = FALSE /\ untidy = FALSE /\ wrapped = FALSE
  /\ mixed = FALSE
-----------------------------------------------------------------------------
(* Ids.                                                                    *)

Packet(ch, kind, from, n) == [ch |-> ch, kind |-> kind, from |-> from, n |-> n]

\* A map with one more entry, and with one less.
With(map, id, c) ==
  [i \in DOMAIN map \cup {id} |-> IF i = id THEN c ELSE map[i]]
Without(map, id) == [i \in DOMAIN map \ {id} |-> map[i]]

\* Fault: a free id that is handed out stays free.
MakeKeepsFree(free, max, id, free2, max2) ==
  IF free # {} THEN id \in free /\ free2 = free /\ max2 = max
  ELSE IF max < MaxUint32 THEN id = max + 1 /\ free2 = free /\ max2 = max + 1
  ELSE id = 0 /\ free2 = free /\ max2 = max

\* makeNewChannelId: any free id, else the next one, else 0.
MakeNewChannelId(free, max, id, free2, max2) ==
  IF free # {} THEN id \in free /\ free2 = free \ {id} /\ max2 = max
  ELSE IF max < MaxUint32 THEN id = max + 1 /\ free2 = free /\ max2 = max + 1
  ELSE id = 0 /\ free2 = free /\ max2 = max

Exhausted(free, max) == free = {} /\ max >= MaxUint32

Ids == 0 .. MaxUint32
-----------------------------------------------------------------------------
(* The client.                                                             *)

\* NewClient: channel 0 comes on top of the channels configured.
ChannelLimit == MaxChannelsPerConn + 1

\* getFreeConnection: len(v.Channels) < MaxChannelsPerConn.
HasFreeChannel == Cardinality(DOMAIN cChannels) < ChannelLimit

\* Client.NewChannel takes this connection if it has room, and asks for a
\* channel on channel 0 through a ClientChannel of its own, so
\* sendRequestLock keeps no two callers apart: PushTail ...
AskPush(k) ==
  /\ open
  /\ pc[k] = "idle"
  /\ HasFreeChannel
  /\ pc' = [pc EXCEPT ![k] = "pushed"]
  /\ sysQueue' = Append(sysQueue, k)
  /\ UNCHANGED <<openVars, cIdVars, sIdVars, c2s, s2c, cRecv, uncompleted,
                 sent, open, historyVars>>

\* ... and SendPacket.
AskSend(k) ==
  /\ open
  /\ pc[k] = "pushed"
  /\ pc' = [pc EXCEPT ![k] = "asking"]
  /\ c2s' = Append(c2s, Packet(0, "new", k, 0))
  /\ UNCHANGED <<openVars, cIdVars, sIdVars, s2c, cRecv, queueVars, open,
                 historyVars>>

\* Fault: the error of DoRequest is not looked at.
AskTimeoutIgnored(k) ==
  /\ open
  /\ pc[k] = "asking"
  /\ pc' = [pc EXCEPT ![k] = "granted"]
  /\ UNCHANGED <<openVars, cIdVars, sIdVars, c2s, s2c, cRecv, queueVars, open,
                 historyVars>>

\* No response within a second; the entry stays in the queue of channel 0
\* and the channel the server made stays, too.
AskTimeout(k) ==
  /\ open
  /\ pc[k] = "asking"
  /\ pc' = [pc EXCEPT ![k] = "failed"]
  /\ UNCHANGED <<openVars, cIdVars, sIdVars, c2s, s2c, cRecv, queueVars, open,
                 historyVars>>

\* DoRequest returned the response.
AskReceive(k) ==
  /\ open
  /\ pc[k] = "asking"
  /\ answer[k] # <<>>
  /\ answer' = [answer EXCEPT ![k] = <<>>]
  /\ pc' = [pc EXCEPT ![k] = IF Head(answer[k]) > 0 THEN "granted"
                                                   ELSE "failed"]
  /\ UNCHANGED <<newId, cIdVars, sIdVars, c2s, s2c, cRecv, queueVars, open,
                 historyVars>>

\* conn.newChannel: the id ...
MakeId(k) ==
  /\ open
  /\ pc[k] = "granted"
  /\ \E id \in Ids : /\ MakeNewChannelId(cFree, cMax, id, cFree', cMax')
                     /\ newId' = [newId EXCEPT ![k] = id]
  /\ wrapped' = (wrapped \/ Exhausted(cFree, cMax))
  /\ pc' = [pc EXCEPT ![k] = "made"]
  /\ UNCHANGED <<answer, cChannels, sIdVars, c2s, s2c, cRecv,
                 queueVars, open, deleted, untidy, mixed>>

\* Fault: the entry goes to the next id.
RegisterNext(k) ==
  /\ open
  /\ pc[k] = "made"
  /\ cChannels' = With(cChannels, newId[k] + 1, k)
  /\ pc' = [pc EXCEPT ![k] = "open"]
  /\ UNCHANGED <<openVars, cFree, cMax, sIdVars, c2s, s2c, cRecv, queueVars,
                 open, historyVars>>

\* ... and, under the lock taken again, the entry in Channels.
Register(k) ==
  /\ open
  /\ pc[k] = "made"
  /\ cChannels' = With(cChannels, newId[k], k)
  /\ pc' = [pc EXCEPT ![k] = "open"]
  /\ UNCHANGED <<openVars, cFree, cMax, sIdVars, c2s, s2c, cRecv, queueVars,
                 open, historyVars>>

\* DoRequest or DoStreamRequest on channel k.  Channel.Close takes the
\* channel out of Channels before it sets err, so "closing" still sends.
Send(k, kind) ==
  /\ open
  /\ pc[k] \in {"open", "closing"}
  /\ sent[k] < MaxRequests
  /\ sent' = [sent EXCEPT ![k] = @ + 1]
  /\ uncompleted' = [uncompleted EXCEPT ![k] = Append(@, sent'[k])]
  /\ c2s' = Append(c2s, Packet(newId[k], kind, k, sent'[k]))
  /\ deleted' = (deleted \/ kind = "delete")
  /\ untidy' = (untidy \/ pc[k] = "closing")
  /\ UNCHANGED <<pc, openVars, cIdVars, sIdVars, s2c, cRecv, sysQueue, open,
                 wrapped, mixed>>

\* Channel.Close up to removeChannel; a second call returns at once.
FreeId(k) ==
  IF pc[k] = "open"
  THEN /\ pc' = [pc EXCEPT ![k] = "closing"]
       /\ cChannels' = Without(cChannels, newId[k])
       /\ cFree' = cFree \cup {newId[k]}
  ELSE UNCHANGED <<pc, cChannels, cFree>>

\* ClientChannel.Close: nothing is sent to the server.  First
\* removeChannel ...
CloseRemove(k) ==
  /\ open
  /\ pc[k] = "open"
  /\ FreeId(k)
  /\ untidy' = (untidy \/ uncompleted[k] # <<>>)
  /\ UNCHANGED <<openVars, cMax, sIdVars, c2s, s2c, cRecv, queueVars, open,
                 deleted, wrapped, mixed>>

\* ... then err.
CloseSetErr(k) ==
  /\ open
  /\ pc[k] = "closing"
  /\ pc' = [pc EXCEPT ![k] = "closed"]
  /\ UNCHANGED <<openVars, cIdVars, sIdVars, c2s, s2c, cRecv, queueVars, open,
                 historyVars>>

\* clientReadLoop: to the channel that has this id now; an id without a
\* channel closes the connection.
ClientRead ==
  /\ open
  /\ s2c # <<>>
  /\ s2c' = Tail(s2c)
  /\ LET p == Head(s2c)
     IN  IF p.ch \in DOMAIN cChannels
         THEN /\ cRecv' = [cRecv EXCEPT ![cChannels[p.ch]] = Append(@, p)]
              /\ UNCHANGED open
         ELSE /\ open' = FALSE
              /\ UNCHANGED cRecv
  /\ UNCHANGED <<pc, openVars, cIdVars, sIdVars, c2s, queueVars, historyVars>>

\* handleClientLoop of channel 0: the oldest caller in the queue is notified,
\* if it still waits.
SysHandle ==
  /\ open
  /\ cRecv[Sys] # <<>>
  /\ cRecv' = [cRecv EXCEPT ![Sys] = Tail(@)]
  /\ LET p == Head(cRecv[Sys])
         k == Head(sysQueue)
     IN  /\ sysQueue' = Tail(sysQueue)
         /\ answer' = IF pc[k] \in {"pushed", "asking"}
                      THEN [answer EXCEPT ![k] = <<p.n>>] ELSE answer
  /\ UNCHANGED <<pc, newId, cIdVars, sIdVars, c2s, s2c, uncompleted,
                 sent, open, deleted, untidy, wrapped, mixed>>

\* handleClientLoop of channel k: PopHead finds the request.  Without one
\* the loop closes the channel and ends.
Handle(k) ==
  /\ open
  /\ cRecv[k] # <<>>
  /\ LET p == Head(cRecv[k])
     IN  IF uncompleted[k] # <<>>
         THEN /\ cRecv' = [cRecv EXCEPT ![k] = Tail(@)]
              /\ uncompleted' = [uncompleted EXCEPT ![k] = Tail(@)]
              /\ mixed' = (mixed \/ <<p.from, p.n>> # <<k, Head(uncompleted[k])>>)
              /\ UNCHANGED <<pc, cChannels, cFree>>
         ELSE /\ cRecv' = [cRecv EXCEPT ![k] = <<>>]
              /\ mixed' = TRUE
              /\ FreeId(k)
              /\ UNCHANGED uncompleted
  /\ UNCHANGED <<openVars, cMax, sIdVars, c2s, s2c, sysQueue, sent, open,
                 deleted, untidy, wrapped>>
-----------------------------------------------------------------------------
(* The server.                                                             *)

\* serverReadLoop.
ServerRead ==
  /\ open
  /\ c2s # <<>>
  /\ c2s' = Tail(c2s)
  /\ LET p == Head(c2s)
     IN  IF p.ch \in DOMAIN sChannels
         THEN /\ sChannels' = [sChannels EXCEPT ![p.ch] = Append(@, p)]
              /\ UNCHANGED open
         ELSE /\ open' = FALSE
              /\ UNCHANGED sChannels
  /\ UNCHANGED <<pc, openVars, cIdVars, sFree, sMax, s2c, cRecv, queueVars,
                 historyVars>>

\* handleServerLoop of channel id, by the path of the request:
\* /sys/new_channel makes a channel and answers with its id.  A channel
\* whose entry is overwritten still serves the packets in its queue.
\* newChannel makes the id and enters the channel under two locks here too
\* (MakeId and Register on the client).  One step stands for both: only the
\* loop of channel 0 makes channels on the server, nobody knows the id before
\* the answer, and an id that another loop frees in between is a different one.
ServeNew(id, p) ==
  /\ p.kind = "new"
  /\ \E new \in Ids :
       /\ MakeNewChannelId(sFree, sMax, new, sFree', sMax')
       /\ LET rest == [sChannels EXCEPT ![id] = Tail(@)]
          IN  sChannels' = With(rest, new, IF new \in DOMAIN rest THEN rest[new]
                                                              ELSE <<>>)
       /\ s2c' = Append(s2c, Packet(p.ch, "new", p.from, new))
  /\ wrapped' = (wrapped \/ Exhausted(sFree, sMax))

\* /sys/delete_channel closes the channel itself, whose err then keeps
\* SendPacket from answering this request and those still queued.
ServeDelete(id, p) ==
  /\ p.kind = "delete"
  /\ sChannels' = Without(sChannels, id)
  /\ sFree' = sFree \cup {id}
  /\ UNCHANGED <<sMax, s2c, wrapped>>

\* Fault: the response is sent twice.
ServeRequestTwice(id, p) ==
  /\ p.kind = "req"
  /\ sChannels' = [sChannels EXCEPT ![id] = Tail(@)]
  /\ LET response == Packet(p.ch, "req", p.from, p.n)
     IN  s2c' = s2c \o <<response, response>>
  /\ UNCHANGED <<sFree, sMax, wrapped>>

\* Any other path is answered on the channel of the request.
ServeRequest(id, p) ==
  /\ p.kind = "req"
  /\ sChannels' = [sChannels EXCEPT ![id] = Tail(@)]
  /\ s2c' = Append(s2c, Packet(p.ch, "req", p.from, p.n))
  /\ UNCHANGED <<sFree, sMax, wrapped>>

Serve ==
  /\ open
  /\ \E id \in DOMAIN sChannels :
       /\ sChannels[id] # <<>>
       /\ LET p == Head(sChannels[id])
          IN  ServeNew(id, p) \/ ServeDelete(id, p) \/ ServeRequest(id, p)
  /\ UNCHANGED <<pc, openVars, cIdVars, c2s, cRecv, queueVars, open, deleted,
                 untidy, mixed>>
-----------------------------------------------------------------------------
Open(k) == AskPush(k) \/ AskSend(k) \/ AskTimeout(k) \/ AskReceive(k)
             \/ MakeId(k) \/ Register(k)

Next ==
  \/ \E k \in Callers :
       \/ Open(k)
       \/ \E kind \in {"req", "delete"} : Send(k, kind)
       \/ CloseRemove(k) \/ CloseSetErr(k) \/ Handle(k)
  \/ ClientRead \/ SysHandle \/ ServerRead \/ Serve

Spec == Init /\ [][Next]_vars
-----------------------------------------------------------------------------
(* Properties.                                                             *)

Steps == {"idle", "pushed", "asking", "failed", "granted", "made", "open",
          "closing", "closed"}

Packets == [ch : Ids, kind : {"new", "req", "delete"}, from : Callers, n : Nat]

\* Every variable has its type.
TypeOK ==
  /\ pc \in [Callers -> Steps]
  /\ newId \in [Callers -> Ids]
  /\ \A k \in Callers : answer[k] \in Seq(Ids) /\ Len(answer[k]) <= 1
  /\ DOMAIN cChannels \subseteq Ids /\ cFree \subseteq Ids /\ cMax \in Ids
  /\ \A i \in DOMAIN cChannels : cChannels[i] \in Callers \cup {Sys}
  /\ DOMAIN sChannels \subseteq Ids /\ sFree \subseteq Ids /\ sMax \in Ids
  /\ \A i \in DOMAIN sChannels : sChannels[i] \in Seq(Packets)
  /\ c2s \in Seq(Packets) /\ s2c \in Seq(Packets)
  /\ cRecv \in [Callers \cup {Sys} -> Seq(Packets)]
  /\ sysQueue \in Seq(Callers)
  /\ uncompleted \in [Callers -> Seq(1 .. MaxRequests)]
  /\ sent \in [Callers -> 0 .. MaxRequests]
  /\ {open, deleted, untidy, wrapped, mixed} \subseteq BOOLEAN

\* The callers whose channel has an id that is not in Channels yet.
Making == {k \in Callers : pc[k] = "made"}

\* The callers whose channel is in Channels.
Registered == {k \in Callers : pc[k] = "open"}

\* While ids last, every id ever made on a side is, there, either free or
\* belongs to exactly one channel, registered or about to be: no two
\* channels of a connection share an id, and none is lost, although
\* newChannel takes its lock twice and channels close meanwhile.
IdsPartitioned ==
  ~wrapped =>
    /\ cFree \cup DOMAIN cChannels \cup {newId[k] : k \in Making} = 0 .. cMax
    /\ cFree \cap DOMAIN cChannels = {}
    /\ \A k \in Making : newId[k] \notin cFree \cup DOMAIN cChannels
    /\ \A k, l \in Making : newId[k] = newId[l] => k = l
    /\ \A k \in Registered :
         newId[k] \in DOMAIN cChannels /\ cChannels[newId[k]] = k
    /\ cChannels[0] = Sys
    /\ sFree \cup DOMAIN sChannels = 0 .. sMax
    /\ sFree \cap DOMAIN sChannels = {}

\* Although the client ignores the id the server answers with and picks one
\* of its own, the server knows every id the client uses (serverReadLoop
\* never meets an "invalid channel id"): it made a channel for every one
\* the client made, and frees none unless told to by PathDeleteChannel.
ServerKnowsIds ==
  (~wrapped /\ ~deleted) =>
    /\ \A k \in Callers : pc[k] \in {"made", "open", "closing"} =>
         newId[k] \in DOMAIN sChannels
    /\ \A i \in DOMAIN c2s : c2s[i].ch \in DOMAIN sChannels

\* If channels are closed only when nothing is outstanding on them, ids are
\* reused safely: the connection stays open, and each response reaches the
\* channel and the request it answers.
TidyUseIsSafe ==
  (~wrapped /\ ~deleted /\ ~untidy) => open /\ ~mixed
=============================================================================
