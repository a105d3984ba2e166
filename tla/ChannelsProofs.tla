--------------------------- MODULE ChannelsProofs ---------------------------
(***************************************************************************)
(* Proofs about Channels, for any number of callers, ids and requests.     *)
(***************************************************************************)
EXTENDS Channels, FiniteSetTheorems, TLAPS

Types ==
  /\ pc \in [Callers -> Steps] /\ newId \in [Callers -> Ids]
  /\ answer \in [Callers -> Seq(Nat)] /\ sent \in [Callers -> Nat]
  /\ cMax \in Ids /\ cFree \subseteq Ids /\ DOMAIN cChannels \subseteq Ids
  /\ \A i \in DOMAIN cChannels : cChannels[i] \in Callers \cup {Sys}
  /\ sMax \in Ids /\ sFree \subseteq Ids /\ DOMAIN sChannels \subseteq Ids
  /\ \A i \in DOMAIN sChannels : sChannels[i] \in Seq(Packets)
  /\ c2s \in Seq(Packets) /\ s2c \in Seq(Packets)
  /\ cRecv \in [Callers \cup {Sys} -> Seq(Packets)]
  /\ deleted \in BOOLEAN /\ wrapped \in BOOLEAN

\* The client's half of IdsPartitioned, and that Sys has no id but 0.
ClientIds ==
  ~wrapped =>
    /\ cFree \cup DOMAIN cChannels \cup {newId[k] : k \in Making} = 0 .. cMax
    /\ cFree \cap DOMAIN cChannels = {}
    /\ \A k \in Making : newId[k] \notin cFree \cup DOMAIN cChannels
    /\ \A k, l \in Making : newId[k] = newId[l] => k = l
    /\ \A k \in Registered :
         newId[k] \in DOMAIN cChannels /\ cChannels[newId[k]] = k
    /\ \A i \in DOMAIN cChannels : cChannels[i] = Sys <=> i = 0
    /\ 0 \in DOMAIN cChannels

\* The server's half.
ServerIds ==
  ~wrapped =>
    /\ sFree \cup DOMAIN sChannels = 0 .. sMax
    /\ sFree \cap DOMAIN sChannels = {}

\* Ids that the client has used: it sends on no other ones, and on channel 0
\* it only asks for channels.
Used ==
  ~wrapped =>
    /\ \A k \in Callers : pc[k] \in {"made", "open", "closing"} => newId[k] \in 1 .. cMax
    /\ \A i \in DOMAIN c2s : c2s[i].ch \in 0 .. cMax /\ (c2s[i].kind = "new" <=> c2s[i].ch = 0)
    /\ \A id \in DOMAIN sChannels : \A i \in DOMAIN sChannels[id] :
         sChannels[id][i].ch = id /\ (sChannels[id][i].kind = "new" <=> id = 0)
    /\ \A i \in DOMAIN s2c : s2c[i].kind = "new" <=> s2c[i].ch = 0

\* Nothing is freed on the server unless it is told to.
NotFreed ==
  ~deleted =>
    /\ sFree = {}
    /\ \A i \in DOMAIN c2s : c2s[i].kind # "delete"
    /\ \A id \in DOMAIN sChannels : \A i \in DOMAIN sChannels[id] :
         sChannels[id][i].kind # "delete"

\* The callers that have made an id, and those that were granted a channel.
Makers == {k \in Callers : pc[k] \in {"made", "open", "closing", "closed"}}
Grantees ==
  {k \in Callers : \/ pc[k] \in {"granted", "made", "open", "closing", "closed"}
                   \/ pc[k] \in {"pushed", "asking"} /\ answer[k] # <<>>}

\* The client makes at most one id for each of the former.
Counted ==
  /\ IsFiniteSet(Grantees)
  /\ cMax <= Cardinality(Makers)

\* The server makes one for each of the latter, and for each answer under
\* way; the ids in the answers are in order.
Answers ==
  (~wrapped /\ ~deleted) =>
    /\ Cardinality(Grantees) + Len(cRecv[Sys]) <= sMax
    /\ \A i \in DOMAIN s2c : s2c[i].kind = "new" =>
         /\ Cardinality(Grantees) + Len(cRecv[Sys]) < s2c[i].n
         /\ s2c[i].n <= sMax
    /\ \A i, j \in DOMAIN s2c : (s2c[i].kind = "new" /\ s2c[j].kind = "new" /\ i < j) =>
         s2c[i].n < s2c[j].n

\* A call that has not begun has no answer.
Unanswered == \A k \in Callers : pc[k] = "idle" => answer[k] = <<>>

IInv ==
  /\ Types /\ ClientIds /\ ServerIds /\ Used /\ NotFreed /\ Counted /\ Answers
  /\ Unanswered
-----------------------------------------------------------------------------
(* Sequences.                                                              *)

\* What is in a queue after one more element.
LEMMA AppendAll ==
  ASSUME NEW S, NEW q \in Seq(S), NEW e \in S
  PROVE  /\ Append(q, e) \in Seq(S) /\ Len(Append(q, e)) = Len(q) + 1
         /\ \A i \in DOMAIN Append(q, e) :
              \/ i \in DOMAIN q /\ Append(q, e)[i] = q[i]
              \/ i = Len(q) + 1 /\ Append(q, e)[i] = e
OBVIOUS

\* What is in it without the first.
LEMMA TailAll ==
  ASSUME NEW S, NEW q \in Seq(S), q # <<>>
  PROVE  /\ Tail(q) \in Seq(S) /\ Len(Tail(q)) = Len(q) - 1 /\ Len(q) > 0
         /\ \A i \in DOMAIN Tail(q) : i + 1 \in DOMAIN q /\ Tail(q)[i] = q[i + 1]
         /\ 1 \in DOMAIN q /\ Head(q) = q[1] /\ Head(q) \in S
OBVIOUS

\* What the bounds below are about are numbers.
LEMMA Numbers ==
  ASSUME Types
  PROVE  /\ Len(cRecv[Sys]) \in Nat /\ sMax \in Nat /\ cMax \in Nat
         /\ MaxUint32 \in Nat
         /\ \A i \in DOMAIN s2c : s2c[i].n \in Nat
<1>1. cRecv[Sys] \in Seq(Packets)
  BY DEF Types
<1>2. Len(cRecv[Sys]) \in Nat
  BY <1>1
<1>3. sMax \in Nat /\ cMax \in Nat /\ MaxUint32 \in Nat
  BY ChannelsAssumption DEF Types, Ids
<1>4. ASSUME NEW i \in DOMAIN s2c PROVE s2c[i].n \in Nat
  <2>1. s2c \in Seq(Packets)
    BY DEF Types
  <2>2. s2c[i] \in Packets
    BY <2>1
  <2> QED  BY <2>2 DEF Packets
<1> QED  BY <1>2, <1>3, <1>4

\* What is in the queues are packets.
LEMMA AllPackets ==
  ASSUME Types
  PROVE  /\ \A i \in DOMAIN c2s : c2s[i] \in Packets
         /\ \A i \in DOMAIN s2c : s2c[i] \in Packets
         /\ \A id \in DOMAIN sChannels : \A i \in DOMAIN sChannels[id] : sChannels[id][i] \in Packets
<1>1. /\ c2s \in Seq(Packets) /\ s2c \in Seq(Packets)
      /\ \A i \in DOMAIN sChannels : sChannels[i] \in Seq(Packets)
  BY DEF Types
<1> QED  BY <1>1
-----------------------------------------------------------------------------
(* Parts of IInv that most steps leave alone.                              *)

\* A step that makes, registers and frees no id of the client.
LEMMA ClientIdsKept ==
  ASSUME ClientIds, UNCHANGED <<cChannels, cFree, cMax, newId>>,
         Making' = Making, Registered' = Registered, wrapped => wrapped'
  PROVE  ClientIds'
BY DEF ClientIds

\* One that makes and frees none of the server.
LEMMA ServerIdsKept ==
  ASSUME ServerIds, UNCHANGED <<sFree, sMax>>, DOMAIN sChannels' = DOMAIN sChannels,
         wrapped => wrapped'
  PROVE  ServerIds'
BY DEF ServerIds

\* One that answers nobody.
LEMMA AnswersKept ==
  ASSUME Types, Counted, Answers, Grantees' \subseteq Grantees, UNCHANGED <<s2c, sMax>>,
         cRecv'[Sys] = cRecv[Sys], wrapped => wrapped', deleted => deleted'
  PROVE  IsFiniteSet(Grantees') /\ Answers'
<1> DEFINE G == Cardinality(Grantees)
<1>1. /\ IsFiniteSet(Grantees') /\ G \in Nat /\ G' \in Nat /\ G' <= G
  BY FS_Subset, FS_CardinalityType DEF Counted
<1>2. Len(cRecv[Sys]) \in Nat /\ sMax \in Nat /\ \A i \in DOMAIN s2c : s2c[i].n \in Nat
  BY Numbers
<1> DEFINE n == Len(cRecv[Sys])
<1>3. n' = n
  OBVIOUS
<1>4. Answers'
  <2> SUFFICES ASSUME ~wrapped', ~deleted'
               PROVE  /\ G' + n' <= sMax
                      /\ \A i \in DOMAIN s2c : s2c[i].kind = "new" =>
                           G' + n' < s2c[i].n /\ s2c[i].n <= sMax
                      /\ \A i, j \in DOMAIN s2c :
                           (s2c[i].kind = "new" /\ s2c[j].kind = "new" /\ i < j) =>
                             s2c[i].n < s2c[j].n
    BY DEF Answers
  <2>1. /\ G + n <= sMax
        /\ \A i \in DOMAIN s2c : s2c[i].kind = "new" => G + n < s2c[i].n /\ s2c[i].n <= sMax
        /\ \A i, j \in DOMAIN s2c :
             (s2c[i].kind = "new" /\ s2c[j].kind = "new" /\ i < j) => s2c[i].n < s2c[j].n
    BY DEF Answers
  <2> HIDE DEF G, n
  <2>2. G' + n' <= sMax
    BY <1>1, <1>2, <1>3, <2>1 DEF n
  <2>3. ASSUME NEW i \in DOMAIN s2c, s2c[i].kind = "new"
        PROVE  G' + n' < s2c[i].n /\ s2c[i].n <= sMax
    <3>1. s2c[i].n \in Nat /\ n \in Nat /\ G + n < s2c[i].n /\ s2c[i].n <= sMax
      BY <1>2, <2>1, <2>3 DEF n
    <3> QED  BY <1>1, <1>3, <3>1
  <2> QED  BY <2>1, <2>2, <2>3
<1> QED  BY <1>1, <1>4

\* One in which no caller makes an id.
LEMMA CountedKept ==
  ASSUME Counted, IsFiniteSet(Grantees'), Makers' = Makers, UNCHANGED cMax
  PROVE  Counted'
BY DEF Counted

\* The parts about the server's side and the packets.
LEMMA PacketsKept ==
  ASSUME Used, NotFreed, UNCHANGED <<sFree, sChannels, c2s, s2c, cMax>>,
         \A k \in Callers : pc'[k] \in {"made", "open", "closing"} =>
           pc[k] \in {"made", "open", "closing"} /\ newId'[k] = newId[k],
         wrapped => wrapped', deleted => deleted'
  PROVE  Used' /\ NotFreed'
<1>1. Used'
  BY DEF Used
<1>2. NotFreed'
  BY DEF NotFreed
<1> QED  BY <1>1, <1>2

\* A step of the client's that touches no id: what is left are the packets.
LEMMA IdsKept ==
  ASSUME IInv, UNCHANGED <<newId, cIdVars, sIdVars, s2c>>,
         Making' = Making, Registered' = Registered, Makers' = Makers,
         Grantees' \subseteq Grantees, cRecv'[Sys] = cRecv[Sys],
         wrapped => wrapped', deleted => deleted'
  PROVE  ClientIds' /\ ServerIds' /\ Counted' /\ Answers'
<1>1. /\ Types /\ ClientIds /\ ServerIds /\ Counted /\ Answers
      /\ UNCHANGED <<cChannels, cFree, cMax, sChannels, sFree, sMax>>
  BY DEF IInv, cIdVars, sIdVars
<1>2. ClientIds'
  BY <1>1, ClientIdsKept
<1>3. ServerIds'
  BY <1>1, ServerIdsKept
<1>4. IsFiniteSet(Grantees') /\ Answers'
  BY <1>1, AnswersKept
<1>5. Counted'
  BY <1>1, <1>4, CountedKept
<1> QED  BY <1>2, <1>3, <1>4, <1>5
-----------------------------------------------------------------------------
(* The steps of a caller.                                                  *)

\* AskPush, AskTimeout, AskReceive and CloseSetErr.
LEMMA AskKeeps ==
  ASSUME IInv, NEW k \in Callers,
         AskPush(k) \/ AskTimeout(k) \/ AskReceive(k) \/ CloseSetErr(k)
  PROVE  IInv'
<1>0. /\ Types /\ Unanswered /\ Used /\ NotFreed
      /\ UNCHANGED <<newId, cIdVars, sIdVars, c2s, s2c, cRecv, sent, wrapped, deleted>>
  BY DEF IInv, AskPush, AskTimeout, AskReceive, CloseSetErr, openVars, queueVars, historyVars
<1>1. /\ UNCHANGED <<newId, cChannels, cFree, cMax, sChannels, sFree, sMax, c2s, s2c>>
      /\ UNCHANGED <<cRecv, sent, wrapped, deleted>>
  BY <1>0 DEF cIdVars, sIdVars
<1>2. /\ pc \in [Callers -> Steps] /\ answer \in [Callers -> Seq(Nat)]
      /\ \A l \in Callers : pc[l] = "idle" => answer[l] = <<>>
  BY <1>0 DEF Types, Unanswered
<1>3. /\ pc' \in [Callers -> Steps] /\ answer' \in [Callers -> Seq(Nat)]
      /\ \A l \in Callers \ {k} : pc'[l] = pc[l] /\ answer'[l] = answer[l]
      /\ \/ pc[k] = "idle" /\ pc'[k] = "pushed" /\ answer'[k] = answer[k]
         \/ pc[k] = "asking" /\ pc'[k] = "failed"
         \/ pc[k] = "asking" /\ answer[k] # <<>> /\ pc'[k] \in {"granted", "failed"}
         \/ pc[k] = "closing" /\ pc'[k] = "closed"
  <2>1. CASE AskPush(k)
    BY <1>2, <2>1 DEF AskPush, openVars, Steps
  <2>2. CASE AskTimeout(k)
    BY <1>2, <2>2 DEF AskTimeout, openVars, Steps
  <2>3. CASE AskReceive(k)
    <3>1. <<>> \in Seq(Nat)
      OBVIOUS
    <3> QED  BY <1>2, <2>3, <3>1 DEF AskReceive, Steps
  <2>4. CASE CloseSetErr(k)
    BY <1>2, <2>4 DEF CloseSetErr, openVars, Steps
  <2> QED  BY <2>1, <2>2, <2>3, <2>4
<1>4. Making' = Making /\ Registered' = Registered /\ Makers' = Makers
  BY <1>3 DEF Making, Registered, Makers
<1>5. Grantees' \subseteq Grantees
  BY <1>2, <1>3 DEF Grantees
<1>6. Types'
  BY <1>0, <1>1, <1>3 DEF Types
<1>7. ClientIds' /\ ServerIds' /\ Counted' /\ Answers'
  BY <1>0, <1>1, <1>4, <1>5, IdsKept
<1>8. Used' /\ NotFreed'
  <2>1. \A l \in Callers : pc'[l] \in {"made", "open", "closing"} =>
          pc[l] \in {"made", "open", "closing"} /\ newId'[l] = newId[l]
    BY <1>1, <1>3
  <2> QED  BY <1>0, <1>1, <2>1, PacketsKept
<1>9. Unanswered'
  BY <1>2, <1>3 DEF Unanswered
<1> QED  BY <1>6, <1>7, <1>8, <1>9 DEF IInv

\* AskSend.
LEMMA AskSendKeeps ==
  ASSUME IInv, NEW k \in Callers, AskSend(k)
  PROVE  IInv'
<1>0. /\ Types /\ Unanswered /\ Used /\ NotFreed
      /\ UNCHANGED <<newId, cIdVars, sIdVars, s2c, cRecv, sent, wrapped, deleted>>
  BY DEF IInv, AskSend, openVars, queueVars, historyVars
<1>1. /\ UNCHANGED <<newId, answer, cChannels, cFree, cMax, sChannels, sFree, sMax, s2c>>
      /\ UNCHANGED <<cRecv, sent, wrapped, deleted>>
  BY <1>0 DEF cIdVars, sIdVars, AskSend, openVars
<1>2. /\ pc \in [Callers -> Steps] /\ c2s \in Seq(Packets) /\ cMax \in Nat
  BY <1>0, Numbers DEF Types
<1>3. /\ pc' \in [Callers -> Steps] /\ pc[k] = "pushed" /\ pc'[k] = "asking"
      /\ \A l \in Callers \ {k} : pc'[l] = pc[l]
      /\ c2s' = Append(c2s, Packet(0, "new", k, 0))
  BY <1>2 DEF AskSend, Steps
<1>4. Making' = Making /\ Registered' = Registered /\ Makers' = Makers
  BY <1>3 DEF Making, Registered, Makers
<1>5. Grantees' \subseteq Grantees
  BY <1>1, <1>3 DEF Grantees
<1> DEFINE p == Packet(0, "new", k, 0)
<1>p. p \in Packets /\ p.ch = 0 /\ p.kind = "new"
  BY ChannelsAssumption DEF Packet, Packets, Ids
<1> HIDE DEF p
<1>q. /\ c2s' \in Seq(Packets)
      /\ \A i \in DOMAIN c2s' : (i \in DOMAIN c2s /\ c2s'[i] = c2s[i]) \/ c2s'[i] = p
  BY <1>2, <1>3, <1>p, AppendAll DEF p
<1>6. Types'
  BY <1>0, <1>1, <1>3, <1>q DEF Types
<1>7. ClientIds' /\ ServerIds' /\ Counted' /\ Answers'
  BY <1>0, <1>1, <1>4, <1>5, IdsKept
<1>8. Used'
  <2>1. 0 \in 0 .. cMax
    BY <1>2
  <2>2. \A l \in Callers : pc'[l] \in {"made", "open", "closing"} =>
          pc[l] \in {"made", "open", "closing"} /\ newId'[l] = newId[l]
    BY <1>1, <1>3
  <2>3. ~wrapped => \A i \in DOMAIN c2s' :
          c2s'[i].ch \in 0 .. cMax /\ (c2s'[i].kind = "new" <=> c2s'[i].ch = 0)
    BY <1>0, <1>p, <1>q, <2>1 DEF Used
  <2> QED  BY <1>0, <1>1, <2>2, <2>3 DEF Used
<1>9. NotFreed'
  <2>1. ~deleted => \A i \in DOMAIN c2s' : c2s'[i].kind # "delete"
    BY <1>0, <1>p, <1>q DEF NotFreed
  <2> QED  BY <1>0, <1>1, <2>1 DEF NotFreed
<1>10. Unanswered'
  BY <1>0, <1>1, <1>3 DEF Unanswered
<1> QED  BY <1>6, <1>7, <1>8, <1>9, <1>10 DEF IInv

\* Before a caller makes an id it has none, and the one it makes is new.
LEMMA MakeIdKeeps ==
  ASSUME IInv, NEW k \in Callers, MakeId(k)
  PROVE  IInv'
<1>0. /\ Types /\ ClientIds /\ ServerIds /\ Used /\ NotFreed /\ Counted /\ Answers
      /\ Unanswered
  BY DEF IInv
<1>1. /\ UNCHANGED <<answer, cChannels, sChannels, sFree, sMax, c2s, s2c, cRecv, sent>>
      /\ UNCHANGED deleted
      /\ wrapped => wrapped'
  BY DEF MakeId, sIdVars, queueVars
<1>2. PICK id \in Ids : /\ MakeNewChannelId(cFree, cMax, id, cFree', cMax')
                       /\ newId' = [newId EXCEPT ![k] = id]
  BY DEF MakeId
<1>3. /\ pc \in [Callers -> Steps] /\ newId \in [Callers -> Ids]
      /\ cMax \in Nat /\ MaxUint32 \in Nat /\ cFree \subseteq Ids /\ cMax \in Ids
  BY <1>0, Numbers DEF Types
<1>4. /\ pc' \in [Callers -> Steps] /\ pc[k] = "granted" /\ pc'[k] = "made"
      /\ \A l \in Callers \ {k} : pc'[l] = pc[l] /\ newId'[l] = newId[l]
      /\ newId' \in [Callers -> Ids] /\ newId'[k] = id
  BY <1>2, <1>3 DEF MakeId, Steps
<1>5. /\ cFree' \subseteq Ids /\ cMax' \in Ids /\ cMax' \in Nat
      /\ cMax <= cMax' /\ cMax' <= cMax + 1
  <2>1. CASE cFree # {}
    <3>1. cFree' = cFree \ {id} /\ cMax' = cMax
      BY <1>2, <2>1 DEF MakeNewChannelId
    <3> QED  BY <1>3, <3>1
  <2>2. CASE cFree = {} /\ cMax < MaxUint32
    BY <1>2, <1>3, <2>2 DEF MakeNewChannelId, Ids
  <2>3. CASE cFree = {} /\ ~(cMax < MaxUint32)
    BY <1>2, <1>3, <2>3 DEF MakeNewChannelId
  <2> QED  BY <2>1, <2>2, <2>3
<1>6. Types'
  <2>1. wrapped' \in BOOLEAN
    BY DEF MakeId
  <2> QED  BY <1>0, <1>1, <1>4, <1>5, <2>1 DEF Types
<1>7. Making' = Making \cup {k} /\ k \notin Making /\ Registered' = Registered
  BY <1>4 DEF Making, Registered
<1>8. Makers' = Makers \cup {k} /\ k \notin Makers /\ Grantees' = Grantees
  BY <1>1, <1>4 DEF Makers, Grantees
<1>9. ~wrapped' => \/ id \in cFree /\ cFree' = cFree \ {id} /\ cMax' = cMax
                   \/ id = cMax + 1 /\ cFree' = cFree /\ cMax' = cMax + 1
  <2>1. CASE cFree # {}
    BY <1>2, <2>1 DEF MakeNewChannelId
  <2>2. CASE cFree = {} /\ cMax < MaxUint32
    BY <1>2, <2>2 DEF MakeNewChannelId
  <2>3. CASE cFree = {} /\ ~(cMax < MaxUint32)
    <3>1. Exhausted(cFree, cMax)
      BY <1>3, <2>3 DEF Exhausted
    <3> QED  BY <3>1, Zenon DEF MakeId
  <2> QED  BY <2>1, <2>2, <2>3
<1>10. ClientIds'
  <2> SUFFICES ASSUME ~wrapped' PROVE ClientIds'
    BY DEF ClientIds
  <2>0. ~wrapped
    BY <1>1
  <2>1. /\ cFree \cup DOMAIN cChannels \cup {newId[l] : l \in Making} = 0 .. cMax
        /\ cFree \cap DOMAIN cChannels = {}
        /\ \A l \in Making : newId[l] \notin cFree \cup DOMAIN cChannels
        /\ \A l, m \in Making : newId[l] = newId[m] => l = m
        /\ \A l \in Registered :
             newId[l] \in DOMAIN cChannels /\ cChannels[newId[l]] = l
        /\ \A i \in DOMAIN cChannels : cChannels[i] = Sys <=> i = 0
        /\ 0 \in DOMAIN cChannels
    BY <1>0, <2>0 DEF ClientIds
  <2>2. /\ id \notin DOMAIN cChannels /\ id \notin cFree'
        /\ \A l \in Making : newId[l] # id
    <3>1. CASE id \in cFree /\ cFree' = cFree \ {id}
      BY <2>1, <3>1
    <3>2. CASE id = cMax + 1 /\ cFree' = cFree
      <4>1. id \notin 0 .. cMax
        BY <1>3, <3>2
      <4> QED  BY <2>1, <3>2, <4>1
    <3> QED  BY <1>9, <3>1, <3>2
  <2>3. \A l \in Making : l # k /\ l \in Callers /\ newId'[l] = newId[l]
    BY <1>4, <1>7 DEF Making
  <2>4. {newId'[l] : l \in Making'} = {newId[l] : l \in Making} \cup {id}
    BY <1>4, <1>7, <2>3
  <2>5. cFree' \cup DOMAIN cChannels' \cup {newId'[l] : l \in Making'} = 0 .. cMax'
    <3>1. CASE id \in cFree /\ cFree' = cFree \ {id} /\ cMax' = cMax
      BY <1>1, <2>1, <2>4, <3>1
    <3>2. CASE id = cMax + 1 /\ cFree' = cFree /\ cMax' = cMax + 1
      <4>1. 0 .. cMax' = (0 .. cMax) \cup {id}
        BY <1>3, <3>2
      <4> QED  BY <1>1, <2>1, <2>4, <3>2, <4>1
    <3> QED  BY <1>9, <3>1, <3>2
  <2>6. cFree' \cap DOMAIN cChannels' = {} /\ 0 \in DOMAIN cChannels'
        /\ \A i \in DOMAIN cChannels' : cChannels'[i] = Sys <=> i = 0
    BY <1>1, <1>9, <2>1
  <2>7. \A l \in Making' : newId'[l] \notin cFree' \cup DOMAIN cChannels'
    BY <1>1, <1>4, <1>7, <1>9, <2>1, <2>2, <2>3
  <2>8. \A l, m \in Making' : newId'[l] = newId'[m] => l = m
    BY <1>4, <1>7, <2>1, <2>2, <2>3
  <2>9. \A l \in Registered' :
          newId'[l] \in DOMAIN cChannels' /\ cChannels'[newId'[l]] = l
    BY <1>1, <1>4, <1>7, <2>1 DEF Registered
  <2> QED  BY <2>5, <2>6, <2>7, <2>8, <2>9 DEF ClientIds
<1>11. ServerIds'
  BY <1>0, <1>1, ServerIdsKept
<1>12. Used'
  <2> SUFFICES ASSUME ~wrapped' PROVE Used'
    BY DEF Used
  <2>0. ~wrapped /\ 0 \in DOMAIN cChannels /\ cFree \cap DOMAIN cChannels = {}
        /\ cFree \subseteq 0 .. cMax
    BY <1>0, <1>1 DEF ClientIds
  <2>1. id \in 1 .. cMax'
    BY <1>3, <1>9, <2>0
  <2>2. \A l \in Callers : pc'[l] \in {"made", "open", "closing"} => newId'[l] \in 1 .. cMax'
    <3>1. \A l \in Callers \ {k} : pc'[l] \in {"made", "open", "closing"} =>
            newId'[l] \in 1 .. cMax
      BY <1>0, <1>4, <2>0 DEF Used
    <3>2. 1 .. cMax \subseteq 1 .. cMax'
      BY <1>3, <1>5
    <3> QED  BY <1>4, <2>1, <3>1, <3>2
  <2>3. 0 .. cMax \subseteq 0 .. cMax'
    BY <1>3, <1>5
  <2>4. \A i \in DOMAIN c2s : c2s[i].ch \in 0 .. cMax' /\ (c2s[i].kind = "new" <=> c2s[i].ch = 0)
    BY <1>0, <2>0, <2>3 DEF Used
  <2> QED  BY <1>0, <1>1, <2>0, <2>2, <2>4 DEF Used
<1>13. NotFreed'
  BY <1>0, <1>1 DEF NotFreed
<1>14. IsFiniteSet(Grantees') /\ Answers'
  BY <1>0, <1>1, <1>8, AnswersKept
<1>15. Counted'
  <2>1. IsFiniteSet(Makers) /\ cMax <= Cardinality(Makers)
    <3>1. Makers \subseteq Grantees
      BY DEF Makers, Grantees
    <3> QED  BY <1>0, <3>1, FS_Subset DEF Counted
  <2>2. Cardinality(Makers') = Cardinality(Makers) + 1 /\ Cardinality(Makers) \in Nat
    BY <1>8, <2>1, FS_AddElement, FS_CardinalityType
  <2>3. cMax' <= Cardinality(Makers')
    BY <1>3, <1>5, <2>1, <2>2
  <2> QED  BY <1>14, <2>3 DEF Counted
<1>16. Unanswered'
  BY <1>0, <1>1, <1>4 DEF Unanswered
<1> QED  BY <1>6, <1>10, <1>11, <1>12, <1>13, <1>14, <1>15, <1>16 DEF IInv

\* Nobody else has taken the id when the lock is taken again.
LEMMA RegisterKeeps ==
  ASSUME IInv, NEW k \in Callers, Register(k)
  PROVE  IInv'
<1>0. /\ Types /\ ClientIds /\ ServerIds /\ Used /\ NotFreed /\ Counted /\ Answers
      /\ Unanswered
  BY DEF IInv
<1>1. /\ UNCHANGED <<newId, answer, cFree, cMax, sChannels, sFree, sMax, c2s, s2c>>
      /\ UNCHANGED <<cRecv, sent, wrapped, deleted>>
  BY DEF Register, sIdVars, openVars, queueVars, historyVars
<1>2. /\ pc \in [Callers -> Steps] /\ newId \in [Callers -> Ids]
      /\ DOMAIN cChannels \subseteq Ids
      /\ \A i \in DOMAIN cChannels : cChannels[i] \in Callers \cup {Sys}
  BY <1>0 DEF Types
<1>3. /\ pc' \in [Callers -> Steps] /\ pc[k] = "made" /\ pc'[k] = "open"
      /\ \A l \in Callers \ {k} : pc'[l] = pc[l]
  BY <1>2 DEF Register, Steps
<1> DEFINE id == newId[k]
<1>a. cChannels' = With(cChannels, id, k) /\ id \in Ids
  BY <1>2 DEF Register
<1> HIDE DEF id
<1>4. /\ DOMAIN cChannels' = DOMAIN cChannels \cup {id} /\ cChannels'[id] = k
      /\ \A i \in DOMAIN cChannels \ {id} : cChannels'[i] = cChannels[i]
      /\ id \in Ids
  <2>1. /\ DOMAIN With(cChannels, id, k) = DOMAIN cChannels \cup {id}
        /\ With(cChannels, id, k)[id] = k
        /\ \A i \in DOMAIN cChannels \ {id} : With(cChannels, id, k)[i] = cChannels[i]
    BY DEF With
  <2> QED  BY <1>a, <2>1, Zenon
<1>5. Types'
  <2>1. /\ DOMAIN cChannels' \subseteq Ids
        /\ \A i \in DOMAIN cChannels' : cChannels'[i] \in Callers \cup {Sys}
    BY <1>2, <1>4
  <2> QED  BY <1>0, <1>1, <1>3, <2>1 DEF Types
<1>6. Making' = Making \ {k} /\ k \in Making /\ Registered' = Registered \cup {k}
  BY <1>3 DEF Making, Registered
<1>7. Makers' = Makers /\ Grantees' \subseteq Grantees
  BY <1>1, <1>3 DEF Makers, Grantees
<1>8. ClientIds'
  <2> SUFFICES ASSUME ~wrapped' PROVE ClientIds'
    BY DEF ClientIds
  <2>1. /\ cFree \cup DOMAIN cChannels \cup {newId[l] : l \in Making} = 0 .. cMax
        /\ cFree \cap DOMAIN cChannels = {}
        /\ \A l \in Making : newId[l] \notin cFree \cup DOMAIN cChannels
        /\ \A l, m \in Making : newId[l] = newId[m] => l = m
        /\ \A l \in Registered :
             newId[l] \in DOMAIN cChannels /\ cChannels[newId[l]] = l
        /\ \A i \in DOMAIN cChannels : cChannels[i] = Sys <=> i = 0
        /\ 0 \in DOMAIN cChannels
    BY <1>0, <1>1 DEF ClientIds
  <2>2. id \notin cFree \cup DOMAIN cChannels /\ \A l \in Making' : newId[l] # id
    BY <1>6, <2>1 DEF id
  <2>3. {newId[l] : l \in Making} = {newId[l] : l \in Making'} \cup {id}
    BY <1>6 DEF id
  <2>4. cFree' \cup DOMAIN cChannels' \cup {newId'[l] : l \in Making'} = 0 .. cMax'
    BY <1>1, <1>4, <2>1, <2>3
  <2>5. cFree' \cap DOMAIN cChannels' = {} /\ 0 \in DOMAIN cChannels'
    BY <1>1, <1>4, <2>1, <2>2
  <2>6. \A i \in DOMAIN cChannels' : cChannels'[i] = Sys <=> i = 0
    BY <1>4, <2>1, <2>2, ChannelsAssumption
  <2>7. \A l \in Making' : newId'[l] \notin cFree' \cup DOMAIN cChannels'
    BY <1>1, <1>4, <1>6, <2>1, <2>2
  <2>8. \A l, m \in Making' : newId'[l] = newId'[m] => l = m
    BY <1>1, <1>6, <2>1
  <2>9. \A l \in Registered' :
          newId'[l] \in DOMAIN cChannels' /\ cChannels'[newId'[l]] = l
    <3> SUFFICES ASSUME NEW l \in Registered'
                 PROVE  newId[l] \in DOMAIN cChannels' /\ cChannels'[newId[l]] = l
      BY <1>1
    <3>1. CASE l = k
      BY <1>4, <3>1 DEF id
    <3>2. CASE l # k
      BY <1>4, <1>6, <2>1, <2>2, <3>2
    <3> QED  BY <3>1, <3>2
  <2> QED  BY <2>4, <2>5, <2>6, <2>7, <2>8, <2>9 DEF ClientIds
<1>9. ServerIds'
  BY <1>0, <1>1, ServerIdsKept
<1>10. Used' /\ NotFreed'
  <2>1. \A l \in Callers : pc'[l] \in {"made", "open", "closing"} =>
          pc[l] \in {"made", "open", "closing"} /\ newId'[l] = newId[l]
    BY <1>1, <1>3
  <2> QED  BY <1>0, <1>1, <2>1, PacketsKept
<1>11. IsFiniteSet(Grantees') /\ Answers'
  BY <1>0, <1>1, <1>7, AnswersKept
<1>12. Counted'
  BY <1>0, <1>1, <1>7, <1>11, CountedKept
<1>13. Unanswered'
  BY <1>0, <1>1, <1>3 DEF Unanswered
<1> QED  BY <1>5, <1>8, <1>9, <1>10, <1>11, <1>12, <1>13 DEF IInv

\* Requests go out on ids that the client has made, never on channel 0.
LEMMA SendKeeps ==
  ASSUME IInv, NEW k \in Callers, NEW kind \in {"req", "delete"}, Send(k, kind)
  PROVE  IInv'
<1>0. /\ Types /\ Unanswered /\ Used /\ NotFreed
      /\ UNCHANGED <<newId, cIdVars, sIdVars, s2c, cRecv, wrapped>>
  BY DEF IInv, Send, openVars
<1>1. /\ UNCHANGED <<pc, newId, answer, cChannels, cFree, cMax, sChannels, sFree, sMax>>
      /\ UNCHANGED <<s2c, cRecv, wrapped>>
  BY <1>0 DEF cIdVars, sIdVars, Send, openVars
<1>2. /\ newId \in [Callers -> Ids] /\ sent \in [Callers -> Nat] /\ c2s \in Seq(Packets)
      /\ cMax \in Nat
  BY <1>0, Numbers DEF Types
<1>3. /\ sent' \in [Callers -> Nat] /\ sent'[k] \in Nat
      /\ c2s' = Append(c2s, Packet(newId[k], kind, k, sent'[k]))
      /\ pc[k] \in {"open", "closing"}
  BY <1>2 DEF Send
<1>4. deleted' \in BOOLEAN /\ (deleted => deleted') /\ (~deleted' => kind = "req")
  BY <1>0, Zenon DEF Send, Types
<1>5. Making' = Making /\ Registered' = Registered /\ Makers' = Makers /\ Grantees' = Grantees
  BY <1>1 DEF Making, Registered, Makers, Grantees
<1> DEFINE p == Packet(newId[k], kind, k, sent'[k])
<1>p. p \in Packets /\ p.ch = newId[k] /\ p.kind = kind
  BY <1>2, <1>3 DEF Packet, Packets
<1> HIDE DEF p
<1>q. /\ c2s' \in Seq(Packets)
      /\ \A i \in DOMAIN c2s' : (i \in DOMAIN c2s /\ c2s'[i] = c2s[i]) \/ c2s'[i] = p
  BY <1>2, <1>3, <1>p, AppendAll DEF p
<1>6. Types'
  BY <1>0, <1>1, <1>3, <1>4, <1>q DEF Types
<1>7. ClientIds' /\ ServerIds' /\ Counted' /\ Answers'
  BY <1>0, <1>1, <1>4, <1>5, IdsKept
<1>8. Used'
  <2>1. ~wrapped => newId[k] \in 1 .. cMax
    BY <1>0, <1>3 DEF Used
  <2>2. ~wrapped => p.ch \in 0 .. cMax /\ p.ch # 0 /\ p.kind # "new"
    BY <1>2, <1>p, <2>1
  <2>3. ~wrapped => \A i \in DOMAIN c2s' :
          c2s'[i].ch \in 0 .. cMax /\ (c2s'[i].kind = "new" <=> c2s'[i].ch = 0)
    BY <1>0, <1>q, <2>2 DEF Used
  <2> QED  BY <1>0, <1>1, <2>3 DEF Used
<1>9. NotFreed'
  <2>1. ~deleted' => \A i \in DOMAIN c2s' : c2s'[i].kind # "delete"
    BY <1>0, <1>4, <1>p, <1>q DEF NotFreed
  <2> QED  BY <1>0, <1>1, <1>4, <2>1 DEF NotFreed
<1>10. Unanswered'
  BY <1>0, <1>1 DEF Unanswered
<1> QED  BY <1>6, <1>7, <1>8, <1>9, <1>10 DEF IInv

\* removeChannel, whoever calls it: the id of a registered channel becomes
\* free, and of no other.
LEMMA RemoveKeeps ==
  ASSUME IInv, NEW k \in Callers, pc[k] = "open", FreeId(k),
         UNCHANGED <<newId, answer, cMax, sChannels, sFree, sMax, c2s, s2c>>,
         UNCHANGED <<sent, wrapped, deleted>>,
         cRecv' \in [Callers \cup {Sys} -> Seq(Packets)], cRecv'[Sys] = cRecv[Sys]
  PROVE  IInv'
<1>0. /\ Types /\ ClientIds /\ ServerIds /\ Used /\ NotFreed /\ Counted /\ Answers
      /\ Unanswered
  BY DEF IInv
<1>1. /\ UNCHANGED <<newId, answer, cMax, sChannels, sFree, sMax, c2s, s2c>>
      /\ UNCHANGED <<sent, wrapped, deleted>>
      /\ cRecv' \in [Callers \cup {Sys} -> Seq(Packets)]
  OBVIOUS
<1>2. /\ pc \in [Callers -> Steps] /\ newId \in [Callers -> Ids]
      /\ DOMAIN cChannels \subseteq Ids /\ cFree \subseteq Ids
      /\ \A i \in DOMAIN cChannels : cChannels[i] \in Callers \cup {Sys}
  BY <1>0 DEF Types
<1>3. /\ pc' \in [Callers -> Steps] /\ pc[k] = "open" /\ pc'[k] = "closing"
      /\ \A l \in Callers \ {k} : pc'[l] = pc[l]
  BY <1>2 DEF FreeId, Steps
<1> DEFINE id == newId[k]
<1>a. cChannels' = Without(cChannels, id) /\ id \in Ids /\ cFree' = cFree \cup {id}
  BY <1>2 DEF FreeId
<1> HIDE DEF id
<1>4. /\ DOMAIN cChannels' = DOMAIN cChannels \ {id}
      /\ \A i \in DOMAIN cChannels \ {id} : cChannels'[i] = cChannels[i]
  <2>1. /\ DOMAIN Without(cChannels, id) = DOMAIN cChannels \ {id}
        /\ \A i \in DOMAIN cChannels \ {id} : Without(cChannels, id)[i] = cChannels[i]
    BY DEF Without
  <2> QED  BY <1>a, <2>1, Zenon
<1>5. Types'
  <2>1. /\ DOMAIN cChannels' \subseteq Ids /\ cFree' \subseteq Ids
        /\ \A i \in DOMAIN cChannels' : cChannels'[i] \in Callers \cup {Sys}
    BY <1>2, <1>4, <1>a
  <2> QED  BY <1>0, <1>1, <1>3, <2>1 DEF Types
<1>6. Making' = Making /\ Registered' = Registered \ {k} /\ k \in Registered
  BY <1>3 DEF Making, Registered
<1>7. Makers' = Makers /\ Grantees' \subseteq Grantees
  BY <1>1, <1>3 DEF Makers, Grantees
<1>8. ClientIds'
  <2> SUFFICES ASSUME ~wrapped' PROVE ClientIds'
    BY DEF ClientIds
  <2>1. /\ cFree \cup DOMAIN cChannels \cup {newId[l] : l \in Making} = 0 .. cMax
        /\ cFree \cap DOMAIN cChannels = {}
        /\ \A l \in Making : newId[l] \notin cFree \cup DOMAIN cChannels
        /\ \A l, m \in Making : newId[l] = newId[m] => l = m
        /\ \A l \in Registered :
             newId[l] \in DOMAIN cChannels /\ cChannels[newId[l]] = l
        /\ \A i \in DOMAIN cChannels : cChannels[i] = Sys <=> i = 0
        /\ 0 \in DOMAIN cChannels
    BY <1>0, <1>1 DEF ClientIds
  <2>2. id \in DOMAIN cChannels /\ cChannels[id] = k
    BY <1>6, <2>1 DEF id
  <2>3. id # 0
    BY <2>1, <2>2, ChannelsAssumption
  <2>4. cFree' \cup DOMAIN cChannels' \cup {newId'[l] : l \in Making'} = 0 .. cMax'
    BY <1>1, <1>4, <1>6, <1>a, <2>1, <2>2
  <2>5. cFree' \cap DOMAIN cChannels' = {} /\ 0 \in DOMAIN cChannels'
    BY <1>4, <1>a, <2>1, <2>3
  <2>6. \A i \in DOMAIN cChannels' : cChannels'[i] = Sys <=> i = 0
    BY <1>4, <2>1
  <2>7. \A l \in Making' : newId'[l] \notin cFree' \cup DOMAIN cChannels'
    BY <1>1, <1>4, <1>6, <1>a, <2>1, <2>2
  <2>8. \A l, m \in Making' : newId'[l] = newId'[m] => l = m
    BY <1>1, <1>6, <2>1
  <2>9. \A l \in Registered' :
          newId'[l] \in DOMAIN cChannels' /\ cChannels'[newId'[l]] = l
    BY <1>1, <1>4, <1>6, <2>1, <2>2
  <2> QED  BY <2>4, <2>5, <2>6, <2>7, <2>8, <2>9 DEF ClientIds
<1>9. ServerIds'
  BY <1>0, <1>1, ServerIdsKept
<1>10. Used' /\ NotFreed'
  <2>1. \A l \in Callers : pc'[l] \in {"made", "open", "closing"} =>
          pc[l] \in {"made", "open", "closing"} /\ newId'[l] = newId[l]
    BY <1>1, <1>3
  <2> QED  BY <1>0, <1>1, <2>1, PacketsKept
<1>11. IsFiniteSet(Grantees') /\ Answers'
  BY <1>0, <1>1, <1>7, AnswersKept
<1>12. Counted'
  BY <1>0, <1>1, <1>7, <1>11, CountedKept
<1>13. Unanswered'
  BY <1>0, <1>1, <1>3 DEF Unanswered
<1> QED  BY <1>5, <1>8, <1>9, <1>10, <1>11, <1>12, <1>13 DEF IInv

\* CloseRemove.
LEMMA CloseRemoveKeeps ==
  ASSUME IInv, NEW k \in Callers, CloseRemove(k)
  PROVE  IInv'
<1>1. /\ UNCHANGED <<newId, answer, cMax, sChannels, sFree, sMax, c2s, s2c>>
      /\ UNCHANGED <<sent, wrapped, deleted>> /\ UNCHANGED cRecv
      /\ pc[k] = "open" /\ FreeId(k)
  BY DEF CloseRemove, openVars, sIdVars, queueVars
<1>2. cRecv' \in [Callers \cup {Sys} -> Seq(Packets)] /\ cRecv'[Sys] = cRecv[Sys]
  BY <1>1 DEF IInv, Types
<1> QED  BY <1>1, <1>2, RemoveKeeps

\* Handle.
LEMMA HandleKeeps ==
  ASSUME IInv, NEW k \in Callers, Handle(k)
  PROVE  IInv'
<1>0. /\ UNCHANGED <<newId, answer, cMax, sChannels, sFree, sMax, c2s, s2c>>
      /\ UNCHANGED <<sent, wrapped, deleted>>
  BY DEF Handle, openVars, sIdVars
<1>1. Types /\ cRecv \in [Callers \cup {Sys} -> Seq(Packets)] /\ k # Sys /\ cRecv[k] # <<>>
  BY ChannelsAssumption DEF IInv, Types, Handle
<1>2. cRecv' \in [Callers \cup {Sys} -> Seq(Packets)] /\ cRecv'[Sys] = cRecv[Sys]
  <2>1. Tail(cRecv[k]) \in Seq(Packets) /\ <<>> \in Seq(Packets)
    BY <1>1
  <2>2. \/ cRecv' = [cRecv EXCEPT ![k] = Tail(cRecv[k])]
        \/ cRecv' = [cRecv EXCEPT ![k] = <<>>]
    BY DEF Handle
  <2> QED  BY <1>1, <2>1, <2>2
<1>3. CASE pc[k] = "open" /\ FreeId(k)
  BY <1>0, <1>2, <1>3, RemoveKeeps
<1>4. CASE UNCHANGED <<pc, cChannels, cFree>>
  <2>1. Types'
    BY <1>0, <1>1, <1>2, <1>4 DEF Types
  <2>2. /\ Making' = Making /\ Registered' = Registered /\ Makers' = Makers
        /\ Grantees' = Grantees
    BY <1>0, <1>4 DEF Making, Registered, Makers, Grantees
  <2>3. UNCHANGED <<newId, cIdVars, sIdVars, s2c>>
    BY <1>0, <1>4 DEF cIdVars, sIdVars
  <2>4. ClientIds' /\ ServerIds' /\ Counted' /\ Answers'
    BY <1>0, <1>2, <2>2, <2>3, IdsKept
  <2>5. Used' /\ NotFreed'
    BY <1>0, <1>4, PacketsKept DEF IInv
  <2>6. Unanswered'
    BY <1>0, <1>4 DEF IInv, Unanswered
  <2> QED  BY <2>1, <2>4, <2>5, <2>6 DEF IInv
<1> QED
  BY <1>3, <1>4 DEF Handle, FreeId
-----------------------------------------------------------------------------
(* The loops of the client.                                                *)

\* An answer for channel 0 leaves the connection for the queue of channel 0:
\* it counts one there, and the answers behind it have larger ids.
LEMMA ClientReadKeeps ==
  ASSUME IInv, ClientRead
  PROVE  IInv'
<1>0. /\ Types /\ ClientIds /\ ServerIds /\ Used /\ NotFreed /\ Counted /\ Answers
      /\ Unanswered
  BY DEF IInv
<1>1. /\ UNCHANGED <<pc, newId, answer, cChannels, cFree, cMax, sChannels, sFree, sMax>>
      /\ UNCHANGED <<c2s, sent, wrapped, deleted>>
  BY DEF ClientRead, openVars, cIdVars, sIdVars, queueVars, historyVars
<1> DEFINE p == Head(s2c)
           L == Len(cRecv[Sys])
           G == Cardinality(Grantees)
<1>2. /\ cRecv \in [Callers \cup {Sys} -> Seq(Packets)]
      /\ \A i \in DOMAIN cChannels : cChannels[i] \in Callers \cup {Sys}
      /\ L \in Nat /\ sMax \in Nat /\ (\A i \in DOMAIN s2c : s2c[i].n \in Nat)
  BY <1>0, Numbers DEF Types
<1>3. s2c \in Seq(Packets) /\ s2c # <<>> /\ s2c' = Tail(s2c)
  BY <1>0 DEF Types, ClientRead
<1>4. /\ s2c' \in Seq(Packets)
      /\ \A i \in DOMAIN s2c' : i + 1 \in DOMAIN s2c /\ s2c'[i] = s2c[i + 1]
      /\ 1 \in DOMAIN s2c /\ p = s2c[1] /\ p \in Packets
  BY <1>3, TailAll
<1>5. \/ p.ch \in DOMAIN cChannels /\ cRecv' = [cRecv EXCEPT ![cChannels[p.ch]] = Append(@, p)]
      \/ cRecv' = cRecv
  BY DEF ClientRead
<1> HIDE DEF p
<1>6. /\ cRecv' \in [Callers \cup {Sys} -> Seq(Packets)]
      /\ \/ cRecv'[Sys] = cRecv[Sys]
         \/ /\ p.ch \in DOMAIN cChannels /\ cChannels[p.ch] = Sys
            /\ cRecv'[Sys] = Append(cRecv[Sys], p)
  <2>1. CASE cRecv' = cRecv
    BY <1>2, <2>1
  <2>2. CASE p.ch \in DOMAIN cChannels /\ cRecv' = [cRecv EXCEPT ![cChannels[p.ch]] = Append(@, p)]
    <3> DEFINE c == cChannels[p.ch]
    <3>1. c \in Callers \cup {Sys}
      BY <1>2, <2>2
    <3>2. cRecv[c] \in Seq(Packets)
      BY <1>2, <3>1
    <3>3. Append(cRecv[c], p) \in Seq(Packets)
      BY <1>4, <3>2
    <3>4. cRecv' = [cRecv EXCEPT ![c] = Append(cRecv[c], p)]
      BY <2>2
    <3> HIDE DEF c
    <3>5. /\ cRecv' \in [Callers \cup {Sys} -> Seq(Packets)]
          /\ (c # Sys => cRecv'[Sys] = cRecv[Sys])
          /\ (c = Sys => cRecv'[Sys] = Append(cRecv[Sys], p))
      BY <1>2, <3>1, <3>3, <3>4
    <3> QED  BY <2>2, <3>5 DEF c
  <2> QED  BY <1>5, <2>1, <2>2
<1>7. Types'
  BY <1>0, <1>1, <1>4, <1>6 DEF Types
<1>8. /\ Making' = Making /\ Registered' = Registered /\ Makers' = Makers
      /\ Grantees' = Grantees
  BY <1>1 DEF Making, Registered, Makers, Grantees
<1>9. ClientIds' /\ ServerIds'
  BY <1>0, <1>1, <1>8, ClientIdsKept, ServerIdsKept
<1>10. Used'
  <2>1. ~wrapped => \A i \in DOMAIN s2c' : s2c'[i].kind = "new" <=> s2c'[i].ch = 0
    BY <1>0, <1>4 DEF Used
  <2> QED  BY <1>0, <1>1, <2>1 DEF Used
<1>11. NotFreed'
  BY <1>0, <1>1 DEF NotFreed
<1>12. Counted'
  BY <1>0, <1>1, <1>8 DEF Counted
<1>13. Answers'
  <2> DEFINE M == Len(cRecv'[Sys])
  <2> SUFFICES ASSUME ~wrapped, ~deleted
               PROVE  /\ G + M <= sMax
                      /\ \A i \in DOMAIN s2c' : s2c'[i].kind = "new" =>
                           G + M < s2c'[i].n /\ s2c'[i].n <= sMax
                      /\ \A i, j \in DOMAIN s2c' :
                           (s2c'[i].kind = "new" /\ s2c'[j].kind = "new" /\ i < j) =>
                             s2c'[i].n < s2c'[j].n
    BY <1>1, <1>8 DEF Answers
  <2>1. /\ G + L <= sMax
        /\ \A i \in DOMAIN s2c : s2c[i].kind = "new" => G + L < s2c[i].n /\ s2c[i].n <= sMax
        /\ \A i, j \in DOMAIN s2c :
             (s2c[i].kind = "new" /\ s2c[j].kind = "new" /\ i < j) => s2c[i].n < s2c[j].n
    BY <1>0 DEF Answers
  <2>2. G \in Nat
    BY <1>0, FS_CardinalityType DEF Counted
  <2>3. \/ M = L
        \/ M = L + 1 /\ p.kind = "new"
    <3>1. CASE cRecv'[Sys] = cRecv[Sys]
      BY <3>1
    <3>2. CASE /\ p.ch \in DOMAIN cChannels /\ cChannels[p.ch] = Sys
               /\ cRecv'[Sys] = Append(cRecv[Sys], p)
      <4>1. p.ch = 0
        BY <1>0, <3>2 DEF ClientIds
      <4>2. p.kind = "new"
        BY <1>0, <1>4, <4>1 DEF Used
      <4>3. cRecv[Sys] \in Seq(Packets)
        BY <1>2
      <4>4. M = L + 1
        BY <1>4, <3>2, <4>3
      <4> QED  BY <4>2, <4>4
    <3> QED  BY <1>6, <3>1, <3>2
  <2> HIDE DEF L, M, G
  <2>4. \A i \in DOMAIN s2c' : i \in Nat /\ i >= 1
    BY <1>4
  <2>5. \A i, j \in DOMAIN s2c' :
          (s2c'[i].kind = "new" /\ s2c'[j].kind = "new" /\ i < j) => s2c'[i].n < s2c'[j].n
    BY <1>4, <2>1, <2>4
  <2>6. CASE M = L
    BY <1>4, <2>1, <2>5, <2>6
  <2>7. CASE M = L + 1 /\ p.kind = "new"
    <3>1. G + L < p.n /\ p.n <= sMax /\ p.n \in Nat
      BY <1>2, <1>4, <2>1, <2>7
    <3>2. G + M <= sMax
      BY <1>2, <2>2, <2>7, <3>1
    <3>3. ASSUME NEW i \in DOMAIN s2c', s2c'[i].kind = "new"
          PROVE  G + M < s2c'[i].n /\ s2c'[i].n <= sMax
      <4>1. /\ i + 1 \in DOMAIN s2c /\ s2c'[i] = s2c[i + 1] /\ 1 < i + 1
            /\ s2c[1].kind = "new"
        BY <1>4, <2>4, <2>7
      <4>2. s2c[1].n < s2c[i + 1].n /\ s2c[i + 1].n <= sMax /\ s2c[i + 1].n \in Nat
        BY <1>2, <1>4, <2>1, <3>3, <4>1
      <4>3. p.n < s2c'[i].n /\ s2c'[i].n <= sMax /\ s2c'[i].n \in Nat
        BY <1>4, <4>1, <4>2
      <4> QED  BY <1>2, <2>2, <2>7, <3>1, <4>3
    <3> QED  BY <2>5, <3>2, <3>3
  <2> QED  BY <2>3, <2>6, <2>7
<1>14. Unanswered'
  BY <1>0, <1>1 DEF Unanswered
<1> QED  BY <1>7, <1>9, <1>10, <1>11, <1>12, <1>13, <1>14 DEF IInv

\* An answer leaves the queue of channel 0 for at most one caller.
LEMMA SysHandleKeeps ==
  ASSUME IInv, SysHandle
  PROVE  IInv'
<1>0. /\ Types /\ ClientIds /\ ServerIds /\ Used /\ NotFreed /\ Counted /\ Answers
      /\ Unanswered
  BY DEF IInv
<1>1. /\ UNCHANGED <<pc, newId, cChannels, cFree, cMax, sChannels, sFree, sMax>>
      /\ UNCHANGED <<c2s, s2c, sent, wrapped, deleted>>
  BY DEF SysHandle, cIdVars, sIdVars
<1> DEFINE k == Head(sysQueue)
           L == Len(cRecv[Sys])
           G == Cardinality(Grantees)
<1>2. /\ cRecv \in [Callers \cup {Sys} -> Seq(Packets)] /\ answer \in [Callers -> Seq(Nat)]
      /\ L \in Nat /\ sMax \in Nat /\ \A i \in DOMAIN s2c : s2c[i].n \in Nat
  BY <1>0, Numbers DEF Types
<1>3. cRecv[Sys] \in Seq(Packets) /\ cRecv[Sys] # <<>>
  BY <1>2 DEF SysHandle
<1>4. Tail(cRecv[Sys]) \in Seq(Packets) /\ Len(Tail(cRecv[Sys])) = L - 1 /\ L > 0
      /\ Head(cRecv[Sys]) \in Packets
  BY <1>3, TailAll
<1>5. /\ cRecv' \in [Callers \cup {Sys} -> Seq(Packets)]
      /\ cRecv'[Sys] = Tail(cRecv[Sys])
  BY <1>2, <1>4 DEF SysHandle
<1> DEFINE a == <<Head(cRecv[Sys]).n>>
<1>6. a \in Seq(Nat)
  <2>1. Head(cRecv[Sys]).n \in Nat
    BY <1>4 DEF Packets
  <2> QED  BY <2>1
<1>7. \/ answer' = answer
      \/ answer' = [answer EXCEPT ![k] = a] /\ pc[k] \in {"pushed", "asking"}
  BY DEF SysHandle
<1> HIDE DEF k, a
<1>8. /\ answer' \in [Callers -> Seq(Nat)]
      /\ \A l \in Callers \ {k} : answer'[l] = answer[l]
      /\ answer'[k] = answer[k] \/ pc[k] \in {"pushed", "asking"} \/ k \notin Callers
  BY <1>2, <1>6, <1>7
<1>9. Types'
  BY <1>0, <1>1, <1>5, <1>8 DEF Types
<1>10. Making' = Making /\ Registered' = Registered /\ Makers' = Makers
  BY <1>1 DEF Making, Registered, Makers
<1>11. Grantees' \subseteq Grantees \cup {k}
  BY <1>1, <1>8 DEF Grantees
<1>12. /\ IsFiniteSet(Grantees') /\ G \in Nat /\ Cardinality(Grantees') \in Nat
       /\ Cardinality(Grantees') <= G + 1
  <2>1. IsFiniteSet(Grantees)
    BY <1>0 DEF Counted
  <2>2. /\ IsFiniteSet(Grantees \cup {k})
        /\ \/ Cardinality(Grantees \cup {k}) = G
           \/ Cardinality(Grantees \cup {k}) = G + 1
    BY <2>1, FS_AddElement
  <2>3. G \in Nat
    BY <2>1, FS_CardinalityType
  <2>4. /\ IsFiniteSet(Grantees')
        /\ Cardinality(Grantees') <= Cardinality(Grantees \cup {k})
    BY <1>11, <2>2, FS_Subset
  <2>5. Cardinality(Grantees') \in Nat
    BY <2>4, FS_CardinalityType
  <2> HIDE DEF G
  <2> QED  BY <2>2, <2>3, <2>4, <2>5
<1>13. ClientIds' /\ ServerIds'
  BY <1>0, <1>1, <1>10, ClientIdsKept, ServerIdsKept
<1>14. Used' /\ NotFreed'
  BY <1>0, <1>1, PacketsKept
<1>15. Counted'
  BY <1>0, <1>1, <1>10, <1>12, CountedKept
<1>16. Answers'
  <2> DEFINE H == Cardinality(Grantees')
             M == Len(cRecv'[Sys])
  <2> SUFFICES ASSUME ~wrapped, ~deleted
               PROVE  /\ H + M <= sMax
                      /\ \A i \in DOMAIN s2c : s2c[i].kind = "new" =>
                           H + M < s2c[i].n /\ s2c[i].n <= sMax
                      /\ \A i, j \in DOMAIN s2c :
                           (s2c[i].kind = "new" /\ s2c[j].kind = "new" /\ i < j) =>
                             s2c[i].n < s2c[j].n
    BY <1>1 DEF Answers
  <2>1. /\ G + L <= sMax
        /\ \A i \in DOMAIN s2c : s2c[i].kind = "new" => G + L < s2c[i].n /\ s2c[i].n <= sMax
        /\ \A i, j \in DOMAIN s2c :
             (s2c[i].kind = "new" /\ s2c[j].kind = "new" /\ i < j) => s2c[i].n < s2c[j].n
    BY <1>0 DEF Answers
  <2>2. M = L - 1 /\ H \in Nat /\ H <= G + 1
    BY <1>4, <1>5, <1>12
  <2> HIDE DEF L, M, G, H
  <2>3. M \in Int /\ H + M <= G + L
    BY <1>2, <1>12, <2>2
  <2>4. H + M <= sMax
    BY <1>2, <1>12, <2>1, <2>2, <2>3
  <2>5. ASSUME NEW i \in DOMAIN s2c, s2c[i].kind = "new"
        PROVE  H + M < s2c[i].n /\ s2c[i].n <= sMax
    <3>1. s2c[i].n \in Nat /\ G + L < s2c[i].n /\ s2c[i].n <= sMax
      BY <1>2, <2>1, <2>5
    <3> QED  BY <1>2, <1>12, <2>2, <2>3, <3>1
  <2> QED  BY <2>1, <2>4, <2>5
<1>17. Unanswered'
  BY <1>0, <1>1, <1>8 DEF Unanswered
<1> QED  BY <1>9, <1>13, <1>14, <1>15, <1>16, <1>17 DEF IInv
-----------------------------------------------------------------------------
(* The loops of the server.                                                *)

\* A packet leaves the connection for the queue of the channel it names.
LEMMA ServerReadKeeps ==
  ASSUME IInv, ServerRead
  PROVE  IInv'
<1>0. /\ Types /\ ClientIds /\ ServerIds /\ Used /\ NotFreed /\ Counted /\ Answers
      /\ Unanswered
  BY DEF IInv
<1>1. /\ UNCHANGED <<pc, newId, answer, cChannels, cFree, cMax, sFree, sMax, s2c>>
      /\ UNCHANGED <<cRecv, sent, wrapped, deleted>>
  BY DEF ServerRead, openVars, cIdVars, queueVars, historyVars
<1> DEFINE p == Head(c2s)
<1>2. DOMAIN sChannels \subseteq Ids /\ \A i \in DOMAIN sChannels : sChannels[i] \in Seq(Packets)
  BY <1>0 DEF Types
<1>3. c2s \in Seq(Packets) /\ c2s # <<>> /\ c2s' = Tail(c2s)
  BY <1>0 DEF Types, ServerRead
<1>4. /\ c2s' \in Seq(Packets)
      /\ \A i \in DOMAIN c2s' : i + 1 \in DOMAIN c2s /\ c2s'[i] = c2s[i + 1]
      /\ 1 \in DOMAIN c2s /\ p = c2s[1] /\ p \in Packets
  BY <1>3, TailAll
<1>5. \/ p.ch \in DOMAIN sChannels /\ sChannels' = [sChannels EXCEPT ![p.ch] = Append(@, p)]
      \/ sChannels' = sChannels
  BY DEF ServerRead
<1> HIDE DEF p
<1>6. /\ DOMAIN sChannels' = DOMAIN sChannels
      /\ \A id \in DOMAIN sChannels :
           \/ sChannels'[id] = sChannels[id]
           \/ id = p.ch /\ sChannels'[id] = Append(sChannels[id], p)
  BY <1>5
<1>7. ASSUME NEW id \in DOMAIN sChannels
      PROVE  /\ sChannels'[id] \in Seq(Packets)
             /\ \A i \in DOMAIN sChannels'[id] :
                  \/ i \in DOMAIN sChannels[id] /\ sChannels'[id][i] = sChannels[id][i]
                  \/ id = p.ch /\ sChannels'[id][i] = p
  <2>1. sChannels[id] \in Seq(Packets)
    BY <1>2
  <2>2. CASE sChannels'[id] = sChannels[id]
    BY <2>1, <2>2
  <2>3. CASE id = p.ch /\ sChannels'[id] = Append(sChannels[id], p)
    <3> DEFINE q == sChannels[id]
    <3>1. /\ Append(q, p) \in Seq(Packets)
          /\ \A i \in DOMAIN Append(q, p) :
               \/ i \in DOMAIN q /\ Append(q, p)[i] = q[i]
               \/ i = Len(q) + 1 /\ Append(q, p)[i] = p
      BY <1>4, <2>1, AppendAll
    <3> QED  BY <2>3, <3>1
  <2> QED  BY <1>6, <2>2, <2>3
<1>8. Types'
  <2>1. /\ DOMAIN sChannels' \subseteq Ids
        /\ \A i \in DOMAIN sChannels' : sChannels'[i] \in Seq(Packets)
    BY <1>2, <1>6, <1>7
  <2> QED  BY <1>0, <1>1, <1>4, <2>1 DEF Types
<1>9. /\ Making' = Making /\ Registered' = Registered /\ Makers' = Makers
      /\ Grantees' = Grantees
  BY <1>1 DEF Making, Registered, Makers, Grantees
<1>10. ClientIds' /\ ServerIds'
  BY <1>0, <1>1, <1>6, <1>9, ClientIdsKept, ServerIdsKept
<1>11. Counted' /\ Answers'
  BY <1>0, <1>1, <1>9, AnswersKept, CountedKept
<1>12. Used'
  <2> SUFFICES ASSUME ~wrapped' PROVE Used'
    BY DEF Used
  <2>1. /\ \A k \in Callers : pc[k] \in {"made", "open", "closing"} => newId[k] \in 1 .. cMax
        /\ \A i \in DOMAIN c2s : c2s[i].ch \in 0 .. cMax /\ (c2s[i].kind = "new" <=> c2s[i].ch = 0)
        /\ \A id \in DOMAIN sChannels : \A i \in DOMAIN sChannels[id] :
             sChannels[id][i].ch = id /\ (sChannels[id][i].kind = "new" <=> id = 0)
        /\ \A i \in DOMAIN s2c : s2c[i].kind = "new" <=> s2c[i].ch = 0
    BY <1>0, <1>1 DEF Used
  <2>2. \A i \in DOMAIN c2s' : c2s'[i].ch \in 0 .. cMax /\ (c2s'[i].kind = "new" <=> c2s'[i].ch = 0)
    BY <1>4, <2>1
  <2>3. p.kind = "new" <=> p.ch = 0
    BY <1>4, <2>1
  <2>4. \A id \in DOMAIN sChannels : \A i \in DOMAIN sChannels'[id] :
          sChannels'[id][i].ch = id /\ (sChannels'[id][i].kind = "new" <=> id = 0)
    BY <1>7, <2>1, <2>3
  <2> QED  BY <1>1, <1>6, <2>1, <2>2, <2>4 DEF Used
<1>13. NotFreed'
  <2> SUFFICES ASSUME ~deleted' PROVE NotFreed'
    BY DEF NotFreed
  <2>1. /\ sFree = {} /\ \A i \in DOMAIN c2s : c2s[i].kind # "delete"
        /\ \A id \in DOMAIN sChannels : \A i \in DOMAIN sChannels[id] :
             sChannels[id][i].kind # "delete"
    BY <1>0, <1>1 DEF NotFreed
  <2>2. p.kind # "delete" /\ \A i \in DOMAIN c2s' : c2s'[i].kind # "delete"
    BY <1>4, <2>1
  <2>3. \A id \in DOMAIN sChannels : \A i \in DOMAIN sChannels'[id] :
          sChannels'[id][i].kind # "delete"
    BY <1>7, <2>1, <2>2
  <2> QED  BY <1>1, <1>6, <2>1, <2>2, <2>3 DEF NotFreed
<1>14. Unanswered'
  BY <1>0, <1>1 DEF Unanswered
<1> QED  BY <1>8, <1>10, <1>11, <1>12, <1>13, <1>14 DEF IInv

\* What a step of the server's handlers leaves alone.
LEMMA ServeRest ==
  ASSUME IInv, UNCHANGED <<pc, newId, answer, cChannels, cFree, cMax>>,
         UNCHANGED <<c2s, cRecv, sent, deleted>>, wrapped => wrapped'
  PROVE  /\ ClientIds' /\ Counted' /\ Unanswered' /\ Grantees' = Grantees
<1>1. /\ Making' = Making /\ Registered' = Registered /\ Makers' = Makers
      /\ Grantees' = Grantees
  BY DEF Making, Registered, Makers, Grantees
<1>2. ClientIds'
  BY <1>1, ClientIdsKept DEF IInv
<1>3. Counted'
  BY <1>1 DEF IInv, Counted
<1>4. Unanswered'
  BY DEF IInv, Unanswered
<1> QED  BY <1>1, <1>2, <1>3, <1>4

\* The queue of a channel without its first packet.
LEMMA Served ==
  ASSUME Types, NEW id \in DOMAIN sChannels, sChannels[id] # <<>>
  PROVE  LET rest == [sChannels EXCEPT ![id] = Tail(@)]
         IN  /\ Head(sChannels[id]) \in Packets
             /\ 1 \in DOMAIN sChannels[id] /\ Head(sChannels[id]) = sChannels[id][1]
             /\ DOMAIN rest = DOMAIN sChannels
             /\ \A n \in DOMAIN rest :
                  /\ rest[n] \in Seq(Packets)
                  /\ \A i \in DOMAIN rest[n] :
                       \E j \in DOMAIN sChannels[n] : rest[n][i] = sChannels[n][j]
<1> DEFINE rest == [sChannels EXCEPT ![id] = Tail(sChannels[id])]
           q == sChannels[id]
<1>1. \A i \in DOMAIN sChannels : sChannels[i] \in Seq(Packets)
  BY DEF Types
<1>2. /\ Tail(q) \in Seq(Packets) /\ Head(q) \in Packets
      /\ 1 \in DOMAIN q /\ Head(q) = q[1]
      /\ \A i \in DOMAIN Tail(q) : i + 1 \in DOMAIN q /\ Tail(q)[i] = q[i + 1]
  BY <1>1, TailAll
<1>3. /\ DOMAIN rest = DOMAIN sChannels /\ rest[id] = Tail(q)
      /\ \A n \in DOMAIN sChannels \ {id} : rest[n] = sChannels[n]
  OBVIOUS
<1> HIDE DEF rest
<1>4. ASSUME NEW n \in DOMAIN rest
      PROVE  /\ rest[n] \in Seq(Packets)
             /\ \A i \in DOMAIN rest[n] :
                  \E j \in DOMAIN sChannels[n] : rest[n][i] = sChannels[n][j]
  <2>1. CASE n = id
    BY <1>2, <1>3, <2>1
  <2>2. CASE n # id
    BY <1>1, <1>3, <2>2
  <2> QED  BY <2>1, <2>2
<1> QED  BY <1>2, <1>3, <1>4 DEF rest

\* The packets after a step that only takes some from the server's queues.
LEMMA ServePackets ==
  ASSUME Used, NotFreed, UNCHANGED <<pc, newId, cMax, c2s, deleted>>, wrapped => wrapped',
         \A n \in DOMAIN sChannels' : \A i \in DOMAIN sChannels'[n] :
           n \in DOMAIN sChannels /\ \E j \in DOMAIN sChannels[n] : sChannels'[n][i] = sChannels[n][j],
         ~wrapped' => \A i \in DOMAIN s2c' : s2c'[i].kind = "new" <=> s2c'[i].ch = 0,
         ~deleted => sFree' = {}
  PROVE  Used' /\ NotFreed'
<1>1. ~wrapped' => \A n \in DOMAIN sChannels' : \A i \in DOMAIN sChannels'[n] :
        sChannels'[n][i].ch = n /\ (sChannels'[n][i].kind = "new" <=> n = 0)
  BY DEF Used
<1>2. Used'
  BY <1>1 DEF Used
<1>3. ~deleted => \A n \in DOMAIN sChannels' : \A i \in DOMAIN sChannels'[n] :
        sChannels'[n][i].kind # "delete"
  BY DEF NotFreed
<1>4. NotFreed'
  BY <1>3 DEF NotFreed
<1> QED  BY <1>2, <1>4

\* The channel made has an id that no other has, larger than those in the
\* answers under way unless a channel was deleted.
LEMMA ServeNewKeeps ==
  ASSUME IInv, UNCHANGED <<pc, newId, answer, cChannels, cFree, cMax>>,
         UNCHANGED <<c2s, cRecv, sent, deleted>>,
         NEW id \in DOMAIN sChannels, sChannels[id] # <<>>,
         ServeNew(id, Head(sChannels[id]))
  PROVE  IInv'
<1>0. /\ Types /\ ServerIds /\ Used /\ NotFreed /\ Counted /\ Answers
  BY DEF IInv
<1>u. /\ UNCHANGED <<pc, newId, answer, cChannels, cFree, cMax>>
      /\ UNCHANGED <<c2s, cRecv, sent, deleted>>
  OBVIOUS
<1> DEFINE p == Head(sChannels[id])
           rest == [sChannels EXCEPT ![id] = Tail(@)]
<1>1. /\ p \in Packets /\ 1 \in DOMAIN sChannels[id] /\ p = sChannels[id][1]
      /\ DOMAIN rest = DOMAIN sChannels
      /\ \A n \in DOMAIN rest :
           /\ rest[n] \in Seq(Packets)
           /\ \A i \in DOMAIN rest[n] :
                \E j \in DOMAIN sChannels[n] : rest[n][i] = sChannels[n][j]
  BY <1>0, Served
<1>2. PICK new \in Ids :
        /\ MakeNewChannelId(sFree, sMax, new, sFree', sMax')
        /\ sChannels' = With(rest, new, IF new \in DOMAIN rest THEN rest[new] ELSE <<>>)
        /\ s2c' = Append(s2c, Packet(p.ch, "new", p.from, new))
  BY DEF ServeNew
<1>3. p.kind = "new" /\ wrapped' = (wrapped \/ Exhausted(sFree, sMax))
  BY DEF ServeNew
<1> HIDE DEF p, rest
<1>4. wrapped' \in BOOLEAN /\ (wrapped => wrapped') /\ (~wrapped' => ~Exhausted(sFree, sMax))
  BY <1>3, Zenon
<1>5. /\ DOMAIN sChannels' = DOMAIN sChannels \cup {new}
      /\ \A n \in DOMAIN sChannels' :
           /\ sChannels'[n] \in Seq(Packets)
           /\ \A i \in DOMAIN sChannels'[n] : n \in DOMAIN sChannels /\
                \E j \in DOMAIN sChannels[n] : sChannels'[n][i] = sChannels[n][j]
  <2> DEFINE c == IF new \in DOMAIN rest THEN rest[new] ELSE <<>>
  <2>0. sChannels' = With(rest, new, c)
    BY <1>2
  <2>1. /\ c \in Seq(Packets)
        /\ \A i \in DOMAIN c : new \in DOMAIN sChannels /\
             \E j \in DOMAIN sChannels[new] : c[i] = sChannels[new][j]
    <3>1. CASE new \in DOMAIN rest
      BY <1>1, <3>1
    <3>2. CASE new \notin DOMAIN rest
      BY <3>2
    <3> QED  BY <3>1, <3>2
  <2> HIDE DEF c
  <2>2. /\ DOMAIN With(rest, new, c) = DOMAIN rest \cup {new}
        /\ With(rest, new, c)[new] = c
        /\ \A n \in DOMAIN rest \ {new} : With(rest, new, c)[n] = rest[n]
    BY DEF With
  <2>3. /\ DOMAIN sChannels' = DOMAIN rest \cup {new} /\ sChannels'[new] = c
        /\ \A n \in DOMAIN rest \ {new} : sChannels'[n] = rest[n]
    BY <2>0, <2>2, Zenon
  <2> QED  BY <1>1, <2>1, <2>3
<1> DEFINE r == Packet(p.ch, "new", p.from, new)
<1>6. s2c \in Seq(Packets) /\ sMax \in Nat /\ MaxUint32 \in Nat /\ sFree \subseteq Ids
      /\ sMax \in Ids /\ DOMAIN sChannels \subseteq Ids /\ Len(cRecv[Sys]) \in Nat
      /\ \A i \in DOMAIN s2c : s2c[i].n \in Nat
  BY <1>0, Numbers DEF Types
<1>7. r \in Packets /\ r.ch = p.ch /\ r.kind = "new" /\ r.n = new /\ new \in Nat
  BY <1>1, <1>6 DEF Packet, Packets, Ids
<1>8. s2c' = Append(s2c, r)
  BY <1>2
<1> HIDE DEF r
<1>9. /\ s2c' \in Seq(Packets)
      /\ \A i \in DOMAIN s2c' :
           \/ i \in DOMAIN s2c /\ s2c'[i] = s2c[i]
           \/ i = Len(s2c) + 1 /\ s2c'[i] = r
  BY <1>6, <1>7, <1>8, AppendAll
<1>10. sFree' \subseteq Ids /\ sMax' \in Ids
  <2>1. CASE sFree # {}
    <3>1. sFree' = sFree \ {new} /\ sMax' = sMax
      BY <1>2, <2>1 DEF MakeNewChannelId
    <3> QED  BY <1>6, <3>1
  <2>2. CASE sFree = {} /\ sMax < MaxUint32
    BY <1>2, <1>6, <2>2 DEF MakeNewChannelId, Ids
  <2>3. CASE sFree = {} /\ ~(sMax < MaxUint32)
    BY <1>2, <1>6, <2>3 DEF MakeNewChannelId
  <2> QED  BY <2>1, <2>2, <2>3
<1>11. ~wrapped' => \/ sFree # {} /\ new \in sFree /\ sFree' = sFree \ {new} /\ sMax' = sMax
                    \/ sFree = {} /\ new = sMax + 1 /\ sFree' = sFree /\ sMax' = sMax + 1
  <2>1. CASE sFree # {}
    BY <1>2, <2>1 DEF MakeNewChannelId
  <2>2. CASE sFree = {} /\ sMax < MaxUint32
    BY <1>2, <2>2 DEF MakeNewChannelId
  <2>3. CASE sFree = {} /\ ~(sMax < MaxUint32)
    <3>1. Exhausted(sFree, sMax)
      BY <1>6, <2>3 DEF Exhausted
    <3> QED  BY <1>4, <3>1
  <2> QED  BY <2>1, <2>2, <2>3
<1>12. Types'
  <2>1. /\ DOMAIN sChannels' \subseteq Ids
        /\ \A i \in DOMAIN sChannels' : sChannels'[i] \in Seq(Packets)
    BY <1>5, <1>6
  <2> QED  BY <1>0, <1>u, <1>4, <1>9, <1>10, <2>1 DEF Types
<1>13. ClientIds' /\ Counted' /\ Unanswered' /\ Grantees' = Grantees
  BY <1>4, ServeRest
<1>14. ServerIds'
  <2> SUFFICES ASSUME ~wrapped' PROVE /\ sFree' \cup DOMAIN sChannels' = 0 .. sMax'
                                     /\ sFree' \cap DOMAIN sChannels' = {}
    BY DEF ServerIds
  <2>1. sFree \cup DOMAIN sChannels = 0 .. sMax /\ sFree \cap DOMAIN sChannels = {}
    BY <1>0, <1>4 DEF ServerIds
  <2>2. CASE new \in sFree /\ sFree' = sFree \ {new} /\ sMax' = sMax
    BY <1>5, <2>1, <2>2
  <2>3. CASE sFree = {} /\ new = sMax + 1 /\ sFree' = sFree /\ sMax' = sMax + 1
    <3>1. 0 .. sMax' = (0 .. sMax) \cup {new}
      BY <1>6, <2>3
    <3> QED  BY <1>5, <2>1, <2>3, <3>1
  <2> QED  BY <1>11, <2>2, <2>3
<1>15. Used' /\ NotFreed'
  <2>1. ~wrapped' => \A i \in DOMAIN s2c' : s2c'[i].kind = "new" <=> s2c'[i].ch = 0
    <3>1. ~wrapped' => p.ch = 0
      BY <1>0, <1>1, <1>3, <1>4 DEF Used
    <3> QED  BY <1>0, <1>4, <1>7, <1>9, <3>1 DEF Used
  <2>2. ~deleted => sFree' = {}
    <3>1. CASE sFree # {}
      BY <1>0, <3>1 DEF NotFreed
    <3>2. CASE sFree = {}
      BY <1>2, <3>2 DEF MakeNewChannelId
    <3> QED  BY <3>1, <3>2
  <2> QED  BY <1>0, <1>u, <1>4, <1>5, <2>1, <2>2, ServePackets
<1>16. Answers'
  <2> DEFINE G == Cardinality(Grantees)
             L == Len(cRecv[Sys])
  <2> SUFFICES ASSUME ~wrapped', ~deleted
               PROVE  /\ G + L <= sMax'
                      /\ \A i \in DOMAIN s2c' : s2c'[i].kind = "new" =>
                           G + L < s2c'[i].n /\ s2c'[i].n <= sMax'
                      /\ \A i, j \in DOMAIN s2c' :
                           (s2c'[i].kind = "new" /\ s2c'[j].kind = "new" /\ i < j) =>
                             s2c'[i].n < s2c'[j].n
    BY <1>u, <1>13 DEF Answers
  <2>1. /\ G + L <= sMax
        /\ \A i \in DOMAIN s2c : s2c[i].kind = "new" => G + L < s2c[i].n /\ s2c[i].n <= sMax
        /\ \A i, j \in DOMAIN s2c :
             (s2c[i].kind = "new" /\ s2c[j].kind = "new" /\ i < j) => s2c[i].n < s2c[j].n
    BY <1>0, <1>4 DEF Answers
  <2>2. G \in Nat /\ L \in Nat
    BY <1>0, <1>6, FS_CardinalityType DEF Counted
  <2>3. new = sMax + 1 /\ sMax' = sMax + 1
    BY <1>0, <1>11 DEF NotFreed
  <2> HIDE DEF G, L
  <2>4. G + L <= sMax'
    BY <1>6, <2>1, <2>2, <2>3
  <2>5. ASSUME NEW i \in DOMAIN s2c', s2c'[i].kind = "new"
        PROVE  G + L < s2c'[i].n /\ s2c'[i].n <= sMax'
    <3>1. CASE i \in DOMAIN s2c /\ s2c'[i] = s2c[i]
      <4>1. s2c'[i].n \in Nat /\ G + L < s2c'[i].n /\ s2c'[i].n <= sMax
        BY <1>6, <2>1, <2>5, <3>1
      <4> QED  BY <1>6, <2>2, <2>3, <4>1
    <3>2. CASE s2c'[i] = r
      <4>1. s2c'[i].n = sMax + 1
        BY <1>7, <2>3, <3>2
      <4> QED  BY <1>6, <2>1, <2>2, <2>3, <4>1
    <3> QED  BY <1>9, <3>1, <3>2
  <2>6. ASSUME NEW i \in DOMAIN s2c', NEW j \in DOMAIN s2c', s2c'[i].kind = "new",
               s2c'[j].kind = "new", i < j
        PROVE  s2c'[i].n < s2c'[j].n
    <3>0. /\ i \in Nat /\ j \in Nat /\ Len(s2c) \in Nat /\ \A m \in DOMAIN s2c : m <= Len(s2c)
          /\ i <= Len(s2c) + 1 /\ j <= Len(s2c) + 1
      BY <1>6, <1>9
    <3>1. i \in DOMAIN s2c /\ s2c'[i] = s2c[i]
      BY <1>9, <2>6, <3>0
    <3>2. CASE j \in DOMAIN s2c /\ s2c'[j] = s2c[j]
      BY <2>1, <2>6, <3>1, <3>2
    <3>3. CASE s2c'[j] = r
      <4>1. s2c[i].n <= sMax /\ s2c[i].n \in Nat
        BY <1>6, <2>1, <2>6, <3>1
      <4>2. s2c'[j].n = sMax + 1
        BY <1>7, <2>3, <3>3
      <4> QED  BY <1>6, <3>1, <4>1, <4>2
    <3> QED  BY <1>9, <3>2, <3>3
  <2> QED  BY <2>4, <2>5, <2>6
<1> QED  BY <1>12, <1>13, <1>14, <1>15, <1>16 DEF IInv

\* Any other request: the answer takes no id and goes to no other channel.
LEMMA ServeRequestKeeps ==
  ASSUME IInv, UNCHANGED <<pc, newId, answer, cChannels, cFree, cMax>>,
         UNCHANGED <<c2s, cRecv, sent, deleted>>,
         NEW id \in DOMAIN sChannels, sChannels[id] # <<>>,
         ServeRequest(id, Head(sChannels[id]))
  PROVE  IInv'
<1>0. /\ Types /\ ServerIds /\ Used /\ NotFreed /\ Counted /\ Answers
  BY DEF IInv
<1> DEFINE p == Head(sChannels[id])
           r == Packet(p.ch, "req", p.from, p.n)
<1>u. /\ UNCHANGED <<pc, newId, answer, cChannels, cFree, cMax>>
      /\ UNCHANGED <<c2s, cRecv, sent, deleted>> /\ UNCHANGED <<sFree, sMax, wrapped>>
  BY DEF ServeRequest
<1>1. /\ p \in Packets /\ 1 \in DOMAIN sChannels[id] /\ p = sChannels[id][1]
      /\ DOMAIN sChannels' = DOMAIN sChannels
      /\ \A n \in DOMAIN sChannels' :
           /\ sChannels'[n] \in Seq(Packets)
           /\ \A i \in DOMAIN sChannels'[n] :
                \E j \in DOMAIN sChannels[n] : sChannels'[n][i] = sChannels[n][j]
  BY <1>0, Served DEF ServeRequest
<1>2. p.kind = "req" /\ s2c' = Append(s2c, r)
  BY DEF ServeRequest
<1> HIDE DEF p
<1>3. r \in Packets /\ r.ch = p.ch /\ r.kind = "req"
  BY <1>1 DEF Packet, Packets
<1>4. s2c \in Seq(Packets) /\ DOMAIN sChannels \subseteq Ids
  BY <1>0 DEF Types
<1> HIDE DEF r
<1>5. /\ s2c' \in Seq(Packets)
      /\ \A i \in DOMAIN s2c' : (i \in DOMAIN s2c /\ s2c'[i] = s2c[i]) \/ s2c'[i] = r
  BY <1>2, <1>3, <1>4, AppendAll
<1>6. Types'
  <2>1. /\ DOMAIN sChannels' \subseteq Ids
        /\ \A i \in DOMAIN sChannels' : sChannels'[i] \in Seq(Packets)
    BY <1>1, <1>4
  <2> QED  BY <1>0, <1>u, <1>5, <2>1 DEF Types
<1>7. ClientIds' /\ Counted' /\ Unanswered' /\ Grantees' = Grantees
  BY <1>u, ServeRest
<1>8. ServerIds'
  BY <1>0, <1>u, <1>1, ServerIdsKept
<1>9. Used' /\ NotFreed'
  <2>1. ~wrapped => p.ch # 0
    BY <1>0, <1>1, <1>2 DEF Used
  <2>2. ~wrapped' => \A i \in DOMAIN s2c' : s2c'[i].kind = "new" <=> s2c'[i].ch = 0
    BY <1>0, <1>u, <1>3, <1>5, <2>1 DEF Used
  <2>3. ~deleted => sFree' = {}
    BY <1>0, <1>u DEF NotFreed
  <2> QED  BY <1>0, <1>u, <1>1, <2>2, <2>3, ServePackets
<1>10. Answers'
  <2> SUFFICES ASSUME ~wrapped, ~deleted
               PROVE  /\ Cardinality(Grantees) + Len(cRecv[Sys]) <= sMax
                      /\ \A i \in DOMAIN s2c' : s2c'[i].kind = "new" =>
                           /\ Cardinality(Grantees) + Len(cRecv[Sys]) < s2c'[i].n
                           /\ s2c'[i].n <= sMax
                      /\ \A i, j \in DOMAIN s2c' :
                           (s2c'[i].kind = "new" /\ s2c'[j].kind = "new" /\ i < j) =>
                             s2c'[i].n < s2c'[j].n
    BY <1>u, <1>7 DEF Answers
  <2>1. \A i \in DOMAIN s2c' : s2c'[i].kind = "new" => i \in DOMAIN s2c /\ s2c'[i] = s2c[i]
    BY <1>3, <1>5
  <2> QED  BY <1>0, <2>1 DEF Answers
<1> QED  BY <1>6, <1>7, <1>8, <1>9, <1>10 DEF IInv

\* A deleted channel gives its id back; from then on the ids of the two
\* sides need not agree.
LEMMA ServeDeleteKeeps ==
  ASSUME IInv, UNCHANGED <<pc, newId, answer, cChannels, cFree, cMax>>,
         UNCHANGED <<c2s, cRecv, sent, deleted>>,
         NEW id \in DOMAIN sChannels, sChannels[id] # <<>>,
         ServeDelete(id, Head(sChannels[id]))
  PROVE  IInv'
<1>0. /\ Types /\ ServerIds /\ Used /\ NotFreed /\ Counted /\ Answers
  BY DEF IInv
<1>u. /\ UNCHANGED <<pc, newId, answer, cChannels, cFree, cMax>>
      /\ UNCHANGED <<c2s, cRecv, sent, deleted>> /\ UNCHANGED <<sMax, s2c, wrapped>>
  BY DEF ServeDelete
<1>1. 1 \in DOMAIN sChannels[id] /\ Head(sChannels[id]) = sChannels[id][1]
  BY <1>0, Served
<1>2. deleted
  BY <1>0, <1>1 DEF ServeDelete, NotFreed
<1>3. /\ DOMAIN sChannels' = DOMAIN sChannels \ {id} /\ sFree' = sFree \cup {id}
      /\ \A n \in DOMAIN sChannels \ {id} : sChannels'[n] = sChannels[n]
  <2>1. sChannels' = Without(sChannels, id) /\ sFree' = sFree \cup {id}
    BY DEF ServeDelete
  <2>2. /\ DOMAIN Without(sChannels, id) = DOMAIN sChannels \ {id}
        /\ \A n \in DOMAIN sChannels \ {id} : Without(sChannels, id)[n] = sChannels[n]
    BY DEF Without
  <2> QED  BY <2>1, <2>2, Zenon
<1>4. /\ DOMAIN sChannels \subseteq Ids /\ sFree \subseteq Ids
      /\ \A i \in DOMAIN sChannels : sChannels[i] \in Seq(Packets)
  BY <1>0 DEF Types
<1>5. Types'
  <2>1. /\ DOMAIN sChannels' \subseteq Ids /\ sFree' \subseteq Ids
        /\ \A i \in DOMAIN sChannels' : sChannels'[i] \in Seq(Packets)
    BY <1>3, <1>4
  <2> QED  BY <1>0, <1>u, <2>1 DEF Types
<1>6. ClientIds' /\ Counted' /\ Unanswered'
  BY <1>u, ServeRest
<1>7. ServerIds'
  <2>1. ~wrapped => /\ sFree' \cup DOMAIN sChannels' = 0 .. sMax
                    /\ sFree' \cap DOMAIN sChannels' = {}
    BY <1>0, <1>3 DEF ServerIds
  <2> QED  BY <1>u, <2>1 DEF ServerIds
<1>8. Used' /\ NotFreed'
  <2>1. ~wrapped' => \A i \in DOMAIN s2c' : s2c'[i].kind = "new" <=> s2c'[i].ch = 0
    BY <1>0, <1>u DEF Used
  <2>2. \A n \in DOMAIN sChannels' : \A i \in DOMAIN sChannels'[n] :
          n \in DOMAIN sChannels /\ \E j \in DOMAIN sChannels[n] : sChannels'[n][i] = sChannels[n][j]
    BY <1>3
  <2> QED  BY <1>0, <1>u, <1>2, <2>1, <2>2, ServePackets
<1>9. Answers'
  BY <1>u, <1>2 DEF Answers
<1> QED  BY <1>5, <1>6, <1>7, <1>8, <1>9 DEF IInv

\* handleServerLoop, whatever the request.
LEMMA ServeKeeps ==
  ASSUME IInv, Serve
  PROVE  IInv'
<1>1. /\ UNCHANGED <<pc, newId, answer, cChannels, cFree, cMax>>
      /\ UNCHANGED <<c2s, cRecv, sent, deleted>>
  BY DEF Serve, openVars, cIdVars, queueVars
<1>2. PICK id \in DOMAIN sChannels :
        /\ sChannels[id] # <<>>
        /\ \/ ServeNew(id, Head(sChannels[id])) \/ ServeDelete(id, Head(sChannels[id]))
           \/ ServeRequest(id, Head(sChannels[id]))
  BY DEF Serve
<1>3. CASE ServeNew(id, Head(sChannels[id]))
  BY <1>1, <1>2, <1>3, ServeNewKeeps
<1>4. CASE ServeDelete(id, Head(sChannels[id]))
  BY <1>1, <1>2, <1>4, ServeDeleteKeeps
<1>5. CASE ServeRequest(id, Head(sChannels[id]))
  BY <1>1, <1>2, <1>5, ServeRequestKeeps
<1> QED  BY <1>2, <1>3, <1>4, <1>5
-----------------------------------------------------------------------------
(* The theorems.                                                           *)

\* newConnection makes channel 0 on both sides and nothing else.
LEMMA InitHolds == Init => IInv
<1> SUFFICES ASSUME Init PROVE IInv
  OBVIOUS
<1>1. Types
  <2>1. 0 \in Ids /\ 0 \in Nat
    BY ChannelsAssumption DEF Ids
  <2>2. <<>> \in Seq(Packets) /\ <<>> \in Seq(Nat)
    OBVIOUS
  <2> QED  BY <2>1, <2>2 DEF Init, Types, Steps
<1>2. Making = {} /\ Registered = {} /\ Makers = {} /\ Grantees = {}
  BY DEF Init, Making, Registered, Makers, Grantees
<1>3. 0 .. 0 = {0}
  OBVIOUS
<1>4. ClientIds
  BY <1>2, <1>3 DEF Init, ClientIds
<1>5. ServerIds
  BY <1>3 DEF Init, ServerIds
<1>6. Used
  BY DEF Init, Used
<1>7. NotFreed
  BY DEF Init, NotFreed
<1>8. IsFiniteSet(Grantees) /\ Cardinality(Makers) = 0 /\ Cardinality(Grantees) = 0
  BY <1>2, FS_EmptySet
<1>9. Counted
  BY <1>8 DEF Init, Counted
<1>10. Answers
  <2>1. s2c = <<>> /\ cRecv[Sys] = <<>> /\ sMax = 0
    BY DEF Init
  <2>2. Len(cRecv[Sys]) = 0 /\ DOMAIN s2c = {}
    BY <2>1
  <2> QED  BY <1>8, <2>1, <2>2 DEF Answers
<1>11. Unanswered
  BY DEF Init, Unanswered
<1> QED  BY <1>1, <1>4, <1>5, <1>6, <1>7, <1>9, <1>10, <1>11 DEF IInv

\* Every step keeps the invariant.
LEMMA NextKeeps == IInv /\ [Next]_vars => IInv'
<1> SUFFICES ASSUME IInv, [Next]_vars PROVE IInv'
  OBVIOUS
<1>1. CASE UNCHANGED vars
  <2>1. /\ UNCHANGED <<pc, newId, answer, cChannels, cFree, cMax, sChannels, sFree, sMax>>
        /\ UNCHANGED <<c2s, s2c, cRecv, sent, wrapped, deleted>>
    BY <1>1 DEF vars, openVars, cIdVars, sIdVars, queueVars, historyVars
  <2>2. Types'
    BY <2>1 DEF IInv, Types
  <2>3. /\ Making' = Making /\ Registered' = Registered /\ Makers' = Makers
        /\ Grantees' = Grantees
    BY <2>1 DEF Making, Registered, Makers, Grantees
  <2>4. UNCHANGED <<newId, cIdVars, sIdVars, s2c>> /\ cRecv'[Sys] = cRecv[Sys]
    BY <2>1 DEF cIdVars, sIdVars
  <2>5. ClientIds' /\ ServerIds' /\ Counted' /\ Answers'
    BY <2>1, <2>3, <2>4, IdsKept
  <2>6. Used' /\ NotFreed'
    BY <2>1, PacketsKept DEF IInv
  <2>7. Unanswered'
    BY <2>1 DEF IInv, Unanswered
  <2> QED  BY <2>2, <2>5, <2>6, <2>7 DEF IInv
<1>2. ASSUME NEW k \in Callers,
             AskPush(k) \/ AskTimeout(k) \/ AskReceive(k) \/ CloseSetErr(k)
      PROVE  IInv'
  BY <1>2, AskKeeps
<1>3. ASSUME NEW k \in Callers, AskSend(k) PROVE IInv'
  BY <1>3, AskSendKeeps
<1>4. ASSUME NEW k \in Callers, MakeId(k) PROVE IInv'
  BY <1>4, MakeIdKeeps
<1>5. ASSUME NEW k \in Callers, Register(k) PROVE IInv'
  BY <1>5, RegisterKeeps
<1>6. ASSUME NEW k \in Callers, NEW kind \in {"req", "delete"}, Send(k, kind) PROVE IInv'
  BY <1>6, SendKeeps
<1>7. ASSUME NEW k \in Callers, CloseRemove(k) PROVE IInv'
  BY <1>7, CloseRemoveKeeps
<1>8. ASSUME NEW k \in Callers, Handle(k) PROVE IInv'
  BY <1>8, HandleKeeps
<1>9. CASE ClientRead
  BY <1>9, ClientReadKeeps
<1>10. CASE SysHandle
  BY <1>10, SysHandleKeeps
<1>11. CASE ServerRead
  BY <1>11, ServerReadKeeps
<1>12. CASE Serve
  BY <1>12, ServeKeeps
<1> QED
  BY <1>1, <1>2, <1>3, <1>4, <1>5, <1>6, <1>7, <1>8, <1>9, <1>10, <1>11, <1>12
  DEF Next, Open

\* The invariant holds in every reachable state of a connection, however
\* many channels are opened and closed on it.
THEOREM Invariance == Spec => []IInv
BY InitHolds, NextKeeps, PTL DEF Spec

\* No two channels of a connection share an id and none is lost, while ids
\* last (IdsPartitioned): makeNewChannelId, newChannel and removeChannel
\* agree although newChannel takes its lock twice.
THEOREM IdsArePartitioned == Spec => []IdsPartitioned
<1>1. IInv => IdsPartitioned
  BY DEF IInv, ClientIds, ServerIds, IdsPartitioned
<1> QED  BY <1>1, Invariance, PTL

\* The bounds give the ids: DOMAIN sChannels is 0 .. sMax, and cMax <= sMax.
LEMMA ServerKnows == IInv => ServerKnowsIds
<1> SUFFICES ASSUME IInv, ~wrapped, ~deleted
             PROVE  /\ \A k \in Callers : pc[k] \in {"made", "open", "closing"} =>
                         newId[k] \in DOMAIN sChannels
                    /\ \A i \in DOMAIN c2s : c2s[i].ch \in DOMAIN sChannels
  BY DEF ServerKnowsIds
<1>0. Types /\ ServerIds /\ Used /\ NotFreed /\ Counted /\ Answers
  BY DEF IInv
<1>1. DOMAIN sChannels = 0 .. sMax
  BY <1>0 DEF ServerIds, NotFreed
<1>2. Makers \subseteq Grantees
  BY DEF Makers, Grantees
<1>3. /\ Cardinality(Makers) <= Cardinality(Grantees)
      /\ Cardinality(Makers) \in Nat /\ Cardinality(Grantees) \in Nat
  BY <1>0, <1>2, FS_Subset, FS_CardinalityType DEF Counted
<1>4. Len(cRecv[Sys]) \in Nat /\ sMax \in Nat /\ cMax \in Nat
  BY <1>0, Numbers
<1>5. cMax <= sMax
  <2>1. cMax <= Cardinality(Makers) /\ Cardinality(Grantees) + Len(cRecv[Sys]) <= sMax
    BY <1>0 DEF Counted, Answers
  <2> QED  BY <1>3, <1>4, <2>1
<1>6. 0 .. cMax \subseteq DOMAIN sChannels /\ 1 .. cMax \subseteq DOMAIN sChannels
  BY <1>1, <1>4, <1>5
<1> QED  BY <1>0, <1>6 DEF Used

\* serverReadLoop never meets an id that it does not know (ServerKnowsIds),
\* although each side makes its own: the client makes no more ids than
\* callers were granted a channel, and the server has made one for each.
THEOREM ServerKnowsEveryId == Spec => []ServerKnowsIds
BY ServerKnows, Invariance, PTL
-----------------------------------------------------------------------------
(* Tidy use.  While nobody closes a channel with requests outstanding, the *)
(* packets of a channel are its uncompleted requests, in their order.      *)

TidyUse == ~wrapped /\ ~deleted /\ ~untidy

\* The requests of k that were handled, and those that have come back.
Handled(k) == sent[k] - Len(uncompleted[k])
Back(k) == Handled(k) + Len(cRecv[k])

\* uncompletedRequestQueue holds the last requests sent.
Queue ==
  /\ uncompleted \in [Callers -> Seq(Nat)]
  /\ \A k \in Callers : /\ Handled(k) >= 0
                        /\ \A i \in DOMAIN uncompleted[k] : uncompleted[k][i] = Handled(k) + i

\* Only a channel that is open has requests in it.
Outstanding == \A k \in Callers : uncompleted[k] # <<>> => pc[k] = "open"

\* Of a channel, the oldest responses are in its receivedQueue ...
Received ==
  \A k \in Callers :
    /\ Back(k) <= sent[k]
    /\ \A i \in DOMAIN cRecv[k] : cRecv[k][i].from = k /\ cRecv[k][i].n = Handled(k) + i

\* ... and a packet elsewhere is a request sent later, or its response.
Fresh(p) ==
  p.kind # "new" => /\ p.kind = "req" /\ p.ch = newId[p.from]
                    /\ Back(p.from) < p.n /\ p.n <= sent[p.from]
AllFresh ==
  /\ \A i \in DOMAIN c2s : Fresh(c2s[i])
  /\ \A i \in DOMAIN s2c : Fresh(s2c[i])
  /\ \A id \in DOMAIN sChannels : \A i \in DOMAIN sChannels[id] : Fresh(sChannels[id][i])

\* Packets of one channel do not overtake each other.
Earlier(p, r) == (p.kind # "new" /\ r.kind # "new" /\ p.from = r.from) => p.n < r.n
Ordered(q) == \A i, j \in DOMAIN q : i < j => Earlier(q[i], q[j])
Before(q, r) == \A i \in DOMAIN q, j \in DOMAIN r : Earlier(q[i], r[j])
InOrder ==
  /\ Ordered(s2c) /\ Ordered(c2s) /\ Before(s2c, c2s)
  /\ \A id \in DOMAIN sChannels :
       Ordered(sChannels[id]) /\ Before(s2c, sChannels[id]) /\ Before(sChannels[id], c2s)

\* None of them is missing.
In(q, k, m) == \E i \in DOMAIN q : q[i].kind # "new" /\ q[i].from = k /\ q[i].n = m
OnTheWay(k, m) ==
  In(s2c, k, m) \/ In(c2s, k, m) \/ \E id \in DOMAIN sChannels : In(sChannels[id], k, m)
Covered == \A k \in Callers : \A m \in Nat : Back(k) < m /\ m <= sent[k] => OnTheWay(k, m)

TidyInv ==
  open /\ ~mixed /\ Outstanding /\ Received /\ AllFresh /\ InOrder /\ Covered

\* The inductive invariant.
TInv == IInv /\ Queue /\ (TidyUse => TidyInv)
-----------------------------------------------------------------------------
(* The order of packets.                                                   *)

\* A queue without its first packet.
LEMMA TailOrder ==
  ASSUME NEW S, NEW q \in Seq(S), q # <<>>
  PROVE  /\ Ordered(q) => Ordered(Tail(q)) /\ \A j \in DOMAIN Tail(q) : Earlier(q[1], Tail(q)[j])
         /\ \A r : Before(q, r) => Before(Tail(q), r)
         /\ \A r : Before(r, q) => Before(r, Tail(q))
         /\ \A k, m : In(q, k, m) => \/ In(Tail(q), k, m)
                                     \/ q[1].kind # "new" /\ q[1].from = k /\ q[1].n = m
<1>1. /\ \A i \in DOMAIN Tail(q) : i + 1 \in DOMAIN q /\ Tail(q)[i] = q[i + 1] /\ i \in Nat /\ i >= 1
      /\ 1 \in DOMAIN q
      /\ \A i \in DOMAIN q : i = 1 \/ (i - 1 \in DOMAIN Tail(q) /\ Tail(q)[i - 1] = q[i])
  OBVIOUS
<1> DEFINE t == Tail(q)
<1>2. /\ \A i \in DOMAIN t : i + 1 \in DOMAIN q /\ t[i] = q[i + 1] /\ i \in Nat /\ i >= 1
      /\ 1 \in DOMAIN q
      /\ \A i \in DOMAIN q : i = 1 \/ (i - 1 \in DOMAIN t /\ t[i - 1] = q[i])
  BY <1>1
<1> HIDE DEF t
<1>3. ASSUME Ordered(q) PROVE Ordered(t) /\ \A j \in DOMAIN t : Earlier(q[1], t[j])
  BY <1>2, <1>3 DEF Ordered
<1>4. \A r : Before(q, r) => Before(t, r)
  BY <1>2 DEF Before
<1>5. \A r : Before(r, q) => Before(r, t)
  BY <1>2 DEF Before
<1>6. \A k, m : In(q, k, m) => \/ In(t, k, m)
                               \/ q[1].kind # "new" /\ q[1].from = k /\ q[1].n = m
  BY <1>2 DEF In
<1> QED  BY <1>3, <1>4, <1>5, <1>6 DEF t

\* A queue with one more.
LEMMA AppendOrder ==
  ASSUME NEW S, NEW q \in Seq(S), NEW e \in S
  PROVE  /\ Ordered(q) /\ (\A i \in DOMAIN q : Earlier(q[i], e)) => Ordered(Append(q, e))
         /\ \A r : Before(q, r) /\ (\A j \in DOMAIN r : Earlier(e, r[j])) => Before(Append(q, e), r)
         /\ \A r : Before(r, q) /\ (\A j \in DOMAIN r : Earlier(r[j], e)) => Before(r, Append(q, e))
         /\ \A k, m : In(q, k, m) => In(Append(q, e), k, m)
         /\ \A k, m : e.kind # "new" /\ e.from = k /\ e.n = m => In(Append(q, e), k, m)
<1> DEFINE t == Append(q, e)
<1>1. /\ \A i \in DOMAIN t : \/ i \in DOMAIN q /\ t[i] = q[i]
                             \/ i = Len(q) + 1 /\ t[i] = e
      /\ \A i \in DOMAIN q : i \in DOMAIN t /\ t[i] = q[i] /\ i \in Nat /\ i <= Len(q)
      /\ Len(q) + 1 \in DOMAIN t /\ t[Len(q) + 1] = e /\ Len(q) \in Nat
  OBVIOUS
<1> HIDE DEF t
<1>2. ASSUME Ordered(q), \A i \in DOMAIN q : Earlier(q[i], e) PROVE Ordered(t)
  <2> SUFFICES ASSUME NEW i \in DOMAIN t, NEW j \in DOMAIN t, i < j
               PROVE  Earlier(t[i], t[j])
    BY DEF Ordered
  <2>1. i \in DOMAIN q /\ t[i] = q[i]
    BY <1>1
  <2>2. CASE j \in DOMAIN q /\ t[j] = q[j]
    BY <1>2, <2>1, <2>2 DEF Ordered
  <2>3. CASE t[j] = e
    BY <1>2, <2>1, <2>3
  <2> QED  BY <1>1, <2>2, <2>3
<1>3. \A r : Before(q, r) /\ (\A j \in DOMAIN r : Earlier(e, r[j])) => Before(t, r)
  BY <1>1 DEF Before
<1>4. \A r : Before(r, q) /\ (\A j \in DOMAIN r : Earlier(r[j], e)) => Before(r, t)
  BY <1>1 DEF Before
<1>5. \A k, m : In(q, k, m) => In(t, k, m)
  BY <1>1 DEF In
<1>6. \A k, m : e.kind # "new" /\ e.from = k /\ e.n = m => In(t, k, m)
  BY <1>1 DEF In
<1> QED  BY <1>2, <1>3, <1>4, <1>5, <1>6 DEF t

\* The order in the next state.
LEMMA OrderNext ==
  ASSUME Ordered(s2c'), Ordered(c2s'), Before(s2c', c2s'),
         \A id \in DOMAIN sChannels' : /\ Ordered(sChannels'[id]) /\ Before(s2c', sChannels'[id])
                                       /\ Before(sChannels'[id], c2s')
  PROVE  InOrder'
BY DEF InOrder, Ordered, Before, Earlier

\* A packet that is there belongs to a request outstanding.
LEMMA FreshOwner ==
  ASSUME Types, Queue, NEW p \in Packets, p.kind # "new", Fresh(p)
  PROVE  p.from \in Callers /\ p.n \in Nat /\ uncompleted[p.from] # <<>>
<1> DEFINE k == p.from
<1>1. k \in Callers /\ p.n \in Nat
  BY DEF Packets
<1> HIDE DEF k
<1>2. /\ sent[k] \in Nat /\ uncompleted[k] \in Seq(Nat) /\ cRecv[k] \in Seq(Packets)
  BY <1>1 DEF Types, Queue
<1>3. Back(k) < p.n /\ p.n <= sent[k]
  BY DEF Fresh, k
<1>4. ASSUME uncompleted[k] = <<>> PROVE FALSE
  <2>1. Len(uncompleted[k]) = 0 /\ Len(cRecv[k]) \in Nat
    BY <1>2, <1>4
  <2> QED  BY <1>1, <1>2, <1>3, <2>1 DEF Back, Handled
<1> QED  BY <1>1, <1>4 DEF k
-----------------------------------------------------------------------------
(* The steps.                                                              *)

\* uncompletedRequestQueue and the numbers, as far as one caller goes.
LEMMA QueueKept ==
  ASSUME Types, Queue, uncompleted' \in [Callers -> Seq(Nat)],
         NEW k \in Callers,
         \A l \in Callers \ {k} : sent'[l] = sent[l] /\ uncompleted'[l] = uncompleted[l],
         \/ sent'[k] = sent[k] /\ uncompleted'[k] = uncompleted[k]
         \/ sent'[k] = sent[k] + 1 /\ uncompleted'[k] = Append(uncompleted[k], sent[k] + 1)
         \/ /\ uncompleted[k] # <<>>
            /\ sent'[k] = sent[k] /\ uncompleted'[k] = Tail(uncompleted[k])
  PROVE  /\ Queue'
         /\ uncompleted'[k] = Append(uncompleted[k], sent[k] + 1) /\ sent'[k] = sent[k] + 1 =>
              Handled(k)' = Handled(k)
         /\ uncompleted[k] # <<>> =>
              Handled(k) + 1 = Head(uncompleted[k]) /\ Len(Tail(uncompleted[k])) = Len(uncompleted[k]) - 1
<1> DEFINE u == uncompleted[k]
           h == Handled(k)
<1>1. /\ sent[k] \in Nat /\ u \in Seq(Nat) /\ h >= 0 /\ h = sent[k] - Len(u)
      /\ \A i \in DOMAIN u : u[i] = h + i
  BY DEF Types, Queue, Handled
<1>2. Len(u) \in Nat /\ h \in Nat /\ \A i \in DOMAIN u : i \in Nat
  BY <1>1
<1> HIDE DEF u, h
<1>3. /\ sent'[k] - Len(uncompleted'[k]) >= 0
      /\ \A i \in DOMAIN uncompleted'[k] : uncompleted'[k][i] = sent'[k] - Len(uncompleted'[k]) + i
  <2>1. CASE sent'[k] = sent[k] /\ uncompleted'[k] = u
    BY <1>1, <1>2, <2>1
  <2>2. CASE sent'[k] = sent[k] + 1 /\ uncompleted'[k] = Append(u, sent[k] + 1)
    <3>1. Len(uncompleted'[k]) = Len(u) + 1
      BY <1>1, <2>2
    <3>2. \A i \in DOMAIN uncompleted'[k] :
            \/ i \in DOMAIN u /\ uncompleted'[k][i] = u[i]
            \/ i = Len(u) + 1 /\ uncompleted'[k][i] = sent[k] + 1
      BY <1>1, <2>2
    <3>3. sent'[k] - Len(uncompleted'[k]) = h
      BY <1>1, <1>2, <2>2, <3>1
    <3>4. \A i \in DOMAIN uncompleted'[k] : uncompleted'[k][i] = h + i
      <4>1. sent[k] + 1 = h + (Len(u) + 1)
        BY <1>1, <1>2
      <4> QED  BY <1>1, <3>2, <4>1
    <3> QED  BY <1>2, <3>3, <3>4
  <2>3. CASE u # <<>> /\ sent'[k] = sent[k] /\ uncompleted'[k] = Tail(u)
    <3>1. Len(uncompleted'[k]) = Len(u) - 1
      BY <1>1, <2>3
    <3>2. \A i \in DOMAIN Tail(u) : i \in Nat /\ i + 1 \in DOMAIN u /\ Tail(u)[i] = u[i + 1]
      <4>1. u \in Seq(Nat) /\ u # <<>>
        BY <1>1, <2>3
      <4> QED  BY <4>1
    <3>3. sent'[k] - Len(uncompleted'[k]) = h + 1 /\ h + 1 >= 0
      <4>1. sent'[k] \in Nat /\ h = sent'[k] - Len(u)
        BY <1>1, <2>3
      <4> QED  BY <1>2, <3>1, <4>1
    <3>4. ASSUME NEW i \in DOMAIN Tail(u) PROVE Tail(u)[i] = h + 1 + i
      <4>1. i \in Nat /\ Tail(u)[i] = h + (i + 1)
        BY <1>1, <3>2
      <4> QED  BY <1>2, <4>1
    <3> QED  BY <2>3, <3>3, <3>4
  <2> QED  BY <2>1, <2>2, <2>3 DEF u
<1>4. \A l \in Callers \ {k} :
        /\ sent'[l] - Len(uncompleted'[l]) >= 0
        /\ \A i \in DOMAIN uncompleted'[l] : uncompleted'[l][i] = sent'[l] - Len(uncompleted'[l]) + i
  BY DEF Queue, Handled
<1>5. Queue'
  BY <1>3, <1>4 DEF Queue, Handled
<1>6. ASSUME uncompleted'[k] = Append(uncompleted[k], sent[k] + 1), sent'[k] = sent[k] + 1
      PROVE  Handled(k)' = Handled(k)
  <2>1. Len(uncompleted'[k]) = Len(u) + 1
    BY <1>1, <1>6 DEF u
  <2> QED  BY <1>1, <1>2, <1>6, <2>1 DEF Handled, u
<1>7. ASSUME u # <<>> PROVE h + 1 = Head(u) /\ Len(Tail(u)) = Len(u) - 1
  <2>1. 1 \in DOMAIN u /\ Head(u) = u[1] /\ Len(Tail(u)) = Len(u) - 1
    BY <1>1, <1>7
  <2> QED  BY <1>1, <2>1
<1> QED  BY <1>5, <1>6, <1>7 DEF u, h

\* Steps that leave requests and packets alone.
LEMMA TidyKept ==
  ASSUME Types, Queue, TidyInv, UNCHANGED <<sent, uncompleted, c2s, sChannels, s2c>>,
         UNCHANGED <<open, mixed>>,
         \A k \in Callers : /\ cRecv'[k] = cRecv[k]
                            /\ uncompleted[k] # <<>> => newId'[k] = newId[k] /\ pc'[k] = pc[k]
  PROVE  TidyInv'
<1>1. \A k \in Callers : /\ Handled(k)' = Handled(k) /\ Back(k)' = Back(k) /\ sent'[k] = sent[k]
                         /\ uncompleted'[k] = uncompleted[k]
  BY DEF Handled, Back
<1>2. Outstanding'
  BY DEF TidyInv, Outstanding
<1>3. Received'
  BY <1>1 DEF TidyInv, Received
<1>4. \A p \in Packets : Fresh(p) =>
        (p.kind # "new" => /\ p.kind = "req" /\ p.ch = newId'[p.from]
                           /\ Back(p.from)' < p.n /\ p.n <= sent'[p.from])
  <2> SUFFICES ASSUME NEW p \in Packets, Fresh(p), p.kind # "new"
               PROVE  /\ p.kind = "req" /\ p.ch = newId'[p.from]
                      /\ Back(p.from)' < p.n /\ p.n <= sent'[p.from]
    OBVIOUS
  <2>1. p.from \in Callers /\ uncompleted[p.from] # <<>>
    BY FreshOwner
  <2> QED  BY <1>1, <2>1 DEF Fresh
<1>5. AllFresh'
  <2>1. /\ \A i \in DOMAIN c2s : c2s[i] \in Packets
        /\ \A i \in DOMAIN s2c : s2c[i] \in Packets
        /\ \A id \in DOMAIN sChannels : \A i \in DOMAIN sChannels[id] : sChannels[id][i] \in Packets
    BY AllPackets
  <2>2. AllFresh
    BY DEF TidyInv
  <2> QED  BY <1>4, <2>1, <2>2 DEF AllFresh, Fresh, Back, Handled
<1>6. InOrder'
  BY DEF TidyInv, InOrder, Ordered, Before, Earlier
<1>7. Covered'
  BY <1>1 DEF TidyInv, Covered, OnTheWay, In
<1> QED  BY <1>2, <1>3, <1>5, <1>6, <1>7 DEF TidyInv

\* AllFresh and Covered in the next state.
FreshNext(p) ==
  p.kind # "new" =>
    /\ p.kind = "req" /\ p.ch = newId'[p.from]
    /\ sent'[p.from] - Len(uncompleted'[p.from]) + Len(cRecv'[p.from]) < p.n
    /\ p.n <= sent'[p.from]

\* Every packet of the next state has to be fresh then ...
LEMMA AllFreshNext ==
  ASSUME \A i \in DOMAIN c2s' : FreshNext(c2s'[i]), \A i \in DOMAIN s2c' : FreshNext(s2c'[i]),
         \A id \in DOMAIN sChannels' : \A i \in DOMAIN sChannels'[id] : FreshNext(sChannels'[id][i])
  PROVE  AllFresh'
BY DEF AllFresh, Fresh, Back, Handled, FreshNext

\* ... and every number be in one of the queues.
LEMMA CoveredNext ==
  ASSUME \A k \in Callers : \A m \in Nat : Back(k)' < m /\ m <= sent'[k] =>
           \/ In(s2c', k, m) \/ In(c2s', k, m)
           \/ \E id \in DOMAIN sChannels' : In(sChannels'[id], k, m)
  PROVE  Covered'
BY DEF Covered, OnTheWay, In

\* A packet stays fresh as long as what has come back of its channel does not
\* change.
LEMMA StaysFresh ==
  ASSUME Types, Queue, UNCHANGED newId,
         \A k \in Callers : /\ Back(k)' = Back(k) /\ sent'[k] \in Nat /\ sent[k] <= sent'[k]
  PROVE  \A p \in Packets : Fresh(p) => FreshNext(p)
<1> SUFFICES ASSUME NEW p \in Packets, Fresh(p), p.kind # "new"
             PROVE  /\ p.kind = "req" /\ p.ch = newId'[p.from] /\ Back(p.from)' < p.n
                    /\ p.n <= sent'[p.from]
  BY DEF FreshNext, Back, Handled
<1> DEFINE k == p.from
<1>1. k \in Callers /\ p.n \in Nat
  BY FreshOwner
<1>2. p.kind = "req" /\ p.ch = newId[k] /\ Back(k) < p.n /\ p.n <= sent[k]
  BY DEF Fresh
<1> HIDE DEF k
<1>3. sent[k] \in Nat
  BY <1>1 DEF Types
<1>4. p.n <= sent'[k]
  BY <1>1, <1>2, <1>3
<1> QED  BY <1>1, <1>2, <1>4 DEF k

\* AskSend: a packet that is of no channel.
LEMMA AskSendTidy ==
  ASSUME IInv, Queue, TidyInv, NEW k \in Callers, AskSend(k)
  PROVE  TidyInv'
<1>0. Types /\ Outstanding /\ Received /\ AllFresh /\ InOrder /\ Covered
  BY DEF IInv, TidyInv
<1>1. /\ UNCHANGED <<newId, sChannels, s2c, cRecv, sent, uncompleted>> /\ UNCHANGED <<open, mixed>>
  BY DEF AskSend, openVars, sIdVars, queueVars, historyVars
<1>2. \A l \in Callers : /\ Handled(l)' = Handled(l) /\ Back(l)' = Back(l)
                         /\ sent'[l] = sent[l] /\ sent[l] \in Nat /\ sent[l] <= sent'[l]
  BY <1>0, <1>1 DEF Handled, Back, Types
<1> DEFINE p == Packet(0, "new", k, 0)
<1>3. p \in Packets /\ p.kind = "new" /\ c2s' = Append(c2s, p) /\ c2s \in Seq(Packets)
  BY <1>0, ChannelsAssumption DEF Packet, Packets, Ids, AskSend, Types
<1> HIDE DEF p
<1>4. Outstanding'
  <2>1. \A l \in Callers : pc[l] = "open" => pc'[l] = "open"
    BY <1>0 DEF AskSend, Types
  <2> QED  BY <1>0, <1>1, <2>1 DEF Outstanding
<1>5. Received'
  BY <1>0, <1>1, <1>2 DEF Received
<1>6. AllFresh'
  <2>1. \A q \in Packets : Fresh(q) => FreshNext(q)
    BY <1>0, <1>1, <1>2, StaysFresh
  <2>2. FreshNext(p)
    BY <1>3 DEF FreshNext
  <2>3. \A i \in DOMAIN c2s' : (i \in DOMAIN c2s /\ c2s'[i] = c2s[i]) \/ c2s'[i] = p
    BY <1>3, AppendAll
  <2> QED  BY <1>0, <1>1, <2>1, <2>2, <2>3, AllPackets, AllFreshNext DEF AllFresh
<1>7. InOrder'
  <2>1. \A q : Earlier(q, p)
    BY <1>3 DEF Earlier
  <2>2. /\ Ordered(s2c) /\ Ordered(c2s) /\ Before(s2c, c2s)
        /\ \A id \in DOMAIN sChannels :
             Ordered(sChannels[id]) /\ Before(s2c, sChannels[id]) /\ Before(sChannels[id], c2s)
    BY <1>0 DEF InOrder
  <2>3. Ordered(c2s') /\ \A r : Before(r, c2s) => Before(r, c2s')
    BY <1>3, <2>1, <2>2, AppendOrder
  <2> QED  BY <1>1, <2>2, <2>3, OrderNext
<1>8. Covered'
  <2>1. \A l, m : In(c2s, l, m) => In(c2s', l, m)
    BY <1>3, AppendOrder
  <2> QED  BY <1>0, <1>1, <1>2, <2>1, CoveredNext DEF Covered, OnTheWay
<1> QED  BY <1>1, <1>4, <1>5, <1>6, <1>7, <1>8 DEF TidyInv

\* Send: the packet is the youngest of its channel.
LEMMA SendTidy ==
  ASSUME IInv, Queue, TidyInv, NEW k \in Callers, Send(k, "req"), pc[k] = "open"
  PROVE  Queue' /\ TidyInv'
<1>0. Types /\ Outstanding /\ Received /\ AllFresh /\ InOrder /\ Covered
  BY DEF IInv, TidyInv
<1>1. UNCHANGED <<pc, newId, sChannels, s2c, cRecv>> /\ UNCHANGED <<open, mixed>>
  BY DEF Send, openVars, sIdVars
<1>2. /\ sent \in [Callers -> Nat] /\ uncompleted \in [Callers -> Seq(Nat)]
      /\ newId \in [Callers -> Ids] /\ c2s \in Seq(Packets)
  BY <1>0 DEF Types, Queue
<1>3. /\ sent' = [sent EXCEPT ![k] = @ + 1]
      /\ uncompleted' = [uncompleted EXCEPT ![k] = Append(@, sent'[k])]
      /\ c2s' = Append(c2s, Packet(newId[k], "req", k, sent'[k]))
  BY DEF Send
<1>4. /\ sent'[k] = sent[k] + 1 /\ \A l \in Callers \ {k} : sent'[l] = sent[l]
  BY <1>2, <1>3
<1> DEFINE u == Append(uncompleted[k], sent[k] + 1)
<1>5. u \in Seq(Nat)
  BY <1>2
<1>6. /\ uncompleted'[k] = u /\ uncompleted' \in [Callers -> Seq(Nat)]
      /\ \A l \in Callers \ {k} : uncompleted'[l] = uncompleted[l]
  <2>1. uncompleted' = [uncompleted EXCEPT ![k] = u]
    BY <1>3, <1>4
  <2> HIDE DEF u
  <2> QED  BY <1>2, <1>5, <2>1
<1>7. Queue' /\ Handled(k)' = Handled(k)
  BY <1>0, <1>4, <1>6, QueueKept
<1>8. \A l \in Callers : /\ Handled(l)' = Handled(l) /\ Back(l)' = Back(l)
                         /\ sent'[l] \in Nat /\ sent[l] \in Nat /\ sent[l] <= sent'[l]
  <2>1. \A l \in Callers : Handled(l)' = Handled(l)
    BY <1>4, <1>6, <1>7 DEF Handled
  <2>2. \A l \in Callers : Back(l)' = Back(l)
    BY <1>1, <2>1 DEF Back
  <2> QED  BY <1>2, <1>4, <2>1, <2>2
<1> DEFINE p == Packet(newId[k], "req", k, sent'[k])
<1>9. /\ p \in Packets /\ p.kind = "req" /\ p.from = k /\ p.n = sent[k] + 1 /\ p.ch = newId[k]
      /\ c2s' = Append(c2s, p)
  BY <1>2, <1>3, <1>4, <1>8 DEF Packet, Packets
<1> HIDE DEF p, u
<1>10. Outstanding'
  BY <1>0, <1>1, <1>6 DEF Outstanding
<1>11. Received'
  <2>1. \A l \in Callers : Back(l) \in Int
    <3>1. \A l \in Callers : cRecv[l] \in Seq(Packets) /\ uncompleted[l] \in Seq(Nat)
      BY <1>0, <1>2 DEF Types
    <3> QED  BY <1>8, <3>1 DEF Back, Handled
  <2>2. \A l \in Callers : Back(l)' <= sent'[l]
    BY <1>0, <1>8, <2>1 DEF Received
  <2> QED  BY <1>0, <1>1, <1>8, <2>2 DEF Received
<1>12. AllFresh'
  <2>1. \A q \in Packets : Fresh(q) => FreshNext(q)
    BY <1>0, <1>1, <1>8, StaysFresh
  <2>2. FreshNext(p)
    <3>1. Back(k)' < p.n /\ p.n <= sent'[k]
      <4>1. cRecv[k] \in Seq(Packets) /\ uncompleted[k] \in Seq(Nat)
        BY <1>0, <1>2 DEF Types
      <4>2. Back(k) \in Int /\ Back(k) <= sent[k]
        BY <1>0, <1>8, <4>1 DEF Back, Handled, Received
      <4> QED  BY <1>4, <1>8, <1>9, <4>2
    <3> QED  BY <1>1, <1>9, <3>1 DEF FreshNext, Back, Handled
  <2>3. \A i \in DOMAIN c2s' : (i \in DOMAIN c2s /\ c2s'[i] = c2s[i]) \/ c2s'[i] = p
    BY <1>2, <1>9, AppendAll
  <2> QED  BY <1>0, <1>1, <2>1, <2>2, <2>3, AllPackets, AllFreshNext DEF AllFresh
<1>13. InOrder'
  <2>1. \A q \in Packets : Fresh(q) => Earlier(q, p)
    <3> SUFFICES ASSUME NEW q \in Packets, Fresh(q), q.kind # "new", q.from = k PROVE q.n < p.n
      BY <1>9 DEF Earlier
    <3>1. q.n \in Nat /\ q.n <= sent[k]
      BY <1>0, FreshOwner DEF Fresh
    <3> QED  BY <1>8, <1>9, <3>1
  <2>2. /\ Ordered(s2c) /\ Ordered(c2s) /\ Before(s2c, c2s)
        /\ \A id \in DOMAIN sChannels :
             Ordered(sChannels[id]) /\ Before(s2c, sChannels[id]) /\ Before(sChannels[id], c2s)
    BY <1>0 DEF InOrder
  <2>3. /\ \A i \in DOMAIN c2s : Earlier(c2s[i], p)
        /\ \A i \in DOMAIN s2c : Earlier(s2c[i], p)
        /\ \A id \in DOMAIN sChannels : \A i \in DOMAIN sChannels[id] : Earlier(sChannels[id][i], p)
    BY <1>0, <2>1, AllPackets DEF AllFresh
  <2>4. /\ Ordered(c2s') /\ Before(s2c, c2s')
        /\ \A id \in DOMAIN sChannels : Before(sChannels[id], c2s')
    BY <1>2, <1>9, <2>2, <2>3, AppendOrder
  <2> QED  BY <1>1, <2>2, <2>4, OrderNext
<1>14. Covered'
  <2>1. /\ \A l, m : In(c2s, l, m) => In(c2s', l, m)
        /\ In(c2s', k, sent[k] + 1)
    BY <1>2, <1>9, AppendOrder
  <2> SUFFICES ASSUME NEW l \in Callers, NEW m \in Nat, Back(l)' < m, m <= sent'[l]
               PROVE  \/ In(s2c', l, m) \/ In(c2s', l, m)
                      \/ \E id \in DOMAIN sChannels' : In(sChannels'[id], l, m)
    BY CoveredNext
  <2>2. CASE m <= sent[l]
    <3>1. OnTheWay(l, m)
      BY <1>0, <1>8, <2>2 DEF Covered
    <3> QED  BY <1>1, <2>1, <3>1 DEF OnTheWay
  <2>3. CASE ~(m <= sent[l])
    <3>1. l = k /\ m = sent[k] + 1
      BY <1>4, <1>8, <2>3
    <3> QED  BY <2>1, <3>1
  <2> QED  BY <2>2, <2>3
<1> QED  BY <1>0, <1>1, <1>7, <1>10, <1>11, <1>12, <1>13, <1>14 DEF TidyInv

\* Handle: the response in hand is that of the oldest request.
LEMMA HandleTidy ==
  ASSUME IInv, Queue, TidyInv, NEW k \in Callers, Handle(k)
  PROVE  Queue' /\ TidyInv'
<1>0. Types /\ Outstanding /\ Received /\ AllFresh /\ InOrder /\ Covered /\ ~mixed
  BY DEF IInv, TidyInv
<1>1. UNCHANGED <<newId, sChannels, s2c, c2s, sent>> /\ UNCHANGED open
  BY DEF Handle, openVars, sIdVars
<1> DEFINE u == uncompleted[k]
           r == cRecv[k]
<1>2. /\ sent[k] \in Nat /\ u \in Seq(Nat) /\ r \in Seq(Packets) /\ r # <<>>
      /\ uncompleted \in [Callers -> Seq(Nat)] /\ cRecv \in [Callers \cup {Sys} -> Seq(Packets)]
  BY <1>0 DEF Types, Queue, Handle
<1>3. /\ Tail(r) \in Seq(Packets) /\ Len(Tail(r)) = Len(r) - 1 /\ Len(r) > 0
      /\ \A i \in DOMAIN Tail(r) : i + 1 \in DOMAIN r /\ Tail(r)[i] = r[i + 1] /\ i \in Nat
      /\ 1 \in DOMAIN r /\ Head(r) = r[1] /\ Len(r) \in Nat
  <2>1. \A i \in DOMAIN Tail(r) : i \in Nat
    BY <1>2
  <2> QED  BY <1>2, <2>1, TailAll
<1>4. /\ Back(k) <= sent[k] /\ Back(k) = sent[k] - Len(u) + Len(r)
      /\ \A i \in DOMAIN r : r[i].from = k /\ r[i].n = Handled(k) + i
  BY <1>0 DEF Received, Back, Handled
<1>5. u # <<>>
  <2>1. Len(u) \in Nat /\ (u = <<>> => Len(u) = 0)
    BY <1>2
  <2> QED  BY <1>2, <1>3, <1>4, <2>1
<1>6. /\ cRecv' = [cRecv EXCEPT ![k] = Tail(@)]
      /\ uncompleted' = [uncompleted EXCEPT ![k] = Tail(@)]
      /\ mixed' = (mixed \/ <<Head(r).from, Head(r).n>> # <<k, Head(u)>>)
      /\ UNCHANGED pc
  BY <1>5 DEF Handle
<1>7. Tail(u) \in Seq(Nat) /\ Len(u) \in Nat
  BY <1>2, <1>5
<1>8. /\ uncompleted' \in [Callers -> Seq(Nat)] /\ uncompleted'[k] = Tail(u)
      /\ \A l \in Callers \ {k} : uncompleted'[l] = uncompleted[l]
      /\ cRecv'[k] = Tail(r) /\ \A l \in Callers \ {k} : cRecv'[l] = cRecv[l]
  BY <1>2, <1>6, <1>7
<1>9. Queue' /\ Handled(k) + 1 = Head(u) /\ Len(Tail(u)) = Len(u) - 1
  BY <1>0, <1>1, <1>5, <1>8, QueueKept
<1>10. ~mixed'
  <2>1. Head(r).from = k /\ Head(r).n = Head(u)
    BY <1>3, <1>4, <1>9
  <2> QED  BY <1>0, <1>6, <2>1
<1>11. Handled(k)' = Handled(k) + 1 /\ Back(k)' = Back(k) /\ Handled(k) \in Int
  <2>1. /\ Handled(k) = sent[k] - Len(u)
        /\ Handled(k)' = sent[k] - (Len(u) - 1)
        /\ Back(k)' = sent[k] - (Len(u) - 1) + (Len(r) - 1)
    BY <1>1, <1>3, <1>8, <1>9 DEF Handled, Back
  <2> QED  BY <1>2, <1>3, <1>4, <1>7, <2>1
<1> HIDE DEF u, r
<1>12. \A l \in Callers : /\ Back(l)' = Back(l) /\ sent'[l] = sent[l] /\ sent'[l] \in Nat
                          /\ sent[l] <= sent'[l] /\ (l # k => Handled(l)' = Handled(l))
  <2>1. \A l \in Callers \ {k} : Handled(l)' = Handled(l) /\ Back(l)' = Back(l)
    BY <1>1, <1>8 DEF Handled, Back
  <2>2. \A l \in Callers : sent'[l] = sent[l] /\ sent'[l] \in Nat /\ sent[l] <= sent'[l]
    BY <1>0, <1>1 DEF Types
  <2> QED  BY <1>11, <2>1, <2>2
<1>13. Outstanding'
  BY <1>0, <1>5, <1>6, <1>8 DEF Outstanding, u
<1>14. Received'
  <2>1. ASSUME NEW i \in DOMAIN cRecv'[k]
        PROVE  cRecv'[k][i].from = k /\ cRecv'[k][i].n = Handled(k)' + i
    <3>1. i \in Nat /\ i + 1 \in DOMAIN r /\ cRecv'[k][i] = r[i + 1]
      BY <1>3, <1>8
    <3>2. cRecv'[k][i].from = k /\ cRecv'[k][i].n = Handled(k) + (i + 1)
      BY <1>4, <3>1
    <3> QED  BY <1>11, <3>1, <3>2
  <2>2. ASSUME NEW l \in Callers, l # k
        PROVE  \A i \in DOMAIN cRecv'[l] : cRecv'[l][i].from = l /\ cRecv'[l][i].n = Handled(l)' + i
    BY <1>0, <1>8, <1>12, <2>2 DEF Received
  <2>3. \A l \in Callers : Back(l)' <= sent'[l]
    BY <1>0, <1>12 DEF Received
  <2> QED  BY <2>1, <2>2, <2>3 DEF Received
<1>15. AllFresh'
  <2>1. \A q \in Packets : Fresh(q) => FreshNext(q)
    BY <1>0, <1>1, <1>12, StaysFresh
  <2> QED  BY <1>0, <1>1, <2>1, AllPackets, AllFreshNext DEF AllFresh
<1>16. InOrder'
  BY <1>0, <1>1 DEF InOrder, Ordered, Before, Earlier
<1>17. Covered'
  BY <1>0, <1>1, <1>12, CoveredNext DEF Covered, OnTheWay
<1> QED  BY <1>1, <1>9, <1>10, <1>13, <1>14, <1>15, <1>16, <1>17 DEF TidyInv

\* ServerRead: the server knows the id, and the packet comes behind those of
\* its channel that came before.
LEMMA ServerReadTidy ==
  ASSUME IInv, TidyInv, Queue, TidyUse, ServerRead
  PROVE  TidyInv'
<1>0. Types /\ Outstanding /\ Received /\ AllFresh /\ InOrder /\ Covered /\ open
  BY DEF IInv, TidyInv
<1>1. UNCHANGED <<pc, newId, s2c, cRecv, sent, uncompleted>> /\ UNCHANGED mixed
  BY DEF ServerRead, openVars, queueVars, historyVars
<1> DEFINE p == Head(c2s)
<1>2. /\ c2s \in Seq(Packets) /\ c2s # <<>> /\ c2s' = Tail(c2s)
      /\ \A id \in DOMAIN sChannels : sChannels[id] \in Seq(Packets)
  BY <1>0 DEF Types, ServerRead
<1>3. /\ \A i \in DOMAIN c2s' : i + 1 \in DOMAIN c2s /\ c2s'[i] = c2s[i + 1]
      /\ 1 \in DOMAIN c2s /\ p = c2s[1] /\ p \in Packets
  BY <1>2, TailAll
<1> DEFINE id == p.ch
<1>4. id \in DOMAIN sChannels
  BY <1>3, ServerKnows DEF ServerKnowsIds, TidyUse
<1>5. sChannels' = [sChannels EXCEPT ![id] = Append(@, p)] /\ UNCHANGED open
  BY <1>4 DEF ServerRead
<1> HIDE DEF p, id
<1>6. /\ DOMAIN sChannels' = DOMAIN sChannels /\ sChannels'[id] = Append(sChannels[id], p)
      /\ \A n \in DOMAIN sChannels \ {id} : sChannels'[n] = sChannels[n]
      /\ sChannels[id] \in Seq(Packets)
  BY <1>2, <1>4, <1>5
<1>7. \A l \in Callers : /\ Handled(l)' = Handled(l) /\ Back(l)' = Back(l) /\ sent'[l] = sent[l]
                         /\ sent'[l] \in Nat /\ sent[l] <= sent'[l]
  BY <1>0, <1>1 DEF Handled, Back, Types
<1>8. Outstanding' /\ Received'
  BY <1>0, <1>1, <1>7 DEF Outstanding, Received
<1>9. AllFresh'
  <2>1. \A q \in Packets : Fresh(q) => FreshNext(q)
    BY <1>0, <1>1, <1>7, StaysFresh
  <2>2. FreshNext(p)
    BY <1>0, <1>3, <2>1 DEF AllFresh
  <2>3. \A i \in DOMAIN sChannels'[id] : FreshNext(sChannels'[id][i])
    <3>1. \A i \in DOMAIN sChannels'[id] :
            \/ i \in DOMAIN sChannels[id] /\ sChannels'[id][i] = sChannels[id][i]
            \/ sChannels'[id][i] = p
      BY <1>3, <1>6, AppendAll
    <3> QED  BY <1>0, <1>4, <2>1, <2>2, <3>1, AllPackets DEF AllFresh
  <2>4. \A n \in DOMAIN sChannels' : \A i \in DOMAIN sChannels'[n] : FreshNext(sChannels'[n][i])
    BY <1>0, <1>6, <2>1, <2>3, AllPackets DEF AllFresh
  <2>5. \A i \in DOMAIN c2s' : FreshNext(c2s'[i])
    BY <1>0, <1>3, <2>1, AllPackets DEF AllFresh
  <2>6. \A i \in DOMAIN s2c' : FreshNext(s2c'[i])
    BY <1>0, <1>1, <2>1, AllPackets DEF AllFresh
  <2> QED  BY <2>4, <2>5, <2>6, AllFreshNext
<1>10. InOrder'
  <2>1. /\ Ordered(s2c) /\ Ordered(c2s) /\ Before(s2c, c2s)
        /\ \A n \in DOMAIN sChannels :
             Ordered(sChannels[n]) /\ Before(s2c, sChannels[n]) /\ Before(sChannels[n], c2s)
    BY <1>0 DEF InOrder
  <2>2. /\ Ordered(c2s') /\ \A j \in DOMAIN c2s' : Earlier(p, c2s'[j])
        /\ \A r : Before(r, c2s) => Before(r, c2s')
    BY <1>2, <1>3, <2>1, TailOrder
  <2>3. \A r : Before(r, c2s) => \A i \in DOMAIN r : Earlier(r[i], p)
    BY <1>3 DEF Before
  <2>4. /\ \A i \in DOMAIN sChannels[id] : Earlier(sChannels[id][i], p)
        /\ \A i \in DOMAIN s2c : Earlier(s2c[i], p)
        /\ Before(sChannels[id], c2s')
    BY <1>4, <2>1, <2>2, <2>3
  <2>5. Ordered(sChannels'[id]) /\ Before(s2c, sChannels'[id]) /\ Before(sChannels'[id], c2s')
    BY <1>3, <1>4, <1>6, <2>1, <2>2, <2>4, AppendOrder
  <2>6. \A n \in DOMAIN sChannels' : /\ Ordered(sChannels'[n]) /\ Before(s2c', sChannels'[n])
                                     /\ Before(sChannels'[n], c2s')
    BY <1>1, <1>6, <2>1, <2>2, <2>5
  <2>7. Ordered(s2c') /\ Before(s2c', c2s')
    BY <1>1, <2>1, <2>2
  <2> QED  BY <2>2, <2>6, <2>7, OrderNext
<1>11. Covered'
  <2>1. \A l, m : In(c2s, l, m) => In(c2s', l, m) \/ In(sChannels'[id], l, m)
    <3>1. \A l, m : In(c2s, l, m) => \/ In(c2s', l, m)
                                     \/ p.kind # "new" /\ p.from = l /\ p.n = m
      BY <1>2, <1>3, TailOrder
    <3>2. \A l, m : p.kind # "new" /\ p.from = l /\ p.n = m => In(sChannels'[id], l, m)
      BY <1>3, <1>6, AppendOrder
    <3> QED  BY <3>1, <3>2
  <2>2. \A n \in DOMAIN sChannels : \A l, m : In(sChannels[n], l, m) => In(sChannels'[n], l, m)
    <3>1. \A l, m : In(sChannels[id], l, m) => In(sChannels'[id], l, m)
      BY <1>3, <1>6, AppendOrder
    <3> QED  BY <1>6, <3>1
  <2>3. \A l \in Callers : \A m \in Nat : Back(l)' < m /\ m <= sent'[l] => OnTheWay(l, m)
    BY <1>0, <1>7 DEF Covered
  <2>4. \A l, m : OnTheWay(l, m) => \/ In(s2c', l, m) \/ In(c2s', l, m)
                                    \/ \E n \in DOMAIN sChannels' : In(sChannels'[n], l, m)
    BY <1>1, <1>4, <1>6, <2>1, <2>2 DEF OnTheWay
  <2> QED  BY <2>3, <2>4, CoveredNext
<1> QED  BY <1>0, <1>1, <1>5, <1>8, <1>9, <1>10, <1>11 DEF TidyInv

\* ClientRead: the packet goes to the channel it belongs to, where it is the
\* next one, or to channel 0.
LEMMA ClientReadTidy ==
  ASSUME IInv, TidyInv, Queue, TidyUse, ClientRead
  PROVE  TidyInv'
<1>0. Types /\ Outstanding /\ Received /\ AllFresh /\ InOrder /\ Covered /\ open
  BY DEF IInv, TidyInv
<1>1. UNCHANGED <<pc, newId, c2s, sChannels, sent, uncompleted>> /\ UNCHANGED mixed
  BY DEF ClientRead, openVars, sIdVars, queueVars, historyVars
<1> DEFINE p == Head(s2c)
<1>2. /\ s2c \in Seq(Packets) /\ s2c # <<>> /\ s2c' = Tail(s2c)
      /\ cRecv \in [Callers \cup {Sys} -> Seq(Packets)]
  BY <1>0 DEF Types, ClientRead
<1>3. /\ \A i \in DOMAIN s2c' : i + 1 \in DOMAIN s2c /\ s2c'[i] = s2c[i + 1]
      /\ 1 \in DOMAIN s2c /\ p = s2c[1] /\ p \in Packets
  BY <1>2, TailAll
<1>4. p.ch \in DOMAIN cChannels => /\ cRecv' = [cRecv EXCEPT ![cChannels[p.ch]] = Append(@, p)]
                                   /\ UNCHANGED open
  BY DEF ClientRead
<1> HIDE DEF p
<1>5. Fresh(p)
  BY <1>0, <1>3 DEF AllFresh
<1>6. \A l \in Callers : Handled(l)' = Handled(l) /\ sent'[l] = sent[l] /\ sent[l] \in Nat
                         /\ Handled(l) \in Int /\ Back(l) \in Int /\ Len(cRecv[l]) \in Nat
  <2>1. \A l \in Callers : cRecv[l] \in Seq(Packets) /\ uncompleted[l] \in Seq(Nat) /\ sent[l] \in Nat
    BY <1>0, <1>2 DEF Types, Queue
  <2>2. \A l \in Callers : Len(cRecv[l]) \in Nat /\ Len(uncompleted[l]) \in Nat
    BY <2>1
  <2> QED  BY <1>1, <2>1, <2>2 DEF Handled, Back
<1>7. Outstanding'
  BY <1>0, <1>1 DEF Outstanding
<1>8. /\ Ordered(s2c) /\ Ordered(c2s) /\ Before(s2c, c2s)
      /\ \A n \in DOMAIN sChannels :
           Ordered(sChannels[n]) /\ Before(s2c, sChannels[n]) /\ Before(sChannels[n], c2s)
  BY <1>0 DEF InOrder
<1>9. /\ Ordered(s2c') /\ (\A j \in DOMAIN s2c' : Earlier(p, s2c'[j]))
      /\ \A r : Before(s2c, r) => Before(s2c', r)
  BY <1>2, <1>3, <1>8, TailOrder
<1>10. InOrder'
  BY <1>1, <1>8, <1>9, OrderNext
<1>11. /\ \A j \in DOMAIN c2s : Earlier(p, c2s[j])
       /\ \A n \in DOMAIN sChannels : \A j \in DOMAIN sChannels[n] : Earlier(p, sChannels[n][j])
  BY <1>3, <1>8 DEF Before
<1>12. \A l, m : In(s2c, l, m) => \/ In(s2c', l, m)
                                  \/ p.kind # "new" /\ p.from = l /\ p.n = m
  BY <1>2, <1>3, TailOrder
<1>13. /\ \A i \in DOMAIN c2s' : c2s'[i] \in Packets /\ Fresh(c2s'[i]) /\ Earlier(p, c2s'[i])
       /\ \A i \in DOMAIN s2c' : s2c'[i] \in Packets /\ Fresh(s2c'[i]) /\ Earlier(p, s2c'[i])
       /\ \A n \in DOMAIN sChannels' : \A i \in DOMAIN sChannels'[n] :
            /\ sChannels'[n][i] \in Packets /\ Fresh(sChannels'[n][i])
            /\ Earlier(p, sChannels'[n][i])
  <2>1. \A i \in DOMAIN c2s' : c2s'[i] \in Packets /\ Fresh(c2s'[i]) /\ Earlier(p, c2s'[i])
    BY <1>0, <1>1, <1>11, AllPackets DEF AllFresh
  <2>2. \A i \in DOMAIN s2c' : s2c'[i] \in Packets /\ Fresh(s2c'[i]) /\ Earlier(p, s2c'[i])
    BY <1>0, <1>3, <1>9, AllPackets DEF AllFresh
  <2>3. \A n \in DOMAIN sChannels' : \A i \in DOMAIN sChannels'[n] :
            /\ sChannels'[n][i] \in Packets /\ Fresh(sChannels'[n][i])
            /\ Earlier(p, sChannels'[n][i])
    BY <1>0, <1>1, <1>11, AllPackets DEF AllFresh
  <2> QED  BY <2>1, <2>2, <2>3
<1>14. CASE p.kind = "new"
  <2>1. p.ch = 0
    BY <1>3, <1>14 DEF IInv, Used, TidyUse
  <2>2. 0 \in DOMAIN cChannels /\ cChannels[0] = Sys
    BY DEF IInv, ClientIds, TidyUse
  <2>3. /\ UNCHANGED open /\ \A l \in Callers : cRecv'[l] = cRecv[l]
    BY <1>2, <1>4, <2>1, <2>2, ChannelsAssumption
  <2>4. \A l \in Callers : /\ Back(l)' = Back(l) /\ sent'[l] \in Nat /\ sent[l] <= sent'[l]
    BY <1>6, <2>3 DEF Back
  <2>5. Received'
    BY <1>0, <1>6, <2>3, <2>4 DEF Received
  <2>6. AllFresh'
    <3>1. \A q \in Packets : Fresh(q) => FreshNext(q)
      BY <1>0, <1>1, <2>4, StaysFresh
    <3> QED  BY <1>13, <3>1, AllFreshNext
  <2>7. Covered'
    BY <1>0, <1>1, <1>6, <1>12, <1>14, <2>4, CoveredNext DEF Covered, OnTheWay
  <2> QED  BY <1>0, <1>1, <1>7, <1>10, <2>3, <2>5, <2>6, <2>7 DEF TidyInv
<1>15. CASE p.kind # "new"
  <2>0. p.from \in Callers /\ p.n \in Nat /\ uncompleted[p.from] # <<>>
    BY <1>0, <1>3, <1>5, <1>15, FreshOwner
  <2> PICK k \in Callers : k = p.from
    BY <2>0
  <2>1. k \in Callers /\ p.n \in Nat /\ uncompleted[k] # <<>>
    BY <2>0
  <2>2. p.ch = newId[k] /\ Back(k) < p.n /\ p.n <= sent[k]
    BY <1>5, <1>15 DEF Fresh
  <2>3. p.ch \in DOMAIN cChannels /\ cChannels[p.ch] = k
    <3>1. k \in Registered
      BY <1>0, <2>1 DEF Outstanding, Registered
    <3> QED  BY <2>2, <3>1 DEF IInv, ClientIds, TidyUse
  <2>4. /\ UNCHANGED open /\ cRecv'[k] = Append(cRecv[k], p)
        /\ \A l \in Callers \ {k} : cRecv'[l] = cRecv[l]
    BY <1>2, <1>4, <2>1, <2>3
  <2>5. p.n = Back(k) + 1
    <3>1. Back(k) \in Int /\ Back(k) >= 0
      BY <1>6, <2>1 DEF Queue, Back
    <3> SUFFICES ASSUME p.n # Back(k) + 1 PROVE FALSE
      OBVIOUS
    <3> DEFINE m == Back(k) + 1
    <3>2. m \in Nat /\ Back(k) < m /\ m <= sent[k] /\ m < p.n
      BY <1>6, <2>1, <2>2, <3>1
    <3> HIDE DEF m
    <3>3. OnTheWay(k, m)
      BY <1>0, <2>1, <3>2 DEF Covered
    <3>4. \A q : (q.kind # "new" /\ q.from = k /\ q.n = m /\ Earlier(p, q)) => p.n < m
      BY <1>15 DEF Earlier
    <3>5. ~(p.n < m)
      BY <2>1, <3>2
    <3>6. ~In(s2c, k, m)
      <4>1. ~In(s2c', k, m)
        BY <1>9, <3>4, <3>5 DEF In
      <4> QED  BY <1>12, <2>1, <3>2, <4>1
    <3>7. ~In(c2s, k, m)
      BY <1>11, <3>4, <3>5 DEF In
    <3>8. \A n \in DOMAIN sChannels : ~In(sChannels[n], k, m)
      BY <1>11, <3>4, <3>5 DEF In
    <3> QED  BY <3>3, <3>6, <3>7, <3>8 DEF OnTheWay
  <2>6. /\ Len(cRecv'[k]) = Len(cRecv[k]) + 1
        /\ \A i \in DOMAIN cRecv'[k] : \/ i \in DOMAIN cRecv[k] /\ cRecv'[k][i] = cRecv[k][i]
                                       \/ i = Len(cRecv[k]) + 1 /\ cRecv'[k][i] = p
    <3>1. cRecv[k] \in Seq(Packets) /\ p \in Packets
      BY <1>2, <1>3, <2>1
    <3>2. /\ Len(Append(cRecv[k], p)) = Len(cRecv[k]) + 1
          /\ \A i \in DOMAIN Append(cRecv[k], p) :
               \/ i \in DOMAIN cRecv[k] /\ Append(cRecv[k], p)[i] = cRecv[k][i]
               \/ i = Len(cRecv[k]) + 1 /\ Append(cRecv[k], p)[i] = p
      BY <3>1, AppendAll
    <3> QED  BY <2>4, <3>2, Zenon
  <2>7. Back(k)' = p.n /\ \A l \in Callers \ {k} : Back(l)' = Back(l)
    <3>1. Back(k)' = Handled(k) + (Len(cRecv[k]) + 1) /\ Back(k) = Handled(k) + Len(cRecv[k])
      BY <1>6, <2>1, <2>6 DEF Back
    <3>2. Back(k)' = p.n
      BY <1>6, <2>1, <2>5, <3>1
    <3>3. \A l \in Callers \ {k} : Back(l)' = Back(l)
      BY <1>6, <2>4 DEF Back
    <3> QED  BY <3>2, <3>3
  <2>8. Received'
    <3>1. \A l \in Callers : Back(l)' <= sent'[l]
      BY <1>0, <1>6, <2>2, <2>7 DEF Received
    <3>2. \A i \in DOMAIN cRecv'[k] : cRecv'[k][i].from = k /\ cRecv'[k][i].n = Handled(k) + i
      <4>1. p.from = k /\ p.n = Handled(k) + (Len(cRecv[k]) + 1)
        BY <1>6, <2>1, <2>5 DEF Back
      <4> QED  BY <1>0, <2>1, <2>6, <4>1 DEF Received
    <3>3. \A l \in Callers \ {k} : \A i \in DOMAIN cRecv'[l] :
            cRecv'[l][i].from = l /\ cRecv'[l][i].n = Handled(l) + i
      BY <1>0, <2>4 DEF Received
    <3> QED  BY <1>6, <3>1, <3>2, <3>3 DEF Received
  <2>9. AllFresh'
    <3>1. \A q \in Packets : Fresh(q) /\ Earlier(p, q) => FreshNext(q)
      <4> SUFFICES ASSUME NEW q \in Packets, Fresh(q), Earlier(p, q), q.kind # "new"
                   PROVE  /\ q.kind = "req" /\ q.ch = newId'[q.from] /\ Back(q.from)' < q.n
                          /\ q.n <= sent'[q.from]
        BY DEF FreshNext, Back, Handled
      <4>1. /\ q.from \in Callers /\ q.kind = "req" /\ q.ch = newId[q.from] /\ Back(q.from) < q.n
            /\ q.n <= sent[q.from]
        BY <1>0, FreshOwner DEF Fresh
      <4>2. q.from = k => p.n < q.n
        BY <1>15 DEF Earlier
      <4> QED  BY <1>1, <1>6, <2>7, <4>1, <4>2
    <3> QED  BY <1>13, <3>1, AllFreshNext
  <2>10. Covered'
    <3> SUFFICES ASSUME NEW l \in Callers, NEW m \in Nat, Back(l)' < m, m <= sent'[l]
                 PROVE  \/ In(s2c', l, m) \/ In(c2s', l, m)
                        \/ \E id \in DOMAIN sChannels' : In(sChannels'[id], l, m)
      BY CoveredNext
    <3>1. Back(l) < m /\ (l = k => p.n # m)
      BY <1>6, <2>1, <2>2, <2>7
    <3>2. OnTheWay(l, m)
      BY <1>0, <1>6, <3>1 DEF Covered
    <3> QED  BY <1>1, <1>12, <3>1, <3>2 DEF OnTheWay
  <2> QED  BY <1>0, <1>1, <1>7, <1>10, <2>4, <2>8, <2>9, <2>10 DEF TidyInv
<1> QED  BY <1>14, <1>15

\* Serve: the answer leaves as the first packet of its queue, so it is behind
\* the answers given and ahead of the requests of its channel; other queues
\* hold packets of other channels.
LEMMA AnswerTidy ==
  ASSUME Types, Used, ~wrapped, Queue, TidyInv,
         UNCHANGED <<pc, newId, c2s, cRecv, sent, uncompleted>>, UNCHANGED <<open, mixed>>,
         NEW id \in DOMAIN sChannels, sChannels[id] # <<>>, NEW r \in Packets,
         s2c' = Append(s2c, r),
         NEW p \in Packets, p = sChannels[id][1],
         \/ p.kind = "new" /\ r.kind = "new"
         \/ p.kind = "req" /\ r.kind = "req" /\ r.ch = p.ch /\ r.from = p.from /\ r.n = p.n,
         DOMAIN sChannels \subseteq DOMAIN sChannels', sChannels'[id] = Tail(sChannels[id]),
         \A n \in DOMAIN sChannels \ {id} : sChannels'[n] = sChannels[n],
         \A n \in DOMAIN sChannels' \ DOMAIN sChannels : sChannels'[n] = <<>>
  PROVE  TidyInv'
<1>0. Outstanding /\ Received /\ AllFresh /\ InOrder /\ Covered /\ open /\ ~mixed
  BY DEF TidyInv
<1>1. UNCHANGED <<pc, newId, c2s, cRecv, sent, uncompleted>> /\ UNCHANGED <<open, mixed>>
  OBVIOUS
<1> DEFINE t == Tail(sChannels[id])
<1>2. /\ s2c \in Seq(Packets) /\ sChannels[id] \in Seq(Packets)
  BY DEF Types
<1>3. /\ \A i \in DOMAIN t : i + 1 \in DOMAIN sChannels[id] /\ t[i] = sChannels[id][i + 1]
      /\ 1 \in DOMAIN sChannels[id]
  BY <1>2, TailAll
<1> HIDE DEF t
<1>4. \A i \in DOMAIN s2c' : (i \in DOMAIN s2c /\ s2c'[i] = s2c[i]) \/ s2c'[i] = r
  BY <1>2, AppendAll
<1>5. \A n \in DOMAIN sChannels' : \/ n = id /\ sChannels'[n] = t
                                   \/ n # id /\ n \in DOMAIN sChannels /\ sChannels'[n] = sChannels[n]
                                   \/ sChannels'[n] = <<>>
  BY DEF t
<1>6. \A l \in Callers : /\ Handled(l)' = Handled(l) /\ Back(l)' = Back(l) /\ sent'[l] = sent[l]
                         /\ sent'[l] \in Nat /\ sent[l] <= sent'[l]
  BY <1>1 DEF Handled, Back, Types
<1>7. Outstanding' /\ Received'
  BY <1>0, <1>1, <1>6 DEF Outstanding, Received
<1>8. AllFresh'
  <2>1. \A q \in Packets : Fresh(q) => FreshNext(q)
    BY <1>1, <1>6, StaysFresh
  <2>2. FreshNext(p)
    BY <1>0, <1>3, <2>1 DEF AllFresh
  <2>3. FreshNext(r)
    BY <2>2 DEF FreshNext
  <2>4. \A i \in DOMAIN s2c' : FreshNext(s2c'[i])
    BY <1>0, <1>4, <2>1, <2>3, AllPackets DEF AllFresh
  <2>5. \A i \in DOMAIN c2s' : FreshNext(c2s'[i])
    BY <1>0, <1>1, <2>1, AllPackets DEF AllFresh
  <2>6. \A n \in DOMAIN sChannels : \A i \in DOMAIN sChannels[n] : FreshNext(sChannels[n][i])
    BY <1>0, <2>1, AllPackets DEF AllFresh
  <2>7. \A n \in DOMAIN sChannels' : \A i \in DOMAIN sChannels'[n] : FreshNext(sChannels'[n][i])
    BY <1>3, <1>5, <2>6
  <2> QED  BY <2>4, <2>5, <2>7, AllFreshNext
<1>9. InOrder'
  <2>1. /\ Ordered(s2c) /\ Ordered(c2s) /\ Before(s2c, c2s)
        /\ \A n \in DOMAIN sChannels :
             Ordered(sChannels[n]) /\ Before(s2c, sChannels[n]) /\ Before(sChannels[n], c2s)
    BY <1>0 DEF InOrder
  <2>2. /\ \A q : Earlier(q, p) => Earlier(q, r)
        /\ \A q : Earlier(p, q) => Earlier(r, q)
    BY DEF Earlier
  <2>3. /\ \A i \in DOMAIN s2c : Earlier(s2c[i], r)
        /\ \A i \in DOMAIN c2s : Earlier(r, c2s[i])
    BY <1>3, <2>1, <2>2 DEF Before
  <2>4. /\ Ordered(t) /\ (\A j \in DOMAIN t : Earlier(p, t[j]))
        /\ Before(s2c, t) /\ Before(t, c2s)
    BY <1>2, <2>1, TailOrder DEF t
  <2>5. ASSUME NEW n \in DOMAIN sChannels, n # id, NEW j \in DOMAIN sChannels[n]
        PROVE  Earlier(r, sChannels[n][j])
    <3> DEFINE q == sChannels[n][j]
    <3>1. Fresh(p) /\ Fresh(q) /\ p.ch = id /\ q.ch = n
      BY <1>0, <1>3 DEF AllFresh, Used
    <3> HIDE DEF q
    <3>2. Earlier(p, q)
      BY <2>5, <3>1 DEF Earlier, Fresh
    <3> QED  BY <2>2, <3>2 DEF q
  <2>6. Ordered(s2c') /\ Before(s2c', c2s)
    BY <1>2, <2>1, <2>3, AppendOrder
  <2>7. Before(s2c', t)
    BY <1>2, <2>2, <2>4, AppendOrder
  <2>8. \A n \in DOMAIN sChannels : n # id => Before(s2c', sChannels[n])
    BY <1>2, <2>1, <2>5, AppendOrder
  <2>9. Ordered(<<>>) /\ Before(s2c', <<>>) /\ Before(<<>>, c2s)
    BY DEF Ordered, Before
  <2>10. \A n \in DOMAIN sChannels' : /\ Ordered(sChannels'[n]) /\ Before(s2c', sChannels'[n])
                                      /\ Before(sChannels'[n], c2s)
    BY <1>5, <2>1, <2>4, <2>7, <2>8, <2>9
  <2> QED  BY <1>1, <2>1, <2>6, <2>10, OrderNext
<1>10. Covered'
  <2>1. /\ \A l, m : In(s2c, l, m) => In(s2c', l, m)
        /\ \A l, m : r.kind # "new" /\ r.from = l /\ r.n = m => In(s2c', l, m)
    BY <1>2, AppendOrder
  <2>2. \A l, m : In(sChannels[id], l, m) => In(sChannels'[id], l, m) \/ In(s2c', l, m)
    <3>1. \A l, m : In(sChannels[id], l, m) => \/ In(t, l, m)
                                               \/ p.kind # "new" /\ p.from = l /\ p.n = m
      BY <1>2, TailOrder DEF t
    <3> QED  BY <2>1, <3>1 DEF t
  <2>3. \A n \in DOMAIN sChannels : \A l, m : In(sChannels[n], l, m) =>
          n \in DOMAIN sChannels' /\ (In(sChannels'[n], l, m) \/ In(s2c', l, m))
    BY <2>2
  <2>4. \A l \in Callers : \A m \in Nat : Back(l)' < m /\ m <= sent'[l] => OnTheWay(l, m)
    BY <1>0, <1>6 DEF Covered
  <2>5. \A l, m : OnTheWay(l, m) => \/ In(s2c', l, m) \/ In(c2s', l, m)
                                    \/ \E n \in DOMAIN sChannels' : In(sChannels'[n], l, m)
    BY <1>1, <2>1, <2>3 DEF OnTheWay
  <2> QED  BY <2>4, <2>5, CoveredNext
<1> QED  BY <1>0, <1>1, <1>7, <1>8, <1>9, <1>10 DEF TidyInv

\* No request is a delete, and the queue of a new channel is empty.
LEMMA ServeTidy ==
  ASSUME IInv, Queue, TidyInv, TidyUse, ~wrapped', Serve
  PROVE  TidyInv'
<1>0. /\ Types /\ ServerIds /\ Used /\ NotFreed /\ ~wrapped /\ ~deleted
  BY DEF IInv, TidyUse
<1>1. UNCHANGED <<pc, newId, c2s, cRecv, sent, uncompleted>> /\ UNCHANGED <<open, mixed>>
  BY DEF Serve, openVars, queueVars
<1>2. PICK id \in DOMAIN sChannels :
        /\ sChannels[id] # <<>>
        /\ \/ ServeNew(id, Head(sChannels[id])) \/ ServeDelete(id, Head(sChannels[id]))
           \/ ServeRequest(id, Head(sChannels[id]))
  BY DEF Serve
<1>3. /\ Head(sChannels[id]) \in Packets /\ 1 \in DOMAIN sChannels[id]
      /\ Head(sChannels[id]) = sChannels[id][1]
  BY <1>0, <1>2, Served
<1>4. PICK p \in Packets : p = Head(sChannels[id])
  BY <1>3
<1>5. p = sChannels[id][1] /\ 1 \in DOMAIN sChannels[id]
  BY <1>3, <1>4
<1> DEFINE t == Tail(sChannels[id])
           rest == [sChannels EXCEPT ![id] = Tail(@)]
<1>6. /\ DOMAIN rest = DOMAIN sChannels /\ rest[id] = t
      /\ \A n \in DOMAIN sChannels \ {id} : rest[n] = sChannels[n]
  OBVIOUS
<1> HIDE DEF t, rest
<1>7. CASE ServeNew(id, p)
  <2>1. PICK new \in Ids :
          /\ MakeNewChannelId(sFree, sMax, new, sFree', sMax')
          /\ sChannels' = With(rest, new, IF new \in DOMAIN rest THEN rest[new] ELSE <<>>)
          /\ s2c' = Append(s2c, Packet(p.ch, "new", p.from, new))
    BY <1>7 DEF ServeNew, rest
  <2>2. p.kind = "new" /\ ~Exhausted(sFree, sMax)
    BY <1>7 DEF ServeNew
  <2>3. DOMAIN sChannels = 0 .. sMax /\ sFree = {} /\ sMax \in Nat /\ MaxUint32 \in Nat
    BY <1>0, Numbers DEF ServerIds, NotFreed
  <2>4. new = sMax + 1
    BY <2>1, <2>2, <2>3 DEF MakeNewChannelId, Exhausted
  <2>5. new \notin DOMAIN sChannels
    BY <2>3, <2>4
  <2>6. sChannels' = With(rest, new, <<>>)
    BY <1>6, <2>1, <2>5
  <2>7. /\ DOMAIN With(rest, new, <<>>) = DOMAIN rest \cup {new}
        /\ With(rest, new, <<>>)[new] = <<>>
        /\ \A n \in DOMAIN rest \ {new} : With(rest, new, <<>>)[n] = rest[n]
    BY DEF With
  <2>8. /\ DOMAIN sChannels' = DOMAIN rest \cup {new} /\ sChannels'[new] = <<>>
        /\ \A n \in DOMAIN rest \ {new} : sChannels'[n] = rest[n]
    BY <2>6, <2>7, Zenon
  <2>9. /\ DOMAIN sChannels \subseteq DOMAIN sChannels' /\ sChannels'[id] = t
        /\ \A n \in DOMAIN sChannels \ {id} : sChannels'[n] = sChannels[n]
        /\ \A n \in DOMAIN sChannels' \ DOMAIN sChannels : sChannels'[n] = <<>>
    BY <1>6, <2>5, <2>8
  <2>10. PICK r \in Packets : r = Packet(p.ch, "new", p.from, new)
    <3>1. p.ch \in Ids /\ p.from \in Callers /\ new \in Nat
      BY <2>3, <2>4 DEF Packets
    <3>2. Packet(p.ch, "new", p.from, new) \in Packets
      BY <3>1 DEF Packet, Packets
    <3> QED  BY <3>2
  <2>11. s2c' = Append(s2c, r) /\ r.kind = "new"
    BY <2>1, <2>10 DEF Packet
  <2> QED  BY <1>0, <1>1, <1>2, <1>5, <2>2, <2>9, <2>11, AnswerTidy DEF t
<1>8. CASE ServeDelete(id, p)
  <2>1. p.kind # "delete"
    BY <1>0, <1>5 DEF NotFreed
  <2> QED  BY <1>8, <2>1 DEF ServeDelete
<1>9. CASE ServeRequest(id, p)
  <2>1. /\ p.kind = "req" /\ sChannels' = rest
        /\ s2c' = Append(s2c, Packet(p.ch, "req", p.from, p.n))
    BY <1>9 DEF ServeRequest, rest
  <2>2. /\ DOMAIN sChannels \subseteq DOMAIN sChannels' /\ sChannels'[id] = t
        /\ \A n \in DOMAIN sChannels \ {id} : sChannels'[n] = sChannels[n]
        /\ \A n \in DOMAIN sChannels' \ DOMAIN sChannels : sChannels'[n] = <<>>
    BY <1>6, <2>1
  <2>3. PICK r \in Packets : r = Packet(p.ch, "req", p.from, p.n)
    BY DEF Packet, Packets
  <2>4. s2c' = Append(s2c, r) /\ r.kind = "req" /\ r.ch = p.ch /\ r.from = p.from /\ r.n = p.n
    BY <2>1, <2>3 DEF Packet
  <2> QED  BY <1>0, <1>1, <1>2, <1>5, <2>1, <2>2, <2>4, AnswerTidy DEF t
<1> QED  BY <1>2, <1>4, <1>7, <1>8, <1>9

\* Nothing is sent yet.
LEMMA TidyInit == Init => TInv
<1> SUFFICES ASSUME Init PROVE Queue /\ TidyInv
  BY InitHolds DEF TInv
<1>1. /\ \A k \in Callers : sent[k] = 0 /\ uncompleted[k] = <<>> /\ cRecv[k] = <<>>
      /\ uncompleted \in [Callers -> Seq(Nat)] /\ open /\ ~mixed
      /\ c2s = <<>> /\ s2c = <<>> /\ DOMAIN sChannels = {0} /\ sChannels[0] = <<>>
  BY DEF Init
<1>2. \A k \in Callers : Handled(k) = 0 /\ Back(k) = 0
  BY <1>1 DEF Handled, Back
<1>3. Queue
  BY <1>1, <1>2 DEF Queue
<1>4. Outstanding /\ Received
  BY <1>1, <1>2 DEF Outstanding, Received
<1>5. AllFresh
  BY <1>1 DEF AllFresh
<1>6. InOrder
  BY <1>1 DEF InOrder, Ordered, Before
<1>7. Covered
  BY <1>1, <1>2 DEF Covered
<1> QED  BY <1>1, <1>3, <1>4, <1>5, <1>6, <1>7 DEF TidyInv

\* The steps that send, read, serve and handle nothing: a caller they move
\* has nothing outstanding.
LEMMA QuietTidy ==
  ASSUME TInv, UNCHANGED <<sent, uncompleted, c2s, sChannels, s2c>>,
         UNCHANGED <<open, mixed, deleted>>, wrapped => wrapped', untidy => untidy',
         \A k \in Callers : cRecv'[k] = cRecv[k],
         ~untidy' /\ Outstanding =>
           \A k \in Callers : uncompleted[k] # <<>> => newId'[k] = newId[k] /\ pc'[k] = pc[k]
  PROVE  Queue' /\ (TidyUse' => TidyInv')
<1>1. IInv /\ Types /\ Queue /\ (TidyUse => TidyInv)
  BY DEF TInv, IInv
<1>2. Queue'
  BY <1>1 DEF Queue, Handled
<1>3. ASSUME TidyUse' PROVE TidyInv'
  <2>1. ~untidy' /\ TidyUse
    BY <1>3 DEF TidyUse
  <2>2. TidyInv /\ Outstanding
    BY <1>1, <2>1 DEF TidyInv
  <2> QED  BY <1>1, <2>1, <2>2, TidyKept
<1> QED  BY <1>2, <1>3

\* A request keeps the queue and the numbers in step, whatever it is, ...
LEMMA SendQueue ==
  ASSUME Types, Queue, NEW k \in Callers, NEW kind \in {"req", "delete"}, Send(k, kind)
  PROVE  Queue'
<1>1. sent \in [Callers -> Nat] /\ uncompleted \in [Callers -> Seq(Nat)]
  BY DEF Types, Queue
<1>2. /\ sent' = [sent EXCEPT ![k] = @ + 1]
      /\ uncompleted' = [uncompleted EXCEPT ![k] = Append(@, sent'[k])]
  BY DEF Send
<1>3. sent'[k] = sent[k] + 1 /\ sent[k] + 1 \in Nat /\ uncompleted[k] \in Seq(Nat)
  BY <1>1, <1>2
<1>4. Append(uncompleted[k], sent[k] + 1) \in Seq(Nat)
  BY <1>3
<1>5. /\ uncompleted' \in [Callers -> Seq(Nat)]
      /\ uncompleted'[k] = Append(uncompleted[k], sent[k] + 1)
      /\ \A l \in Callers \ {k} : sent'[l] = sent[l] /\ uncompleted'[l] = uncompleted[l]
  BY <1>1, <1>2, <1>3, <1>4
<1> QED  BY <1>3, <1>5, QueueKept

\* ... and so does a response.
LEMMA HandleQueue ==
  ASSUME Types, Queue, NEW k \in Callers, Handle(k)
  PROVE  Queue'
<1>1. /\ uncompleted \in [Callers -> Seq(Nat)] /\ uncompleted[k] \in Seq(Nat) /\ UNCHANGED sent
  BY DEF Queue, Handle
<1>2. CASE uncompleted[k] # <<>>
  <2>1. uncompleted' = [uncompleted EXCEPT ![k] = Tail(@)]
    BY <1>2 DEF Handle
  <2>2. Tail(uncompleted[k]) \in Seq(Nat)
    BY <1>1, <1>2
  <2>3. /\ uncompleted' \in [Callers -> Seq(Nat)] /\ uncompleted'[k] = Tail(uncompleted[k])
        /\ \A l \in Callers \ {k} : uncompleted'[l] = uncompleted[l]
    BY <1>1, <2>1, <2>2
  <2> QED  BY <1>1, <1>2, <2>3, QueueKept
<1>3. CASE uncompleted[k] = <<>>
  <2>1. UNCHANGED uncompleted
    BY <1>3 DEF Handle
  <2> QED  BY <1>1, <2>1 DEF Queue, Handled
<1> QED  BY <1>2, <1>3

\* Every step keeps the invariant.
LEMMA TidyNext == TInv /\ [Next]_vars => TInv'
<1> SUFFICES ASSUME TInv, [Next]_vars PROVE Queue' /\ (TidyUse' => TidyInv')
  <2>1. TInv /\ [Next]_vars => IInv'
    BY NextKeeps DEF TInv
  <2> QED  BY <2>1 DEF TInv
<1>0. IInv /\ Types /\ Queue /\ (TidyUse => TidyInv) /\ pc \in [Callers -> Steps]
      /\ newId \in [Callers -> Ids]
  BY DEF TInv, IInv, Types
<1>1. CASE UNCHANGED vars
  <2>1. /\ UNCHANGED <<sent, uncompleted, c2s, sChannels, s2c, cRecv, newId, pc>>
        /\ UNCHANGED <<open, mixed, deleted, wrapped, untidy>>
    BY <1>1 DEF vars, openVars, sIdVars, queueVars, historyVars
  <2> QED  BY <2>1, QuietTidy
<1>2. ASSUME NEW k \in Callers,
             AskPush(k) \/ AskTimeout(k) \/ AskReceive(k) \/ CloseSetErr(k) \/ MakeId(k) \/ Register(k)
      PROVE  Queue' /\ (TidyUse' => TidyInv')
  <2>1. /\ UNCHANGED <<sent, uncompleted, c2s, sChannels, s2c, cRecv>>
        /\ UNCHANGED <<open, mixed, deleted, untidy>> /\ (wrapped => wrapped') /\ pc[k] # "open"
    <3>1. CASE MakeId(k)
      <4>1. wrapped' = (wrapped \/ Exhausted(cFree, cMax))
        BY <3>1 DEF MakeId
      <4>2. wrapped => wrapped'
        BY <4>1, Zenon
      <4> QED  BY <3>1, <4>2 DEF MakeId, sIdVars, queueVars
    <3>2. CASE AskPush(k) \/ AskTimeout(k) \/ AskReceive(k) \/ CloseSetErr(k) \/ Register(k)
      BY <3>2 DEF AskPush, AskTimeout, AskReceive, CloseSetErr, Register,
                  sIdVars, queueVars, historyVars
    <3> QED  BY <1>2, <3>1, <3>2
  <2>2. \A l \in Callers \ {k} : newId'[l] = newId[l] /\ pc'[l] = pc[l]
    BY <1>0, <1>2 DEF AskPush, AskTimeout, AskReceive, CloseSetErr, MakeId, Register, openVars
  <2>3. Outstanding => uncompleted[k] = <<>>
    BY <2>1 DEF Outstanding
  <2> QED  BY <2>1, <2>2, <2>3, QuietTidy
<1>3. ASSUME NEW k \in Callers, CloseRemove(k) PROVE Queue' /\ (TidyUse' => TidyInv')
  <2>1. /\ UNCHANGED <<sent, uncompleted, c2s, sChannels, s2c, cRecv, newId>>
        /\ UNCHANGED <<open, mixed, deleted, wrapped>> /\ pc' = [pc EXCEPT ![k] = "closing"]
        /\ untidy' = (untidy \/ uncompleted[k] # <<>>)
    BY <1>3 DEF CloseRemove, FreeId, openVars, sIdVars, queueVars
  <2>2. (untidy => untidy') /\ (~untidy' => uncompleted[k] = <<>>)
    BY <2>1, Zenon
  <2>3. \A l \in Callers \ {k} : pc'[l] = pc[l]
    BY <1>0, <2>1
  <2> QED  BY <2>1, <2>2, <2>3, QuietTidy
<1>4. CASE SysHandle
  <2>1. /\ UNCHANGED <<sent, uncompleted, c2s, sChannels, s2c, newId, pc>>
        /\ UNCHANGED <<open, mixed, deleted, untidy, wrapped>>
        /\ cRecv' = [cRecv EXCEPT ![Sys] = Tail(@)]
    BY <1>4 DEF SysHandle, sIdVars
  <2>2. \A l \in Callers : cRecv'[l] = cRecv[l]
    BY <1>0, <2>1, ChannelsAssumption DEF Types
  <2> QED  BY <2>1, <2>2, QuietTidy
<1>5. ASSUME NEW k \in Callers, AskSend(k) PROVE Queue' /\ (TidyUse' => TidyInv')
  <2>1. UNCHANGED <<sent, uncompleted, deleted, untidy, wrapped>>
    BY <1>5 DEF AskSend, queueVars, historyVars
  <2>2. Queue' /\ (TidyUse' => TidyUse)
    BY <1>0, <2>1 DEF Queue, Handled, TidyUse
  <2> QED  BY <1>0, <1>5, <2>2, AskSendTidy
<1>6. ASSUME NEW k \in Callers, NEW kind \in {"req", "delete"}, Send(k, kind)
      PROVE  Queue' /\ (TidyUse' => TidyInv')
  <2>1. Queue'
    BY <1>0, <1>6, SendQueue
  <2>2. ASSUME TidyUse' PROVE TidyUse /\ kind = "req" /\ pc[k] = "open"
    <3>1. ~deleted' /\ ~untidy' /\ ~wrapped' /\ UNCHANGED wrapped
          /\ deleted' = (deleted \/ kind = "delete") /\ untidy' = (untidy \/ pc[k] = "closing")
          /\ pc[k] \in {"open", "closing"}
      BY <1>6, <2>2 DEF Send, TidyUse
    <3> QED  BY <3>1 DEF TidyUse
  <2> QED  BY <1>0, <1>6, <2>1, <2>2, SendTidy
<1>7. ASSUME NEW k \in Callers, Handle(k) PROVE Queue' /\ (TidyUse' => TidyInv')
  <2>1. Queue'
    BY <1>0, <1>7, HandleQueue
  <2>2. TidyUse' => TidyUse
    BY <1>7 DEF Handle, TidyUse
  <2> QED  BY <1>0, <1>7, <2>1, <2>2, HandleTidy
<1>8. CASE ClientRead
  <2>1. UNCHANGED <<sent, uncompleted, deleted, untidy, wrapped>>
    BY <1>8 DEF ClientRead, queueVars, historyVars
  <2>2. Queue' /\ (TidyUse' => TidyUse)
    BY <1>0, <2>1 DEF Queue, Handled, TidyUse
  <2> QED  BY <1>0, <1>8, <2>2, ClientReadTidy
<1>9. CASE ServerRead
  <2>1. UNCHANGED <<sent, uncompleted, deleted, untidy, wrapped>>
    BY <1>9 DEF ServerRead, queueVars, historyVars
  <2>2. Queue' /\ (TidyUse' => TidyUse)
    BY <1>0, <2>1 DEF Queue, Handled, TidyUse
  <2> QED  BY <1>0, <1>9, <2>2, ServerReadTidy
<1>10. CASE Serve
  <2>1. UNCHANGED <<sent, uncompleted, deleted, untidy>>
    BY <1>10 DEF Serve, queueVars
  <2>2. wrapped => wrapped'
    BY <1>10 DEF Serve, ServeNew, ServeDelete, ServeRequest
  <2>3. Queue' /\ (TidyUse' => TidyUse /\ ~wrapped')
    BY <1>0, <2>1, <2>2 DEF Queue, Handled, TidyUse
  <2> QED  BY <1>0, <1>10, <2>3, ServeTidy
<1> QED
  BY <1>1, <1>2, <1>3, <1>4, <1>5, <1>6, <1>7, <1>8, <1>9, <1>10 DEF Next, Open

\* The invariant of tidy use holds in every reachable state.
THEOREM TidyInvariance == Spec => []TInv
BY TidyInit, TidyNext, PTL DEF Spec

\* If channels are closed only when nothing is outstanding on them, ids are
\* reused safely (TidyUseIsSafe): the read loops meet no unknown id, and
\* handleClientLoop pairs each response with the request it answers.
THEOREM TidyUseKeepsPairs == Spec => []TidyUseIsSafe
<1>1. TInv => TidyUseIsSafe
  BY DEF TInv, TidyUse, TidyInv, TidyUseIsSafe
<1> QED  BY <1>1, TidyInvariance, PTL
-----------------------------------------------------------------------------
(* The queue of channel 0, and the types that depend on it.                *)

\* Channel 0 of the client is still the one that Channels has.
SysLink == 0 \in DOMAIN cChannels /\ cChannels[0] = Sys

\* The packets of channel 0 in a queue, and those the server has yet to serve.
OnSys(q) == {i \in DOMAIN q : q[i].ch = 0}
SysQueued == IF 0 \in DOMAIN sChannels THEN Len(sChannels[0]) ELSE 0

\* The calls that wait in the queue of channel 0 and have not sent yet.
Pushed == {k \in Callers : pc[k] = "pushed"}

\* The types that Types leaves out.
QueueTypes ==
  /\ sysQueue \in Seq(Callers)
  /\ uncompleted \in [Callers -> Seq(1 .. MaxRequests)]
  /\ sent \in [Callers -> 0 .. MaxRequests]
  /\ open \in BOOLEAN /\ untidy \in BOOLEAN /\ mixed \in BOOLEAN

\* An answer is one id; so is what every packet channel 0 received brings.
AnswerTypes ==
  /\ \A k \in Callers : answer[k] \in Seq(Ids) /\ Len(answer[k]) <= 1
  /\ \A i \in DOMAIN cRecv[Sys] : cRecv[Sys][i].n \in Ids

\* handleClientLoop of channel 0 finds a call in its queue for every packet.
SysFindsCall ==
  /\ IsFiniteSet(Pushed)
  /\ Len(cRecv[Sys]) <= Len(sysQueue)
  /\ \A i \in DOMAIN cChannels : cChannels[i] = Sys => i = 0
  /\ \A id \in DOMAIN sChannels : \A i \in DOMAIN sChannels[id] : sChannels[id][i].ch = id

\* Until an id 0 has been made and registered, when ids are exhausted, only
\* questions and answers about new channels are on their way on channel 0,
\* and each has its call in the queue.
SysOnly ==
  /\ \A k \in Callers : pc[k] \in {"open", "closing"} => newId[k] # 0
  /\ \A i \in OnSys(c2s) : c2s[i].kind = "new"
  /\ \A i \in OnSys(s2c) : s2c[i].n \in Ids
  /\ 0 \in DOMAIN sChannels => \A i \in DOMAIN sChannels[0] : sChannels[0][i].kind = "new"
SysCounted ==
  Cardinality(OnSys(c2s)) + SysQueued + Cardinality(OnSys(s2c)) + Len(cRecv[Sys])
    + Cardinality(Pushed) <= Len(sysQueue)

SysInv ==
  /\ QueueTypes /\ AnswerTypes /\ SysFindsCall
  /\ SysLink => SysOnly /\ SysCounted

\* They are finitely many.
LEMMA OnSysFinite ==
  ASSUME NEW q \in Seq(Packets)
  PROVE  IsFiniteSet(OnSys(q)) /\ Cardinality(OnSys(q)) \in Nat
<1>1. Len(q) \in Nat /\ OnSys(q) \in SUBSET (1 .. Len(q))
  BY DEF OnSys
<1>2. IsFiniteSet(1 .. Len(q))
  BY <1>1, FS_Interval
<1>3. IsFiniteSet(OnSys(q))
  BY <1>1, <1>2, FS_Subset
<1> QED  BY <1>3, FS_CardinalityType

\* One more packet in a queue.
LEMMA OnSysAppend ==
  ASSUME NEW q \in Seq(Packets), NEW p \in Packets
  PROVE  /\ IsFiniteSet(OnSys(q)) /\ Cardinality(OnSys(q)) \in Nat
         /\ Cardinality(OnSys(Append(q, p))) =
              IF p.ch = 0 THEN Cardinality(OnSys(q)) + 1 ELSE Cardinality(OnSys(q))
         /\ \A i \in OnSys(Append(q, p)) :
              \/ i \in OnSys(q) /\ Append(q, p)[i] = q[i]
              \/ p.ch = 0 /\ Append(q, p)[i] = p
<1> DEFINE r == Append(q, p)
           n == Len(q)
<1>1. /\ DOMAIN q = 1 .. n /\ n \in Nat /\ DOMAIN r = 1 .. n + 1 /\ r[n + 1] = p
      /\ \A i \in 1 .. n : r[i] = q[i]
  OBVIOUS
<1> HIDE DEF r, n
<1>2. IsFiniteSet(OnSys(q)) /\ n + 1 \notin OnSys(q)
  <2>1. OnSys(q) \in SUBSET (1 .. n) /\ n + 1 \notin 1 .. n
    BY <1>1 DEF OnSys
  <2> QED  BY <2>1, OnSysFinite
<1>3. \A i \in 1 .. n + 1 : i \in 1 .. n \/ i = n + 1
  BY <1>1
<1>4. 1 .. n \subseteq 1 .. n + 1 /\ n + 1 \in 1 .. n + 1
  BY <1>1
<1>5. OnSys(r) = IF p.ch = 0 THEN OnSys(q) \cup {n + 1} ELSE OnSys(q)
  BY <1>1, <1>3, <1>4 DEF OnSys
<1>6. Cardinality(OnSys(q) \cup {n + 1}) = Cardinality(OnSys(q)) + 1
  BY <1>2, FS_AddElement
<1>7. Cardinality(OnSys(q)) \in Nat
  BY <1>2, FS_CardinalityType
<1>8. \A i \in OnSys(r) : (i \in OnSys(q) /\ r[i] = q[i]) \/ (p.ch = 0 /\ r[i] = p)
  BY <1>1, <1>3 DEF OnSys
<1> QED  BY <1>2, <1>5, <1>6, <1>7, <1>8 DEF r

\* And one less.
LEMMA OnSysTail ==
  ASSUME NEW q \in Seq(Packets), q # <<>>
  PROVE  /\ Cardinality(OnSys(q)) \in Nat /\ Cardinality(OnSys(Tail(q))) \in Nat
         /\ Cardinality(OnSys(q)) =
              IF Head(q).ch = 0 THEN Cardinality(OnSys(Tail(q))) + 1
                                ELSE Cardinality(OnSys(Tail(q)))
         /\ \A i \in OnSys(Tail(q)) : \E j \in OnSys(q) : Tail(q)[i] = q[j]
<1> DEFINE r == Tail(q)
           n == Len(q)
<1>1. /\ DOMAIN q = 1 .. n /\ n \in Nat \ {0} /\ DOMAIN r = 1 .. n - 1 /\ Head(q) = q[1]
      /\ \A i \in 1 .. n - 1 : r[i] = q[i + 1]
  OBVIOUS
<1> HIDE DEF r, n
<1>2. /\ OnSys(q) \in SUBSET (1 .. n) /\ OnSys(r) \in SUBSET (1 .. n - 1)
      /\ 1 \in 1 .. n
  BY <1>1 DEF OnSys
<1>3. IsFiniteSet(OnSys(q)) /\ IsFiniteSet(OnSys(r))
  <2>1. r \in Seq(Packets)
    BY DEF r
  <2> QED  BY <2>1, OnSysFinite
<1>4. Cardinality(OnSys(q)) \in Nat /\ Cardinality(OnSys(r)) \in Nat
  BY <1>3, FS_CardinalityType
<1> DEFINE S == OnSys(r)
           T == OnSys(q) \ {1}
           f == [i \in S |-> i + 1]
<1>5. \A i \in S : i \in 1 .. n - 1 /\ i + 1 \in T
  <2>1. \A i \in 1 .. n - 1 : i + 1 \in 1 .. n /\ i + 1 # 1
    BY <1>1
  <2> QED  BY <1>1, <2>1 DEF OnSys
<1>6. \A j \in T : j - 1 \in S /\ (j - 1) + 1 = j
  <2>1. \A j \in 1 .. n : j # 1 => j - 1 \in 1 .. n - 1 /\ (j - 1) + 1 = j
    BY <1>1
  <2>2. \A j \in T : j \in 1 .. n /\ j # 1 /\ q[j].ch = 0
    BY <1>1 DEF OnSys
  <2> QED  BY <1>1, <2>1, <2>2 DEF OnSys
<1> HIDE DEF S, T
<1>7. Cardinality(S) = Cardinality(T)
  <2>1. f \in [S -> T]
    BY <1>5
  <2>2. \A i, j \in S : f[i] = f[j] => i = j
    BY <1>5
  <2>3. \A j \in T : \E i \in S : f[i] = j
    BY <1>6
  <2>4. f \in Bijection(S, T)
    BY <2>1, <2>2, <2>3 DEF Bijection, Injection, Surjection, IsInjective
  <2>5. IsFiniteSet(S)
    BY <1>3 DEF S
  <2>6. ExistsBijection(S, T)
    BY <2>4 DEF ExistsBijection
  <2> QED  BY <2>5, <2>6, FS_Bijection
<1>8. Cardinality(T) = IF 1 \in OnSys(q) THEN Cardinality(OnSys(q)) - 1 ELSE Cardinality(OnSys(q))
  BY <1>3, FS_RemoveElement DEF T
<1>9. 1 \in OnSys(q) <=> Head(q).ch = 0
  BY <1>1, <1>2 DEF OnSys
<1>10. Cardinality(OnSys(q)) = IF Head(q).ch = 0 THEN Cardinality(OnSys(r)) + 1
                                                 ELSE Cardinality(OnSys(r))
  BY <1>4, <1>7, <1>8, <1>9 DEF S
<1>11. \A i \in OnSys(r) : \E j \in OnSys(q) : r[i] = q[j]
  BY <1>1, <1>5 DEF S, T
<1> QED  BY <1>4, <1>10, <1>11 DEF r

\* The numbers that SysCounted adds up.
LEMMA SysNumbers ==
  ASSUME Types, SysInv
  PROVE  /\ Cardinality(OnSys(c2s)) \in Nat /\ Cardinality(OnSys(s2c)) \in Nat
         /\ SysQueued \in Nat /\ Len(cRecv[Sys]) \in Nat /\ Cardinality(Pushed) \in Nat
         /\ Len(sysQueue) \in Nat /\ cRecv[Sys] \in Seq(Packets) /\ sysQueue \in Seq(Callers)
<1>1. /\ c2s \in Seq(Packets) /\ s2c \in Seq(Packets) /\ cRecv[Sys] \in Seq(Packets)
      /\ sysQueue \in Seq(Callers) /\ IsFiniteSet(Pushed)
      /\ \A i \in DOMAIN sChannels : sChannels[i] \in Seq(Packets)
  BY DEF Types, SysInv, QueueTypes, SysFindsCall
<1>2. \A q \in Seq(Packets) : Cardinality(OnSys(q)) \in Nat
  BY OnSysFinite
<1>3. Cardinality(Pushed) \in Nat
  BY <1>1, FS_CardinalityType
<1>4. SysQueued \in Nat
  BY <1>1 DEF SysQueued
<1> QED  BY <1>1, <1>2, <1>3, <1>4

\* The types of the queues.
LEMMA QueueTypesStep ==
  ASSUME Types, SysInv, [Next]_vars
  PROVE  QueueTypes'
<1>0. /\ sysQueue \in Seq(Callers) /\ uncompleted \in [Callers -> Seq(1 .. MaxRequests)]
      /\ sent \in [Callers -> 0 .. MaxRequests] /\ MaxRequests \in Nat
      /\ open \in BOOLEAN /\ untidy \in BOOLEAN /\ mixed \in BOOLEAN
  BY ChannelsAssumption DEF SysInv, QueueTypes
<1>1. sysQueue' \in Seq(Callers)
  <2>1. CASE UNCHANGED sysQueue
    BY <1>0, <2>1
  <2>2. ASSUME NEW k \in Callers, AskPush(k) PROVE sysQueue' \in Seq(Callers)
    BY <1>0, <2>2 DEF AskPush
  <2>3. CASE SysHandle
    <3>1. cRecv[Sys] # <<>> /\ cRecv[Sys] \in Seq(Packets) /\ sysQueue' = Tail(sysQueue)
      BY <2>3 DEF SysHandle, Types
    <3>2. Len(cRecv[Sys]) > 0 /\ Len(cRecv[Sys]) \in Nat /\ Len(sysQueue) \in Nat
          /\ Len(cRecv[Sys]) <= Len(sysQueue)
      BY <1>0, <3>1 DEF SysInv, SysFindsCall
    <3>3. sysQueue # <<>>
      BY <3>2
    <3> QED  BY <1>0, <3>1, <3>3
  <2>4. ASSUME NEW k \in Callers,
               \/ AskSend(k) \/ AskTimeout(k) \/ AskReceive(k) \/ MakeId(k) \/ Register(k)
               \/ CloseRemove(k) \/ CloseSetErr(k) \/ Handle(k)
               \/ \E kind \in {"req", "delete"} : Send(k, kind)
        PROVE  UNCHANGED sysQueue
    BY <2>4 DEF AskSend, AskTimeout, AskReceive, MakeId, Register, CloseRemove, CloseSetErr,
                Handle, Send, queueVars
  <2>5. CASE ClientRead \/ ServerRead \/ Serve \/ UNCHANGED vars
    BY <2>1, <2>5 DEF ClientRead, ServerRead, Serve, vars, queueVars
  <2> QED  BY <2>1, <2>2, <2>3, <2>4, <2>5 DEF Next, Open
<1>2. uncompleted' \in [Callers -> Seq(1 .. MaxRequests)] /\ sent' \in [Callers -> 0 .. MaxRequests]
  <2>1. CASE UNCHANGED <<uncompleted, sent>>
    BY <1>0, <2>1
  <2>2. ASSUME NEW k \in Callers, NEW kind, Send(k, kind)
        PROVE  /\ uncompleted' \in [Callers -> Seq(1 .. MaxRequests)]
               /\ sent' \in [Callers -> 0 .. MaxRequests]
    <3>1. /\ sent[k] < MaxRequests /\ sent[k] \in 0 .. MaxRequests
          /\ sent' = [sent EXCEPT ![k] = sent[k] + 1]
          /\ uncompleted' = [uncompleted EXCEPT ![k] = Append(uncompleted[k], sent'[k])]
      BY <1>0, <2>2 DEF Send
    <3>2. sent[k] + 1 \in 1 .. MaxRequests /\ sent[k] + 1 \in 0 .. MaxRequests
      BY <1>0, <3>1
    <3>3. sent'[k] = sent[k] + 1 /\ sent' \in [Callers -> 0 .. MaxRequests]
      BY <1>0, <3>1, <3>2
    <3>4. Append(uncompleted[k], sent'[k]) \in Seq(1 .. MaxRequests)
      BY <1>0, <3>2, <3>3
    <3> QED  BY <1>0, <3>1, <3>3, <3>4
  <2>3. ASSUME NEW k \in Callers, Handle(k), ~UNCHANGED <<uncompleted, sent>>
        PROVE  /\ uncompleted' \in [Callers -> Seq(1 .. MaxRequests)]
               /\ sent' \in [Callers -> 0 .. MaxRequests]
    <3>1. /\ uncompleted[k] # <<>> /\ UNCHANGED sent
          /\ uncompleted' = [uncompleted EXCEPT ![k] = Tail(uncompleted[k])]
      BY <2>3 DEF Handle
    <3>2. Tail(uncompleted[k]) \in Seq(1 .. MaxRequests)
      BY <1>0, <3>1
    <3> QED  BY <1>0, <3>1, <3>2
  <2>4. ASSUME NEW k \in Callers,
               \/ AskPush(k) \/ AskSend(k) \/ AskTimeout(k) \/ AskReceive(k) \/ MakeId(k)
               \/ Register(k) \/ CloseRemove(k) \/ CloseSetErr(k)
        PROVE  UNCHANGED <<uncompleted, sent>>
    BY <2>4 DEF AskPush, AskSend, AskTimeout, AskReceive, MakeId, Register, CloseRemove,
                CloseSetErr, queueVars
  <2>5. CASE ClientRead \/ SysHandle \/ ServerRead \/ Serve \/ UNCHANGED vars
    BY <2>1, <2>5 DEF ClientRead, SysHandle, ServerRead, Serve, vars, queueVars
  <2> QED  BY <2>1, <2>2, <2>3, <2>4, <2>5 DEF Next, Open
<1>3. open' \in BOOLEAN
  BY <1>0, Zenon DEF Next, Open, AskPush, AskSend, AskTimeout, AskReceive, MakeId, Register, Send,
     CloseRemove, CloseSetErr, Handle, ClientRead, SysHandle, ServerRead, Serve, vars
<1>4. untidy' \in BOOLEAN
  BY <1>0, Zenon DEF Next, Open, AskPush, AskSend, AskTimeout, AskReceive, MakeId, Register, Send,
     CloseRemove, CloseSetErr, Handle, ClientRead, SysHandle, ServerRead, Serve, vars,
     historyVars
<1>5. mixed' \in BOOLEAN
  BY <1>0, Zenon DEF Next, Open, AskPush, AskSend, AskTimeout, AskReceive, MakeId, Register, Send,
     CloseRemove, CloseSetErr, Handle, ClientRead, SysHandle, ServerRead, Serve, vars,
     historyVars
<1> QED  BY <1>1, <1>2, <1>3, <1>4, <1>5 DEF QueueTypes

\* A step that moves no packet of channel 0.
LEMMA SysKept ==
  ASSUME SysInv, QueueTypes', \A k \in Callers : answer'[k] \in Seq(Ids) /\ Len(answer'[k]) <= 1,
         UNCHANGED <<c2s, s2c, sChannels, sysQueue>>, cRecv'[Sys] = cRecv[Sys],
         Pushed' = Pushed, SysLink' => SysLink,
         \A i \in DOMAIN cChannels' : cChannels'[i] = Sys => i = 0,
         SysLink' => \A k \in Callers : pc'[k] \in {"open", "closing"} => newId'[k] # 0
  PROVE  SysInv'
<1>1. AnswerTypes'
  BY DEF SysInv, AnswerTypes
<1>2. SysFindsCall'
  BY DEF SysInv, SysFindsCall
<1>3. SysLink' => SysOnly'
  BY DEF SysInv, SysOnly, OnSys
<1>4. SysLink' => SysCounted'
  <2>1. SysQueued' = SysQueued /\ OnSys(c2s') = OnSys(c2s) /\ OnSys(s2c') = OnSys(s2c)
    BY DEF SysQueued, OnSys
  <2>2. Len(sysQueue') = Len(sysQueue) /\ Len(cRecv'[Sys]) = Len(cRecv[Sys])
    OBVIOUS
  <2>3. SysCounted' <=>
          Cardinality(OnSys(c2s')) + SysQueued' + Cardinality(OnSys(s2c')) + Len(cRecv'[Sys])
            + Cardinality(Pushed') <= Len(sysQueue')
    BY DEF SysCounted, OnSys
  <2> QED  BY <2>1, <2>2, <2>3 DEF SysInv, SysCounted
<1> QED  BY <1>1, <1>2, <1>3, <1>4 DEF SysInv

\* The steps of a call that move none.
LEMMA CallSys ==
  ASSUME Types, SysInv, QueueTypes', NEW k \in Callers,
         \/ AskTimeout(k) \/ AskReceive(k) \/ CloseSetErr(k) \/ MakeId(k) \/ Register(k)
         \/ CloseRemove(k) \/ Handle(k)
  PROVE  SysInv'
<1>0. /\ pc \in [Callers -> Steps] /\ newId \in [Callers -> Ids] /\ Sys \notin Callers
      /\ answer \in [Callers -> Seq(Nat)]
      /\ \A c \in Callers : answer[c] \in Seq(Ids) /\ Len(answer[c]) <= 1
      /\ \A i \in DOMAIN cChannels : cChannels[i] = Sys => i = 0
      /\ SysLink => \A c \in Callers : pc[c] \in {"open", "closing"} => newId[c] # 0
      /\ cRecv \in [Callers \cup {Sys} -> Seq(Packets)]
  BY ChannelsAssumption DEF Types, SysInv, AnswerTypes, SysFindsCall, SysOnly
<1>1. UNCHANGED <<c2s, s2c, sChannels, sysQueue>>
  BY DEF AskTimeout, AskReceive, CloseSetErr, MakeId, Register, CloseRemove, Handle, sIdVars,
         queueVars
<1>2. cRecv'[Sys] = cRecv[Sys]
  <2>1. CASE UNCHANGED cRecv
    BY <2>1
  <2>2. CASE Handle(k)
    BY <1>0, <2>2 DEF Handle
  <2> QED  BY <2>1, <2>2 DEF AskTimeout, AskReceive, CloseSetErr, MakeId, Register, CloseRemove
<1>3. \A c \in Callers : answer'[c] \in Seq(Ids) /\ Len(answer'[c]) <= 1
  <2>1. CASE UNCHANGED answer
    BY <1>0, <2>1
  <2>2. CASE AskReceive(k)
    <3>1. answer' = [answer EXCEPT ![k] = <<>>] /\ <<>> \in Seq(Ids) /\ Len(<<>>) <= 1
      BY <2>2 DEF AskReceive
    <3>2. \A c \in Callers : answer'[c] = <<>> \/ answer'[c] = answer[c]
      BY <1>0, <3>1
    <3> QED  BY <1>0, <3>1, <3>2
  <2> QED  BY <2>1, <2>2 DEF AskTimeout, CloseSetErr, MakeId, Register, CloseRemove, Handle,
                             openVars
<1>4. \/ UNCHANGED <<pc, newId>>
      \/ /\ \A c \in Callers \ {k} : pc'[c] = pc[c] /\ newId'[c] = newId[c]
         /\ pc[k] # "pushed" /\ pc'[k] # "pushed"
  BY <1>0 DEF AskTimeout, AskReceive, CloseSetErr, MakeId, Register, CloseRemove, Handle, FreeId,
              openVars
<1>5. Pushed' = Pushed
  BY <1>4 DEF Pushed
<1>6. CASE AskTimeout(k) \/ AskReceive(k) \/ CloseSetErr(k) \/ MakeId(k)
  <2>1. UNCHANGED cChannels
    BY <1>6 DEF AskTimeout, AskReceive, CloseSetErr, MakeId, cIdVars
  <2>2. \A c \in Callers : pc'[c] \in {"open", "closing"} => pc[c] = pc'[c] /\ newId'[c] = newId[c]
    BY <1>0, <1>6 DEF AskTimeout, AskReceive, CloseSetErr, MakeId, openVars
  <2>3. SysLink' = SysLink
    BY <2>1 DEF SysLink
  <2>4. SysLink' => \A c \in Callers : pc'[c] \in {"open", "closing"} => newId'[c] # 0
    BY <1>0, <2>2, <2>3
  <2> QED  BY <1>0, <1>1, <1>2, <1>3, <1>5, <2>1, <2>3, <2>4, SysKept
<1>7. CASE Register(k)
  <2>1. /\ cChannels' = With(cChannels, newId[k], k) /\ pc' = [pc EXCEPT ![k] = "open"]
        /\ UNCHANGED newId
    BY <1>7 DEF Register, openVars
  <2>2. /\ DOMAIN cChannels' = DOMAIN cChannels \cup {newId[k]} /\ cChannels'[newId[k]] = k
        /\ \A i \in DOMAIN cChannels \ {newId[k]} : cChannels'[i] = cChannels[i]
    BY <2>1 DEF With
  <2>3. \A i \in DOMAIN cChannels' : cChannels'[i] = Sys => i = 0
    BY <1>0, <2>2
  <2>4. SysLink' => SysLink /\ newId[k] # 0
    BY <1>0, <2>2 DEF SysLink
  <2>5. SysLink' => \A c \in Callers : pc'[c] \in {"open", "closing"} => newId'[c] # 0
    BY <1>0, <2>1, <2>4
  <2> QED  BY <1>1, <1>2, <1>3, <1>5, <2>3, <2>4, <2>5, SysKept
<1>8. CASE CloseRemove(k) \/ Handle(k)
  <2>1. FreeId(k) \/ UNCHANGED <<pc, cChannels>>
    BY <1>8 DEF CloseRemove, Handle
  <2>2. UNCHANGED newId
    BY <1>8 DEF CloseRemove, Handle, openVars
  <2>3. /\ DOMAIN cChannels' \subseteq DOMAIN cChannels
        /\ \A i \in DOMAIN cChannels' : cChannels'[i] = cChannels[i]
    BY <2>1 DEF FreeId, Without
  <2>4. \A c \in Callers : pc'[c] \in {"open", "closing"} => pc[c] \in {"open", "closing"}
    BY <1>0, <2>1 DEF FreeId
  <2>5. \A i \in DOMAIN cChannels' : cChannels'[i] = Sys => i = 0
    BY <1>0, <2>3
  <2>6. SysLink' => SysLink
    BY <2>3 DEF SysLink
  <2>7. SysLink' => \A c \in Callers : pc'[c] \in {"open", "closing"} => newId'[c] # 0
    BY <1>0, <2>2, <2>4, <2>6
  <2> QED  BY <1>1, <1>2, <1>3, <1>5, <2>5, <2>6, <2>7, SysKept
<1> QED  BY <1>6, <1>7, <1>8

\* A call joins the queue of channel 0.
LEMMA AskPushSys ==
  ASSUME Types, SysInv, QueueTypes', NEW k \in Callers, AskPush(k)
  PROVE  SysInv'
<1>0. /\ pc \in [Callers -> Steps] /\ pc[k] = "idle" /\ pc' = [pc EXCEPT ![k] = "pushed"]
      /\ sysQueue' = Append(sysQueue, k)
      /\ UNCHANGED <<c2s, s2c, sChannels, cChannels, cRecv, answer, newId>>
  BY DEF Types, AskPush, openVars, cIdVars, sIdVars
<1>1. Pushed' = Pushed \cup {k} /\ k \notin Pushed
  BY <1>0 DEF Pushed
<1>2. IsFiniteSet(Pushed') /\ Cardinality(Pushed') = Cardinality(Pushed) + 1
  BY <1>1, FS_AddElement DEF SysInv, SysFindsCall
<1>3. Len(sysQueue') = Len(sysQueue) + 1
  BY <1>0 DEF SysInv, QueueTypes
<1>4. AnswerTypes'
  BY <1>0 DEF SysInv, AnswerTypes
<1>5. SysFindsCall'
  <2>1. Len(cRecv[Sys]) <= Len(sysQueue')
    BY <1>3, SysNumbers DEF SysInv, SysFindsCall
  <2> QED  BY <1>0, <1>2, <2>1 DEF SysInv, SysFindsCall
<1>6. SysLink' = SysLink
  BY <1>0 DEF SysLink
<1>7. SysLink' => SysOnly'
  <2>1. \A c \in Callers : pc'[c] \in {"open", "closing"} => pc[c] \in {"open", "closing"}
    BY <1>0
  <2> QED  BY <1>0, <1>6, <2>1 DEF SysInv, SysOnly, OnSys
<1>8. SysLink' => SysCounted'
  <2>1. /\ OnSys(c2s)' = OnSys(c2s) /\ OnSys(s2c)' = OnSys(s2c) /\ SysQueued' = SysQueued
        /\ cRecv'[Sys] = cRecv[Sys]
    BY <1>0 DEF OnSys, SysQueued
  <2> DEFINE a == Cardinality(OnSys(c2s))
             b == SysQueued
             c == Cardinality(OnSys(s2c))
             d == Len(cRecv[Sys])
             e == Cardinality(Pushed)
             n == Len(sysQueue)
  <2>2. /\ a \in Nat /\ b \in Nat /\ c \in Nat /\ d \in Nat /\ e \in Nat /\ n \in Nat
        /\ SysLink => a + b + c + d + e <= n
    BY SysNumbers DEF SysInv, SysCounted
  <2>3. SysCounted' <=> a + b + c + d + (e + 1) <= n + 1
    BY <1>2, <1>3, <2>1 DEF SysCounted
  <2> HIDE DEF a, b, c, d, e, n
  <2> QED  BY <1>6, <2>2, <2>3
<1> QED  BY <1>4, <1>5, <1>7, <1>8 DEF SysInv

\* It sends its question.
LEMMA AskSendSys ==
  ASSUME Types, SysInv, QueueTypes', NEW k \in Callers, AskSend(k)
  PROVE  SysInv'
<1> DEFINE p == Packet(0, "new", k, 0)
<1>0. /\ pc \in [Callers -> Steps] /\ pc[k] = "pushed" /\ pc' = [pc EXCEPT ![k] = "asking"]
      /\ c2s \in Seq(Packets) /\ c2s' = Append(c2s, p)
      /\ UNCHANGED <<sysQueue, s2c, sChannels, cChannels, cRecv, answer, newId>>
  BY DEF Types, AskSend, openVars, cIdVars, sIdVars, queueVars
<1>p. p \in Packets /\ p.ch = 0 /\ p.kind = "new"
  BY ChannelsAssumption DEF Packet, Packets, Ids
<1> HIDE DEF p
<1>1. Pushed' = Pushed \ {k} /\ k \in Pushed
  BY <1>0 DEF Pushed
<1>2. IsFiniteSet(Pushed') /\ Cardinality(Pushed') = Cardinality(Pushed) - 1
  BY <1>1, FS_RemoveElement DEF SysInv, SysFindsCall
<1>3. /\ Cardinality(OnSys(c2s')) = Cardinality(OnSys(c2s)) + 1
      /\ \A i \in OnSys(c2s') : (i \in OnSys(c2s) /\ c2s'[i] = c2s[i]) \/ c2s'[i] = p
  BY <1>0, <1>p, OnSysAppend
<1>4. AnswerTypes'
  BY <1>0 DEF SysInv, AnswerTypes
<1>5. SysFindsCall'
  BY <1>0, <1>2 DEF SysInv, SysFindsCall
<1>6. SysLink' = SysLink
  BY <1>0 DEF SysLink
<1>7. SysLink' => SysOnly'
  <2>1. \A c \in Callers : pc'[c] \in {"open", "closing"} => pc[c] \in {"open", "closing"}
    BY <1>0
  <2>2. SysLink' => \A i \in OnSys(c2s') : c2s'[i].kind = "new"
    BY <1>p, <1>3, <1>6 DEF SysInv, SysOnly
  <2>3. OnSys(c2s') = OnSys(c2s)' /\ OnSys(s2c) = OnSys(s2c)'
    BY <1>0 DEF OnSys
  <2> QED  BY <1>0, <1>6, <2>1, <2>2, <2>3 DEF SysInv, SysOnly
<1>8. SysLink' => SysCounted'
  <2>1. /\ OnSys(c2s)' = OnSys(c2s') /\ OnSys(s2c)' = OnSys(s2c) /\ SysQueued' = SysQueued
        /\ cRecv'[Sys] = cRecv[Sys]
    BY <1>0 DEF OnSys, SysQueued
  <2> DEFINE a == Cardinality(OnSys(c2s))
             b == SysQueued
             c == Cardinality(OnSys(s2c))
             d == Len(cRecv[Sys])
             e == Cardinality(Pushed)
             n == Len(sysQueue)
  <2>2. /\ a \in Nat /\ b \in Nat /\ c \in Nat /\ d \in Nat /\ e \in Nat /\ n \in Nat
        /\ SysLink => a + b + c + d + e <= n
    BY SysNumbers DEF SysInv, SysCounted
  <2>3. SysCounted' <=> (a + 1) + b + c + d + (e - 1) <= n
    BY <1>0, <1>2, <1>3, <2>1 DEF SysCounted
  <2> HIDE DEF a, b, c, d, e, n
  <2> QED  BY <1>6, <2>2, <2>3
<1> QED  BY <1>4, <1>5, <1>7, <1>8 DEF SysInv

\* A request on a channel, which is not channel 0.
LEMMA SendSys ==
  ASSUME Types, SysInv, QueueTypes', NEW k \in Callers, NEW kind \in {"req", "delete"},
         Send(k, kind)
  PROVE  SysInv'
<1> DEFINE p == Packet(newId[k], kind, k, sent'[k])
<1>0. /\ c2s \in Seq(Packets) /\ c2s' = Append(c2s, p) /\ pc[k] \in {"open", "closing"}
      /\ UNCHANGED <<pc, sysQueue, s2c, sChannels, cChannels, cRecv, answer, newId>>
  BY DEF Types, Send, openVars, cIdVars, sIdVars
<1>p. p \in Packets /\ p.ch = newId[k]
  <2>1. newId[k] \in Ids /\ sent'[k] \in Nat
    BY ChannelsAssumption DEF Types, QueueTypes
  <2> QED  BY <2>1 DEF Packet, Packets
<1> HIDE DEF p
<1>1. SysLink' = SysLink /\ Pushed' = Pushed
  BY <1>0 DEF SysLink, Pushed
<1>2. SysLink => newId[k] # 0
  BY <1>0 DEF SysInv, SysOnly
<1>3. /\ SysLink => Cardinality(OnSys(c2s')) = Cardinality(OnSys(c2s))
      /\ SysLink => \A i \in OnSys(c2s') : i \in OnSys(c2s) /\ c2s'[i] = c2s[i]
  BY <1>0, <1>p, <1>2, OnSysAppend
<1>4. AnswerTypes'
  BY <1>0 DEF SysInv, AnswerTypes
<1>5. SysFindsCall'
  BY <1>0, <1>1 DEF SysInv, SysFindsCall
<1>6. OnSys(c2s)' = OnSys(c2s') /\ OnSys(s2c)' = OnSys(s2c) /\ SysQueued' = SysQueued
  BY <1>0 DEF OnSys, SysQueued
<1>7. SysLink' => SysOnly'
  <2>1. SysLink' => \A i \in OnSys(c2s') : c2s'[i].kind = "new"
    BY <1>1, <1>3 DEF SysInv, SysOnly
  <2> QED  BY <1>0, <1>1, <1>6, <2>1 DEF SysInv, SysOnly
<1>8. SysLink' => SysCounted'
  <2> SUFFICES ASSUME SysLink PROVE SysCounted'
    BY <1>1
  <2> QED  BY <1>0, <1>1, <1>3, <1>6 DEF SysInv, SysCounted
<1> QED  BY <1>4, <1>5, <1>7, <1>8 DEF SysInv

\* clientReadLoop passes on an answer, to channel 0 while it has the id 0.
LEMMA ClientReadSys ==
  ASSUME Types, SysInv, QueueTypes', ClientRead
  PROVE  SysInv'
<1> DEFINE p == Head(s2c)
<1>0. /\ s2c \in Seq(Packets) /\ s2c # <<>> /\ s2c' = Tail(s2c)
      /\ UNCHANGED <<pc, sysQueue, c2s, sChannels, cChannels, answer, newId>>
      /\ cRecv \in [Callers \cup {Sys} -> Seq(Packets)]
      /\ \A i \in DOMAIN cChannels : cChannels[i] \in Callers \cup {Sys}
  BY DEF Types, ClientRead, openVars, cIdVars, sIdVars, queueVars
<1>1. SysLink' = SysLink /\ Pushed' = Pushed
  BY <1>0 DEF SysLink, Pushed
<1>2. \/ UNCHANGED cRecv /\ ~(p.ch \in DOMAIN cChannels)
      \/ /\ p.ch \in DOMAIN cChannels
         /\ cRecv' = [cRecv EXCEPT ![cChannels[p.ch]] = Append(cRecv[cChannels[p.ch]], p)]
  BY DEF ClientRead
<1>p. p \in Packets /\ 1 \in DOMAIN s2c /\ p = s2c[1]
  BY <1>0
<1> HIDE DEF p
<1>3. /\ Cardinality(OnSys(s2c)) = IF p.ch = 0 THEN Cardinality(OnSys(s2c')) + 1
                                               ELSE Cardinality(OnSys(s2c'))
      /\ Cardinality(OnSys(s2c')) \in Nat
      /\ \A i \in OnSys(s2c') : \E j \in OnSys(s2c) : s2c'[i] = s2c[j]
  BY <1>0, OnSysTail DEF p
<1>4. OnSys(c2s)' = OnSys(c2s) /\ OnSys(s2c)' = OnSys(s2c') /\ SysQueued' = SysQueued
  BY <1>0 DEF OnSys, SysQueued
<1>5. SysLink' => SysOnly'
  <2>1. SysLink' => \A i \in OnSys(s2c') : s2c'[i].n \in Ids
    BY <1>1, <1>3 DEF SysInv, SysOnly
  <2> QED  BY <1>0, <1>1, <1>4, <2>1 DEF SysInv, SysOnly
<1> DEFINE a == Cardinality(OnSys(c2s))
           b == SysQueued
           c == Cardinality(OnSys(s2c'))
           d == Len(cRecv[Sys])
           e == Cardinality(Pushed)
           n == Len(sysQueue)
<1>6. /\ a \in Nat /\ b \in Nat /\ c \in Nat /\ d \in Nat /\ e \in Nat /\ n \in Nat
      /\ SysLink => a + b + Cardinality(OnSys(s2c)) + d + e <= n
      /\ d <= n
  BY <1>3, SysNumbers DEF SysInv, SysCounted, SysFindsCall
<1>7. SysCounted' <=> a + b + c + Len(cRecv'[Sys]) + e <= n
  BY <1>0, <1>1, <1>4 DEF SysCounted
<1>8. CASE ~(p.ch \in DOMAIN cChannels /\ cChannels[p.ch] = Sys)
  <2>1. cRecv'[Sys] = cRecv[Sys]
    BY <1>0, <1>2, <1>8
  <2>2. AnswerTypes'
    BY <1>0, <2>1 DEF SysInv, AnswerTypes
  <2>3. SysFindsCall'
    BY <1>0, <1>1, <2>1 DEF SysInv, SysFindsCall
  <2>4. SysLink' => SysCounted'
    <3>1. SysLink' => p.ch # 0
      BY <1>1, <1>8 DEF SysLink
    <3>2. SysLink' => a + b + c + d + e <= n
      BY <1>1, <1>3, <1>6, <3>1
    <3> QED  BY <1>7, <2>1, <3>2
  <2> QED  BY <1>5, <2>2, <2>3, <2>4 DEF SysInv
<1>9. CASE p.ch \in DOMAIN cChannels /\ cChannels[p.ch] = Sys
  <2>1. p.ch = 0 /\ SysLink
    BY <1>9 DEF SysInv, SysFindsCall, SysLink
  <2>2. cRecv'[Sys] = Append(cRecv[Sys], p) /\ cRecv[Sys] \in Seq(Packets)
    BY <1>0, <1>2, <1>9
  <2>3. /\ Len(cRecv'[Sys]) = Len(cRecv[Sys]) + 1
        /\ \A i \in DOMAIN cRecv'[Sys] :
             (i \in DOMAIN cRecv[Sys] /\ cRecv'[Sys][i] = cRecv[Sys][i]) \/ cRecv'[Sys][i] = p
    BY <1>p, <2>2, AppendAll
  <2>4. p.n \in Ids
    <3>1. 1 \in OnSys(s2c)
      BY <1>p, <2>1 DEF OnSys
    <3> QED  BY <1>p, <2>1, <3>1 DEF SysInv, SysOnly
  <2>5. AnswerTypes'
    BY <1>0, <2>3, <2>4 DEF SysInv, AnswerTypes
  <2>6. Cardinality(OnSys(s2c)) = c + 1 /\ Len(cRecv'[Sys]) = d + 1
    BY <1>3, <2>1, <2>3
  <2>7. a + b + (c + 1) + d + e <= n
    BY <1>6, <2>1, <2>6
  <2> HIDE DEF a, b, c, d, e, n
  <2>8. a + b + c + (d + 1) + e <= n /\ d + 1 <= n
    BY <1>6, <2>7
  <2>9. SysFindsCall'
    <3>1. Len(cRecv'[Sys]) <= Len(sysQueue)
      BY <2>6, <2>8 DEF n
    <3> QED  BY <1>0, <1>1, <3>1 DEF SysInv, SysFindsCall
  <2>10. SysCounted'
    BY <1>7, <2>6, <2>8
  <2> QED  BY <1>5, <2>5, <2>9, <2>10 DEF SysInv
<1> QED  BY <1>8, <1>9

\* handleClientLoop of channel 0 takes the oldest call from the queue.
LEMMA SysHandleSys ==
  ASSUME Types, SysInv, QueueTypes', SysHandle
  PROVE  SysInv'
<1> DEFINE q == cRecv[Sys]
           k == Head(sysQueue)
<1>0. /\ q \in Seq(Packets) /\ q # <<>> /\ cRecv'[Sys] = Tail(q) /\ sysQueue' = Tail(sysQueue)
      /\ UNCHANGED <<pc, c2s, s2c, sChannels, cChannels, newId>>
      /\ answer' = IF pc[k] \in {"pushed", "asking"} THEN [answer EXCEPT ![k] = <<Head(q).n>>]
                                                     ELSE answer
      /\ answer \in [Callers -> Seq(Nat)] /\ sysQueue \in Seq(Callers)
  BY DEF Types, SysInv, QueueTypes, SysHandle, cIdVars, sIdVars
<1>1. SysLink' = SysLink /\ Pushed' = Pushed
  BY <1>0 DEF SysLink, Pushed
<1>2. Len(q) \in Nat \ {0} /\ Len(sysQueue) \in Nat /\ Len(q) <= Len(sysQueue)
  BY <1>0 DEF SysInv, SysFindsCall
<1>3. Len(sysQueue) > 0
  BY <1>2
<1>4. sysQueue # <<>> /\ Len(sysQueue') = Len(sysQueue) - 1
  BY <1>0, <1>3
<1>5. /\ Len(cRecv'[Sys]) = Len(q) - 1 /\ 1 \in DOMAIN q /\ Head(q) = q[1]
      /\ \A i \in DOMAIN cRecv'[Sys] : i + 1 \in DOMAIN q /\ cRecv'[Sys][i] = q[i + 1]
  BY <1>0, TailAll
<1>6. AnswerTypes'
  <2>1. \A i \in DOMAIN cRecv'[Sys] : cRecv'[Sys][i].n \in Ids
    BY <1>5 DEF SysInv, AnswerTypes
  <2>2. Head(q).n \in Ids
    BY <1>5 DEF SysInv, AnswerTypes
  <2>3. <<Head(q).n>> \in Seq(Ids) /\ Len(<<Head(q).n>>) <= 1
    BY <2>2
  <2>4. \A c \in Callers : answer'[c] = answer[c] \/ answer'[c] = <<Head(q).n>>
    BY <1>0
  <2> QED  BY <2>1, <2>3, <2>4 DEF SysInv, AnswerTypes
<1>7. SysFindsCall'
  <2>1. Len(cRecv'[Sys]) <= Len(sysQueue')
    BY <1>2, <1>4, <1>5
  <2> QED  BY <1>0, <1>1, <2>1 DEF SysInv, SysFindsCall
<1>8. OnSys(c2s)' = OnSys(c2s) /\ OnSys(s2c)' = OnSys(s2c) /\ SysQueued' = SysQueued
  BY <1>0 DEF OnSys, SysQueued
<1>9. SysLink' => SysOnly'
  BY <1>0, <1>1, <1>8 DEF SysInv, SysOnly
<1>10. SysLink' => SysCounted'
  <2> DEFINE a == Cardinality(OnSys(c2s))
             b == SysQueued
             c == Cardinality(OnSys(s2c))
             d == Len(q)
             e == Cardinality(Pushed)
             n == Len(sysQueue)
  <2>1. /\ a \in Nat /\ b \in Nat /\ c \in Nat /\ d \in Nat /\ e \in Nat /\ n \in Nat
        /\ SysLink => a + b + c + d + e <= n
    BY SysNumbers DEF SysInv, SysCounted
  <2>2. SysCounted' <=> a + b + c + (d - 1) + e <= n - 1
    BY <1>1, <1>4, <1>5, <1>8 DEF SysCounted
  <2> HIDE DEF a, b, c, d, e, n
  <2> QED  BY <1>1, <2>1, <2>2
<1> QED  BY <1>6, <1>7, <1>9, <1>10 DEF SysInv

\* serverReadLoop puts a question into the queue of the server's channel 0.
LEMMA ServerReadSys ==
  ASSUME Types, SysInv, QueueTypes', ServerRead
  PROVE  SysInv'
<1> DEFINE p == Head(c2s)
<1>0. /\ c2s \in Seq(Packets) /\ c2s # <<>> /\ c2s' = Tail(c2s)
      /\ UNCHANGED <<pc, sysQueue, s2c, cRecv, cChannels, answer, newId>>
      /\ \A i \in DOMAIN sChannels : sChannels[i] \in Seq(Packets)
  BY DEF Types, ServerRead, openVars, cIdVars, queueVars
<1>1. SysLink' = SysLink /\ Pushed' = Pushed
  BY <1>0 DEF SysLink, Pushed
<1>2. \/ UNCHANGED sChannels
      \/ /\ p.ch \in DOMAIN sChannels
         /\ sChannels' = [sChannels EXCEPT ![p.ch] = Append(sChannels[p.ch], p)]
  BY DEF ServerRead
<1>p. p \in Packets /\ 1 \in DOMAIN c2s /\ p = c2s[1]
  BY <1>0
<1> HIDE DEF p
<1>3. /\ Cardinality(OnSys(c2s)) = IF p.ch = 0 THEN Cardinality(OnSys(c2s')) + 1
                                               ELSE Cardinality(OnSys(c2s'))
      /\ Cardinality(OnSys(c2s')) \in Nat
      /\ \A i \in OnSys(c2s') : \E j \in OnSys(c2s) : c2s'[i] = c2s[j]
  BY <1>0, OnSysTail DEF p
<1>4. OnSys(c2s)' = OnSys(c2s') /\ OnSys(s2c)' = OnSys(s2c)
  BY <1>0 DEF OnSys
<1>5. /\ DOMAIN sChannels' = DOMAIN sChannels
      /\ \A id \in DOMAIN sChannels : \A i \in DOMAIN sChannels'[id] :
           \/ i \in DOMAIN sChannels[id] /\ sChannels'[id][i] = sChannels[id][i]
           \/ p.ch = id /\ sChannels'[id][i] = p
  <2>1. CASE UNCHANGED sChannels
    BY <2>1
  <2>2. CASE /\ p.ch \in DOMAIN sChannels
             /\ sChannels' = [sChannels EXCEPT ![p.ch] = Append(sChannels[p.ch], p)]
    <3>1. /\ DOMAIN sChannels' = DOMAIN sChannels
          /\ sChannels'[p.ch] = Append(sChannels[p.ch], p)
          /\ \A id \in DOMAIN sChannels \ {p.ch} : sChannels'[id] = sChannels[id]
      BY <2>2
    <3>2. \A i \in DOMAIN Append(sChannels[p.ch], p) :
            \/ i \in DOMAIN sChannels[p.ch] /\ Append(sChannels[p.ch], p)[i] = sChannels[p.ch][i]
            \/ Append(sChannels[p.ch], p)[i] = p
      BY <1>0, <1>p, <2>2, AppendAll
    <3> QED  BY <3>1, <3>2
  <2> QED  BY <1>2, <2>1, <2>2
<1>6. AnswerTypes'
  BY <1>0 DEF SysInv, AnswerTypes
<1>7. SysFindsCall'
  <2>1. \A id \in DOMAIN sChannels' : \A i \in DOMAIN sChannels'[id] : sChannels'[id][i].ch = id
    BY <1>5 DEF SysInv, SysFindsCall
  <2> QED  BY <1>0, <1>1, <2>1 DEF SysInv, SysFindsCall
<1>8. SysLink' => SysOnly'
  <2>1. SysLink' => \A i \in OnSys(c2s') : c2s'[i].kind = "new"
    BY <1>1, <1>3 DEF SysInv, SysOnly
  <2>2. SysLink /\ p.ch = 0 => p.kind = "new"
    BY <1>p DEF SysInv, SysOnly, OnSys
  <2>3. SysLink' => (0 \in DOMAIN sChannels' =>
                       \A i \in DOMAIN sChannels'[0] : sChannels'[0][i].kind = "new")
    BY <1>1, <1>5, <2>2 DEF SysInv, SysOnly
  <2> QED  BY <1>0, <1>1, <1>4, <2>1, <2>3 DEF SysInv, SysOnly
<1>9. SysQueued' \in Nat /\ SysQueued' <= IF p.ch = 0 THEN SysQueued + 1 ELSE SysQueued
  <2>0. SysQueued \in Nat
    BY SysNumbers
  <2>1. CASE UNCHANGED sChannels
    <3>1. SysQueued' = SysQueued
      BY <2>1 DEF SysQueued
    <3> QED  BY <2>0, <3>1
  <2>2. CASE /\ p.ch \in DOMAIN sChannels
             /\ sChannels' = [sChannels EXCEPT ![p.ch] = Append(sChannels[p.ch], p)]
    <3>1. CASE p.ch = 0
      <4>1. SysQueued' = Len(Append(sChannels[0], p)) /\ SysQueued = Len(sChannels[0])
        BY <2>2, <3>1 DEF SysQueued
      <4>2. Len(Append(sChannels[0], p)) = Len(sChannels[0]) + 1
        BY <1>0, <1>p, <2>2, <3>1, AppendAll
      <4>3. SysQueued' = SysQueued + 1
        BY <4>1, <4>2
      <4> QED  BY <2>0, <3>1, <4>3
    <3>2. CASE p.ch # 0
      <4>1. SysQueued' = SysQueued
        BY <2>2, <3>2 DEF SysQueued
      <4> QED  BY <2>0, <3>2, <4>1
    <3> QED  BY <3>1, <3>2
  <2> QED  BY <1>2, <2>1, <2>2
<1>10. SysLink' => SysCounted'
  <2> DEFINE a == Cardinality(OnSys(c2s'))
             b == SysQueued
             b2 == SysQueued'
             c == Cardinality(OnSys(s2c))
             d == Len(cRecv[Sys])
             e == Cardinality(Pushed)
             n == Len(sysQueue)
  <2>1. /\ a \in Nat /\ b \in Nat /\ c \in Nat /\ d \in Nat /\ e \in Nat /\ n \in Nat
        /\ SysLink => (IF p.ch = 0 THEN a + 1 ELSE a) + b + c + d + e <= n
    BY <1>3, SysNumbers DEF SysInv, SysCounted
  <2>2. SysCounted' <=> a + b2 + c + d + e <= n
    BY <1>0, <1>1, <1>4 DEF SysCounted
  <2>3. b2 \in Nat /\ b2 <= IF p.ch = 0 THEN b + 1 ELSE b
    BY <1>9
  <2> HIDE DEF a, b, b2, c, d, e, n
  <2> QED  BY <1>1, <2>1, <2>2, <2>3
<1> QED  BY <1>6, <1>7, <1>8, <1>10 DEF SysInv

\* A step of the server's handlers that adds no more to the answers than it
\* takes from the queue of channel 0.
LEMMA ServedSys ==
  ASSUME Types, SysInv, QueueTypes',
         UNCHANGED <<pc, sysQueue, c2s, cRecv, cChannels, answer, newId>>,
         \A n \in DOMAIN sChannels' : \A i \in DOMAIN sChannels'[n] :
           n \in DOMAIN sChannels /\ \E j \in DOMAIN sChannels[n] : sChannels'[n][i] = sChannels[n][j],
         SysLink => \A i \in OnSys(s2c') : (i \in OnSys(s2c) /\ s2c'[i] = s2c[i]) \/ s2c'[i].n \in Ids,
         SysLink => /\ SysQueued' \in Nat /\ Cardinality(OnSys(s2c')) \in Nat
                    /\ SysQueued' + Cardinality(OnSys(s2c')) <= SysQueued + Cardinality(OnSys(s2c))
  PROVE  SysInv'
<1>1. SysLink' = SysLink /\ Pushed' = Pushed
  BY DEF SysLink, Pushed
<1>2. AnswerTypes'
  BY DEF SysInv, AnswerTypes
<1>3. SysFindsCall'
  <2>1. \A id \in DOMAIN sChannels' : \A i \in DOMAIN sChannels'[id] : sChannels'[id][i].ch = id
    BY DEF SysInv, SysFindsCall
  <2> QED  BY <1>1, <2>1 DEF SysInv, SysFindsCall
<1>4. OnSys(c2s)' = OnSys(c2s) /\ OnSys(s2c)' = OnSys(s2c')
  BY DEF OnSys
<1>5. SysLink' => SysOnly'
  <2>1. SysLink' => \A i \in OnSys(s2c') : s2c'[i].n \in Ids
    BY <1>1 DEF SysInv, SysOnly
  <2>2. SysLink' => (0 \in DOMAIN sChannels' =>
                       \A i \in DOMAIN sChannels'[0] : sChannels'[0][i].kind = "new")
    BY <1>1 DEF SysInv, SysOnly
  <2> QED  BY <1>1, <1>4, <2>1, <2>2 DEF SysInv, SysOnly
<1>6. SysLink' => SysCounted'
  <2> SUFFICES ASSUME SysLink PROVE SysCounted'
    BY <1>1
  <2> DEFINE a == Cardinality(OnSys(c2s))
             b == SysQueued
             b2 == SysQueued'
             c == Cardinality(OnSys(s2c))
             c2 == Cardinality(OnSys(s2c'))
             d == Len(cRecv[Sys])
             e == Cardinality(Pushed)
             n == Len(sysQueue)
  <2>1. /\ a \in Nat /\ b \in Nat /\ c \in Nat /\ d \in Nat /\ e \in Nat /\ n \in Nat
        /\ a + b + c + d + e <= n
    BY SysNumbers DEF SysInv, SysCounted
  <2>2. SysCounted' <=> a + b2 + c2 + d + e <= n
    BY <1>1, <1>4 DEF SysCounted
  <2>3. b2 \in Nat /\ c2 \in Nat /\ b2 + c2 <= b + c
    OBVIOUS
  <2> HIDE DEF a, b, b2, c, c2, d, e, n
  <2> QED  BY <2>1, <2>2, <2>3
<1> QED  BY <1>2, <1>3, <1>5, <1>6 DEF SysInv

\* handleServerLoop: an answer for each question.
LEMMA ServeSys ==
  ASSUME Types, SysInv, QueueTypes', Serve
  PROVE  SysInv'
<1>0. /\ UNCHANGED <<pc, sysQueue, c2s, cRecv, cChannels, answer, newId>> /\ s2c \in Seq(Packets)
      /\ \A n \in DOMAIN sChannels : sChannels[n] \in Seq(Packets)
  BY DEF Types, Serve, openVars, cIdVars, queueVars
<1>1. PICK id \in DOMAIN sChannels :
        /\ sChannels[id] # <<>>
        /\ \/ ServeNew(id, Head(sChannels[id])) \/ ServeDelete(id, Head(sChannels[id]))
           \/ ServeRequest(id, Head(sChannels[id]))
  BY DEF Serve
<1> DEFINE p == Head(sChannels[id])
           rest == [sChannels EXCEPT ![id] = Tail(sChannels[id])]
<1>2. /\ p \in Packets /\ 1 \in DOMAIN sChannels[id] /\ p = sChannels[id][1]
      /\ DOMAIN rest = DOMAIN sChannels
      /\ \A n \in DOMAIN rest : \A i \in DOMAIN rest[n] :
           \E j \in DOMAIN sChannels[n] : rest[n][i] = sChannels[n][j]
  BY <1>1, Served
<1>3. p.ch = id
  BY <1>2 DEF SysInv, SysFindsCall
<1>4. rest[id] = Tail(sChannels[id]) /\ \A n \in DOMAIN sChannels \ {id} : rest[n] = sChannels[n]
  OBVIOUS
<1>5. Len(rest[id]) = Len(sChannels[id]) - 1 /\ Len(sChannels[id]) \in Nat
  BY <1>0, <1>1, <1>4, TailAll
<1>6. SysQueued \in Nat /\ Cardinality(OnSys(s2c)) \in Nat
  BY SysNumbers
<1>d. SysQueued = IF 0 \in DOMAIN sChannels THEN Len(sChannels[0]) ELSE 0
  BY DEF SysQueued
<1>e. SysQueued' = IF 0 \in DOMAIN sChannels' THEN Len(sChannels'[0]) ELSE 0
  BY DEF SysQueued
<1> HIDE DEF p, rest
<1>7. CASE ServeNew(id, p)
  <2>1. PICK new \in Ids :
          /\ sChannels' = With(rest, new, IF new \in DOMAIN rest THEN rest[new] ELSE <<>>)
          /\ s2c' = Append(s2c, Packet(p.ch, "new", p.from, new))
    BY <1>7 DEF ServeNew, rest
  <2>2. /\ DOMAIN sChannels' = DOMAIN rest \cup {new}
        /\ \A n \in DOMAIN rest : sChannels'[n] = rest[n]
        /\ new \notin DOMAIN rest => sChannels'[new] = <<>>
    BY <2>1 DEF With
  <2>3. DOMAIN <<>> = {} /\ Len(<<>>) = 0
    OBVIOUS
  <2>4. \A n \in DOMAIN sChannels' : \A i \in DOMAIN sChannels'[n] :
          n \in DOMAIN sChannels /\ \E j \in DOMAIN sChannels[n] : sChannels'[n][i] = sChannels[n][j]
    BY <1>2, <2>2, <2>3
  <2> DEFINE a == Packet(p.ch, "new", p.from, new)
  <2>5. a \in Packets /\ a.ch = id /\ a.n = new
    <3>1. p.ch \in Ids /\ p.from \in Callers /\ new \in Nat
      BY <1>2, ChannelsAssumption DEF Packets, Ids
    <3> QED  BY <1>3, <3>1 DEF Packet, Packets
  <2> HIDE DEF a
  <2>6. /\ Cardinality(OnSys(s2c')) = IF id = 0 THEN Cardinality(OnSys(s2c)) + 1
                                                ELSE Cardinality(OnSys(s2c))
        /\ \A i \in OnSys(s2c') : (i \in OnSys(s2c) /\ s2c'[i] = s2c[i]) \/ s2c'[i] = a
    BY <1>0, <2>1, <2>5, OnSysAppend DEF a
  <2>7. SysQueued' = IF id = 0 THEN SysQueued - 1 ELSE SysQueued
    <3>1. CASE id = 0
      BY <1>2, <1>5, <1>d, <1>e, <2>2, <3>1
    <3>2. CASE id # 0
      <4>1. CASE 0 \in DOMAIN sChannels
        BY <1>2, <1>4, <1>d, <1>e, <2>2, <3>2, <4>1
      <4>2. CASE 0 \notin DOMAIN sChannels
        BY <1>2, <1>d, <1>e, <2>2, <2>3, <4>2
      <4> QED  BY <4>1, <4>2
    <3> QED  BY <3>1, <3>2
  <2>8. id = 0 => SysQueued # 0
    <3>1. Len(sChannels[id]) # 0
      BY <1>0, <1>1
    <3> QED  BY <1>d, <3>1
  <2>9. /\ SysQueued' \in Nat /\ Cardinality(OnSys(s2c')) \in Nat
        /\ SysQueued' + Cardinality(OnSys(s2c')) <= SysQueued + Cardinality(OnSys(s2c))
    BY <1>6, <2>6, <2>7, <2>8
  <2>10. \A i \in OnSys(s2c') : (i \in OnSys(s2c) /\ s2c'[i] = s2c[i]) \/ s2c'[i].n \in Ids
    BY <2>1, <2>5, <2>6
  <2> QED  BY <1>0, <2>4, <2>9, <2>10, ServedSys
<1>8. CASE ServeDelete(id, p)
  <2>1. sChannels' = Without(sChannels, id) /\ UNCHANGED s2c
    BY <1>8 DEF ServeDelete
  <2>2. DOMAIN sChannels' = DOMAIN sChannels \ {id} /\ \A n \in DOMAIN sChannels' : sChannels'[n] = sChannels[n]
    BY <2>1 DEF Without
  <2>3. SysQueued' = SysQueued \/ SysQueued' = 0
    BY <1>d, <1>e, <2>2
  <2>4. OnSys(s2c') = OnSys(s2c)
    BY <2>1
  <2>5. /\ SysQueued' \in Nat /\ Cardinality(OnSys(s2c')) \in Nat
        /\ SysQueued' + Cardinality(OnSys(s2c')) <= SysQueued + Cardinality(OnSys(s2c))
    BY <1>6, <2>3, <2>4
  <2>6. \A n \in DOMAIN sChannels' : \A i \in DOMAIN sChannels'[n] :
          n \in DOMAIN sChannels /\ \E j \in DOMAIN sChannels[n] : sChannels'[n][i] = sChannels[n][j]
    BY <2>2
  <2>7. \A i \in OnSys(s2c') : i \in OnSys(s2c) /\ s2c'[i] = s2c[i]
    BY <2>1
  <2> QED  BY <1>0, <2>5, <2>6, <2>7, ServedSys
<1>9. CASE ServeRequest(id, p)
  <2>1. /\ sChannels' = rest /\ p.kind = "req"
        /\ s2c' = Append(s2c, Packet(p.ch, "req", p.from, p.n))
    BY <1>9 DEF ServeRequest, rest
  <2>2. SysLink => id # 0
    BY <1>2, <2>1 DEF SysInv, SysOnly
  <2> DEFINE a == Packet(p.ch, "req", p.from, p.n)
  <2>3. a \in Packets /\ a.ch = id
    BY <1>2, <1>3 DEF Packet, Packets
  <2> HIDE DEF a
  <2>4. /\ id # 0 => Cardinality(OnSys(s2c')) = Cardinality(OnSys(s2c))
        /\ id # 0 => \A i \in OnSys(s2c') : i \in OnSys(s2c) /\ s2c'[i] = s2c[i]
    BY <1>0, <2>1, <2>3, OnSysAppend DEF a
  <2>5. id # 0 => SysQueued' = SysQueued
    BY <1>2, <1>4, <1>d, <1>e, <2>1
  <2>6. SysLink => /\ SysQueued' \in Nat /\ Cardinality(OnSys(s2c')) \in Nat
                   /\ SysQueued' + Cardinality(OnSys(s2c')) <= SysQueued + Cardinality(OnSys(s2c))
    BY <1>6, <2>2, <2>4, <2>5
  <2>7. \A n \in DOMAIN sChannels' : \A i \in DOMAIN sChannels'[n] :
          n \in DOMAIN sChannels /\ \E j \in DOMAIN sChannels[n] : sChannels'[n][i] = sChannels[n][j]
    BY <1>2, <2>1
  <2> QED  BY <1>0, <2>2, <2>4, <2>6, <2>7, ServedSys
<1> QED  BY <1>1, <1>7, <1>8, <1>9 DEF p

\* Every variable has its type (TypeOK).  What needs the argument is the queue
\* of channel 0: handleClientLoop never pops from an empty one, and what it
\* hands to a call is always a channel id, even when ids are exhausted and a
\* channel takes the id 0.
THEOREM TypeCorrect == Spec => []TypeOK
<1>1. Init => SysInv
  <2> SUFFICES ASSUME Init PROVE SysInv
    OBVIOUS
  <2>1. Pushed = {} /\ OnSys(c2s) = {} /\ OnSys(s2c) = {}
    BY DEF Init, Pushed, OnSys
  <2>2. IsFiniteSet(Pushed) /\ Cardinality(Pushed) = 0 /\ Cardinality(OnSys(c2s)) = 0
        /\ Cardinality(OnSys(s2c)) = 0
    BY <2>1, FS_EmptySet
  <2>3. Len(cRecv[Sys]) = 0 /\ Len(sysQueue) = 0 /\ SysQueued = 0
    BY DEF Init, SysQueued
  <2>4. QueueTypes
    <3>1. sysQueue \in Seq(Callers)
      BY DEF Init
    <3>2. uncompleted \in [Callers -> Seq(1 .. MaxRequests)]
      BY DEF Init
    <3>3. sent \in [Callers -> 0 .. MaxRequests]
      BY ChannelsAssumption DEF Init
    <3>4. open \in BOOLEAN /\ untidy \in BOOLEAN /\ mixed \in BOOLEAN
      BY Zenon DEF Init
    <3> QED  BY <3>1, <3>2, <3>3, <3>4, Zenon DEF QueueTypes
  <2>5. AnswerTypes
    BY DEF Init, AnswerTypes
  <2>6. SysFindsCall
    BY <2>2, <2>3 DEF Init, SysFindsCall
  <2>7. SysOnly
    BY <2>1 DEF Init, SysOnly
  <2>8. SysCounted
    BY <2>2, <2>3 DEF SysCounted
  <2> QED  BY <2>4, <2>5, <2>6, <2>7, <2>8 DEF SysInv
<1>2. IInv /\ SysInv /\ [Next]_vars => SysInv'
  <2> SUFFICES ASSUME IInv, SysInv, [Next]_vars PROVE SysInv'
    OBVIOUS
  <2>0. Types /\ QueueTypes'
    BY QueueTypesStep DEF IInv
  <2>1. CASE UNCHANGED vars
    <3>1. UNCHANGED <<pc, newId, answer, cChannels, c2s, s2c, sChannels, sysQueue, cRecv>>
      BY <2>1 DEF vars, openVars, cIdVars, sIdVars, queueVars
    <3>2. Pushed' = Pushed /\ SysLink' = SysLink
      BY <3>1 DEF Pushed, SysLink
    <3>3. \A k \in Callers : answer'[k] \in Seq(Ids) /\ Len(answer'[k]) <= 1
      BY <3>1 DEF SysInv, AnswerTypes
    <3>4. \A i \in DOMAIN cChannels' : cChannels'[i] = Sys => i = 0
      BY <3>1 DEF SysInv, SysFindsCall
    <3>5. SysLink' => \A k \in Callers : pc'[k] \in {"open", "closing"} => newId'[k] # 0
      BY <3>1, <3>2 DEF SysInv, SysOnly
    <3> QED  BY <2>0, <3>1, <3>2, <3>3, <3>4, <3>5, SysKept
  <2>2. ASSUME NEW k \in Callers,
               \/ AskTimeout(k) \/ AskReceive(k) \/ CloseSetErr(k) \/ MakeId(k) \/ Register(k)
               \/ CloseRemove(k) \/ Handle(k)
        PROVE  SysInv'
    BY <2>0, <2>2, CallSys
  <2>3. ASSUME NEW k \in Callers, AskPush(k) PROVE SysInv'
    BY <2>0, <2>3, AskPushSys
  <2>4. ASSUME NEW k \in Callers, AskSend(k) PROVE SysInv'
    BY <2>0, <2>4, AskSendSys
  <2>5. ASSUME NEW k \in Callers, NEW kind \in {"req", "delete"}, Send(k, kind) PROVE SysInv'
    BY <2>0, <2>5, SendSys
  <2>6. CASE ClientRead
    BY <2>0, <2>6, ClientReadSys
  <2>7. CASE SysHandle
    BY <2>0, <2>7, SysHandleSys
  <2>8. CASE ServerRead
    BY <2>0, <2>8, ServerReadSys
  <2>9. CASE Serve
    BY <2>0, <2>9, ServeSys
  <2> QED  BY <2>1, <2>2, <2>3, <2>4, <2>5, <2>6, <2>7, <2>8, <2>9 DEF Next, Open
<1>3. IInv /\ SysInv => TypeOK
  BY DEF IInv, Types, SysInv, QueueTypes, AnswerTypes, TypeOK
<1> QED  BY <1>1, <1>2, <1>3, Invariance, PTL DEF Spec
=============================================================================
