---------------------------- MODULE FramingProofs ----------------------------
(***************************************************************************)
(* Proofs about Framing, for any packet size, queue capacities, message    *)
(* sizes and number of messages.                                           *)
(***************************************************************************)
EXTENDS Framing, SequenceTheorems, WellFoundedInduction, TLAPS
-----------------------------------------------------------------------------
(* Sequences of sequences.                                                 *)

\* A set of numbers that is not empty has a smallest one: what the inductions
\* below rest on.
LEMMA LeastNumber ==
  ASSUME NEW T \in SUBSET Nat, T # {}
  PROVE  \E m \in T : \A k \in T : m <= k
<1>1. PICK m \in T : \A k \in T : ~(<<k, m>> \in OpToRel(<, Nat))
  BY NatLessThanWellFounded, WFMin
<1>2. \A k \in T : ~(k < m)
  BY <1>1 DEF OpToRel
<1> QED  BY <1>2

\* f[i] is what the first i sequences of d come to: the function FlattenSeq
\* chooses.
IsFlat(f, d) == f = [i \in 1 .. Len(d) |-> IF i = 1 THEN d[i] ELSE f[i - 1] \o d[i]]

\* There is one for the first n sequences ...
Flat(n, d, S) ==
  {f \in [1 .. n -> Seq(S)] : \A i \in 1 .. n : f[i] = IF i = 1 THEN d[i] ELSE f[i - 1] \o d[i]}

LEMMA FlatExists ==
  ASSUME NEW S, NEW d \in Seq(Seq(S)), NEW n \in 1 .. Len(d)
  PROVE  Flat(n, d, S) # {}
<1> DEFINE T == {k \in 1 .. Len(d) : Flat(k, d, S) = {}}
<1> SUFFICES ASSUME T # {} PROVE FALSE
  OBVIOUS
<1>0. T \in SUBSET Nat
  OBVIOUS
<1>1. PICK m \in T : \A k \in T : m <= k
  <2> HIDE DEF T
  <2> QED  BY <1>0, LeastNumber
<1>2. /\ m \in 1 .. Len(d) /\ Flat(m, d, S) = {}
      /\ m > 1 => Flat(m - 1, d, S) # {}
  <2>1. m \in 1 .. Len(d) /\ Flat(m, d, S) = {} /\ m \in Int
    OBVIOUS
  <2>2. ASSUME m > 1, Flat(m - 1, d, S) = {} PROVE FALSE
    <3>1. m - 1 \in 1 .. Len(d) /\ ~(m <= m - 1)
      BY <2>1, <2>2
    <3>2. m - 1 \in T
      BY <2>2, <3>1
    <3> QED  BY <1>1, <3>1, <3>2
  <2> QED  BY <2>1, <2>2
<1>3. d[m] \in Seq(S)
  BY <1>2
<1>4. CASE m = 1
  <2> DEFINE f == [i \in 1 .. m |-> d[i]]
  <2>1. f \in Flat(m, d, S)
    BY <1>2, <1>3, <1>4 DEF Flat
  <2> QED  BY <1>2, <2>1
<1>5. CASE m > 1
  <2>1. PICK g : g \in Flat(m - 1, d, S)
    BY <1>2, <1>5
  <2> DEFINE f == [i \in 1 .. m |-> IF i = m THEN g[m - 1] \o d[m] ELSE g[i]]
  <2>2. /\ g \in [1 .. m - 1 -> Seq(S)]
        /\ \A i \in 1 .. m - 1 : g[i] = IF i = 1 THEN d[i] ELSE g[i - 1] \o d[i]
    BY <2>1 DEF Flat
  <2>3. m - 1 \in 1 .. m - 1 /\ m \in 1 .. m /\ m # 1 /\ m \in Int
    BY <1>2, <1>5
  <2>4. g[m - 1] \o d[m] \in Seq(S)
    BY <1>3, <2>2, <2>3, ConcatProperties
  <2>5. f \in [1 .. m -> Seq(S)]
    BY <2>2, <2>3, <2>4
  <2>6. \A i \in 1 .. m - 1 : f[i] = g[i]
    BY <2>3
  <2>7. f[m] = f[m - 1] \o d[m]
    BY <2>3, <2>6
  <2>8. \A i \in 1 .. m : f[i] = IF i = 1 THEN d[i] ELSE f[i - 1] \o d[i]
    <3> SUFFICES ASSUME NEW i \in 1 .. m PROVE f[i] = IF i = 1 THEN d[i] ELSE f[i - 1] \o d[i]
      OBVIOUS
    <3> HIDE DEF f
    <3>1. CASE i = m
      BY <2>3, <2>7, <3>1
    <3>2. CASE i = 1
      <4>1. 1 \in 1 .. m - 1
        BY <2>3
      <4>2. f[1] = g[1] /\ g[1] = d[1]
        BY <2>2, <2>6, <4>1
      <4> QED  BY <3>2, <4>2
    <3>3. CASE i # m /\ i # 1
      <4>1. i \in 1 .. m - 1 /\ i - 1 \in 1 .. m - 1
        BY <2>3, <3>3
      <4>2. f[i] = g[i] /\ f[i - 1] = g[i - 1]
        BY <2>6, <4>1
      <4>3. g[i] = g[i - 1] \o d[i]
        BY <2>2, <3>3, <4>1
      <4> QED  BY <3>3, <4>2, <4>3
    <3> QED  BY <3>1, <3>2, <3>3
  <2>9. f \in Flat(m, d, S)
    <3> HIDE DEF f
    <3> QED  BY <2>5, <2>8 DEF Flat
  <2> QED  BY <1>2, <2>9
<1> QED  BY <1>2, <1>4, <1>5

\* ... and no more than one.
LEMMA FlatUnique ==
  ASSUME NEW d, Len(d) \in Nat, NEW f, NEW g, IsFlat(f, d), IsFlat(g, d)
  PROVE  f = g
<1> DEFINE T == {i \in 1 .. Len(d) : f[i] # g[i]}
<1>1. /\ \A i \in 1 .. Len(d) : f[i] = IF i = 1 THEN d[i] ELSE f[i - 1] \o d[i]
      /\ \A i \in 1 .. Len(d) : g[i] = IF i = 1 THEN d[i] ELSE g[i - 1] \o d[i]
  BY DEF IsFlat
<1>2. ASSUME T # {} PROVE FALSE
  <2>0. T \in SUBSET Nat
    OBVIOUS
  <2>1. PICK m \in T : \A k \in T : m <= k
    <3> HIDE DEF T
    <3> QED  BY <1>2, <2>0, LeastNumber
  <2>2. m \in 1 .. Len(d) /\ f[m] # g[m] /\ m \in Int
    BY <2>1
  <2>3. CASE m = 1
    BY <1>1, <2>2, <2>3
  <2>4. CASE m # 1
    <3>1. m - 1 \in 1 .. Len(d) /\ ~(m <= m - 1)
      BY <2>2, <2>4
    <3>2. f[m - 1] = g[m - 1]
      BY <2>1, <3>1
    <3> QED  BY <1>1, <2>2, <2>4, <3>2
  <2> QED  BY <2>3, <2>4
<1>3. \A i \in 1 .. Len(d) : f[i] = g[i]
  BY <1>2
<1> HIDE DEF T
<1>4. \E F : f = [i \in 1 .. Len(d) |-> F[i]]
  <2> DEFINE F == [i \in 1 .. Len(d) |-> IF i = 1 THEN d[i] ELSE f[i - 1] \o d[i]]
  <2>1. f = F
    BY DEF IsFlat
  <2>2. F = [i \in 1 .. Len(d) |-> F[i]]
    OBVIOUS
  <2> QED  BY <2>1, <2>2
<1>5. \E G : g = [i \in 1 .. Len(d) |-> G[i]]
  <2> DEFINE G == [i \in 1 .. Len(d) |-> IF i = 1 THEN d[i] ELSE g[i - 1] \o d[i]]
  <2>1. g = G
    BY DEF IsFlat
  <2>2. G = [i \in 1 .. Len(d) |-> G[i]]
    OBVIOUS
  <2> QED  BY <2>1, <2>2
<1> QED  BY <1>3, <1>4, <1>5

\* What FlattenSeq returns.
LEMMA FlattenIs ==
  ASSUME NEW S, NEW d \in Seq(Seq(S)), Len(d) # 0, NEW f \in Flat(Len(d), d, S)
  PROVE  FlattenSeq(d) = f[Len(d)]
<1>1. Len(d) \in Nat
  OBVIOUS
<1>2. IsFlat(f, d)
  <2>1. /\ f \in [1 .. Len(d) -> Seq(S)]
        /\ \A i \in 1 .. Len(d) : f[i] = IF i = 1 THEN d[i] ELSE f[i - 1] \o d[i]
    BY DEF Flat
  <2> QED  BY <2>1 DEF IsFlat
<1>3. FlattenSeq(d) = (CHOOSE g : IsFlat(g, d))[Len(d)]
  BY DEF FlattenSeq, IsFlat
<1>4. IsFlat(CHOOSE g : IsFlat(g, d), d)
  BY <1>2
<1>5. (CHOOSE g : IsFlat(g, d)) = f
  BY <1>1, <1>2, <1>4, FlatUnique
<1> QED  BY <1>3, <1>5

\* Nothing comes to nothing.
LEMMA FlattenEmpty == FlattenSeq(<<>>) = <<>>
BY DEF FlattenSeq

\* One more sequence is put behind what the others come to.
LEMMA FlattenAppend ==
  ASSUME NEW S, NEW d \in Seq(Seq(S)), NEW w \in Seq(S)
  PROVE  FlattenSeq(d) \in Seq(S) /\ FlattenSeq(Append(d, w)) = FlattenSeq(d) \o w
<1> DEFINE e == Append(d, w)
<1>1. /\ e \in Seq(Seq(S)) /\ Len(e) = Len(d) + 1 /\ e[Len(e)] = w /\ Len(d) \in Nat
      /\ \A i \in 1 .. Len(d) : e[i] = d[i]
  OBVIOUS
<1> HIDE DEF e
<1>2. PICK f : f \in Flat(Len(e), e, S)
  <2>1. Len(e) \in 1 .. Len(e)
    BY <1>1
  <2>2. Flat(Len(e), e, S) # {}
    BY <1>1, <2>1, FlatExists
  <2> QED  BY <2>2
<1>3. FlattenSeq(e) = f[Len(e)]
  BY <1>1, <1>2, FlattenIs
<1>4. /\ f \in [1 .. Len(e) -> Seq(S)]
      /\ \A i \in 1 .. Len(e) : f[i] = IF i = 1 THEN e[i] ELSE f[i - 1] \o e[i]
  BY <1>2 DEF Flat
<1>5. CASE Len(d) = 0
  <2>1. d = <<>> /\ FlattenSeq(d) = <<>>
    BY <1>5, FlattenEmpty
  <2>2. f[Len(e)] = w
    BY <1>1, <1>4, <1>5
  <2>3. <<>> \o w = w
    BY ConcatEmptySeq
  <2>4. FlattenSeq(d) \in Seq(S) /\ FlattenSeq(d) \o w = w
    BY <2>1, <2>3, EmptySeq
  <2>5. FlattenSeq(e) = FlattenSeq(d) \o w
    BY <1>3, <2>2, <2>4
  <2> QED  BY <2>4, <2>5 DEF e
<1>6. CASE Len(d) # 0
  <2> DEFINE g == [i \in 1 .. Len(d) |-> f[i]]
  <2>1. g \in Flat(Len(d), d, S)
    <3>1. g \in [1 .. Len(d) -> Seq(S)]
      BY <1>1, <1>4
    <3>2. \A i \in 1 .. Len(d) : g[i] = IF i = 1 THEN d[i] ELSE g[i - 1] \o d[i]
      <4> SUFFICES ASSUME NEW i \in 1 .. Len(d)
                   PROVE  g[i] = IF i = 1 THEN d[i] ELSE g[i - 1] \o d[i]
        OBVIOUS
      <4>1. i \in 1 .. Len(e) /\ e[i] = d[i] /\ (i # 1 => i - 1 \in 1 .. Len(d))
        BY <1>1
      <4>2. g[i] = f[i] /\ (i # 1 => g[i - 1] = f[i - 1])
        BY <4>1
      <4>3. f[i] = IF i = 1 THEN e[i] ELSE f[i - 1] \o e[i]
        BY <1>4, <4>1
      <4> HIDE DEF g
      <4> QED  BY <4>1, <4>2, <4>3
    <3> HIDE DEF g
    <3> QED  BY <3>1, <3>2 DEF Flat
  <2>2. FlattenSeq(d) = g[Len(d)]
    <3> HIDE DEF g
    <3> QED  BY <1>6, <2>1, FlattenIs
  <2>3. Len(d) \in 1 .. Len(d) /\ Len(e) \in 1 .. Len(e) /\ Len(e) # 1 /\ Len(e) - 1 = Len(d)
    BY <1>1, <1>6
  <2>4. g[Len(d)] = f[Len(d)] /\ f[Len(d)] \in Seq(S)
    BY <1>1, <1>4, <2>3
  <2>5. f[Len(e)] = f[Len(e) - 1] \o e[Len(e)]
    BY <1>4, <2>3
  <2> HIDE DEF g
  <2>6. f[Len(e)] = f[Len(d)] \o w
    BY <1>1, <2>3, <2>5
  <2> QED  BY <1>3, <2>2, <2>4, <2>6 DEF e
<1> QED  BY <1>5, <1>6
-----------------------------------------------------------------------------
(* Types, and what the steps do to the packets taken.                      *)

Packets == [status : Nat, data : Seq(Nat)]

Types ==
  /\ role \in {"client", "server"} /\ foreign \in BOOLEAN /\ alive \in BOOLEAN
  /\ asked \in Nat /\ started \in Nat /\ made \in Nat /\ request \in Nat /\ responses \in Nat
  /\ outstanding \in Seq(Nat) /\ sentMsgs \in Seq(Seq(Nat))
  /\ writeQ \in Seq(Packets) /\ wire \in Seq(Packets)
  /\ accepted \in Seq(Packets) /\ receivedQueue \in Seq(Packets) /\ whole \in Seq(Packets)
  /\ delivered \in Seq(Seq(Packets)) /\ pairs \in Seq(Nat \X Nat)
  /\ loop \in {"select", "handle"} /\ packetStatus \in Nat
  /\ loop = "handle" => whole # <<>>

\* The statuses of a role are four numbers in a row.
LEMMA StatusValues ==
  /\ FirstPart \in {0, 4} /\ FirstFull = FirstPart + 1
  /\ LaterPart = FirstPart + 2 /\ LaterFull = FirstPart + 3
BY DEF FirstPart, FirstFull, LaterPart, LaterFull

\* sendPacket goes round a number of times.
LEMMA RoundsType ==
  ASSUME NEW n \in Nat
  PROVE  Rounds(n) \in Nat
<1>1. MaxPacketSize \in Nat \ {0}
  BY FramingAssumption
<1> QED  BY <1>1 DEF Rounds

\* What it queues are packets.
LEMMA QueuedType ==
  ASSUME NEW m \in Nat, NEW n \in Nat
  PROVE  Queued(m, n) \in Seq(Packets) /\ [j \in 1 .. n |-> m] \in Seq(Nat)
<1> DEFINE data == [j \in 1 .. n |-> m]
<1>1. data \in Seq(Nat)
  OBVIOUS
<1>2. Queued(m, n) = IF n <= MaxPacketSize \/ role = "server"
                     THEN <<[status |-> FirstFull, data |-> data]>>
                     ELSE [i \in 1 .. Rounds(n) |-> [status |-> 0, data |-> data]]
  BY DEF Queued
<1> HIDE DEF data
<1>3. [status |-> FirstFull, data |-> data] \in Packets /\ [status |-> 0, data |-> data] \in Packets
  BY <1>1, StatusValues DEF Packets
<1>4. Rounds(n) \in Nat
  BY RoundsType
<1>5. <<[status |-> FirstFull, data |-> data]>> \in Seq(Packets)
  BY <1>3
<1>6. [i \in 1 .. Rounds(n) |-> [status |-> 0, data |-> data]] \in Seq(Packets)
  BY <1>3, <1>4
<1> QED  BY <1>1, <1>2, <1>5, <1>6, Zenon DEF data

\* The handlers of the two roles do the same to the packets.
Handled ==
  /\ alive /\ loop = "handle" /\ loop' = "select" /\ AfterWhole
  /\ UNCHANGED <<role, foreign, asked, sentMsgs, writeQ, made, started, wire, packetStatus,
                 accepted, receivedQueue, alive>>

LEMMA HandledSteps ==
  ASSUME ClientHandled \/ ServerHandled
  PROVE  Handled
BY DEF ClientHandled, ServerHandled, Handled, sendVars, readVars

LEMMA AppendNotEmpty ==
  ASSUME NEW S, NEW s \in Seq(S), NEW e \in S
  PROVE  Append(s, e) \in Seq(S) /\ Append(s, e) # <<>>
<1>1. Append(s, e) \in Seq(S) /\ Len(Append(s, e)) = Len(s) + 1 /\ Len(s) \in Nat
  BY AppendProperties, LenProperties
<1>2. Len(<<>>) = 0
  BY EmptySeq
<1> QED  BY <1>1, <1>2

\* The types are kept.
LEMMA TypesStep ==
  ASSUME Types, [FramingNext]_framingVars
  PROVE  Types'
<1> USE DEF Types
<1>1. CASE Ask
  <2>1. /\ asked' = asked + 1 /\ outstanding' = Append(outstanding, asked')
        /\ UNCHANGED <<role, foreign, sentMsgs, writeQ, made, started, wire, packetStatus,
                       accepted, receivedQueue, whole, loop, request, delivered, pairs,
                       responses, alive>>
    BY <1>1 DEF Ask, readVars, handleVars
  <2>2. asked' \in Nat /\ outstanding' \in Seq(Nat)
    BY <2>1
  <2> QED  BY <2>1, <2>2
<1>2. CASE SendPacket
  <2>1. /\ started' = started + 1
        /\ UNCHANGED <<role, foreign, asked, made, outstanding, wire, packetStatus, accepted,
                       receivedQueue, whole, loop, request, delivered, pairs, responses, alive>>
    BY <1>2 DEF SendPacket, readVars, handleVars
  <2>2. PICK n \in Sizes : /\ writeQ' = writeQ \o Queued(started', n)
                           /\ sentMsgs' = Append(sentMsgs, [j \in 1 .. n |-> started'])
    BY <1>2 DEF SendPacket
  <2>3. n \in Nat /\ started' \in Nat
    BY <2>1, FramingAssumption
  <2>4. Queued(started', n) \in Seq(Packets) /\ [j \in 1 .. n |-> started'] \in Seq(Nat)
    BY <2>3, QueuedType
  <2>5. writeQ' \in Seq(Packets)
    BY <2>2, <2>4, ConcatProperties
  <2>6. sentMsgs' \in Seq(Seq(Nat))
    BY <2>2, <2>4, AppendProperties
  <2> QED  BY <2>1, <2>3, <2>5, <2>6
<1>3. CASE Write
  <2>1. /\ writeQ # <<>> /\ writeQ' = Tail(writeQ)
        /\ UNCHANGED <<role, foreign, asked, sentMsgs, made, started, outstanding, packetStatus,
                       accepted, receivedQueue, whole, loop, request, delivered, pairs,
                       responses>>
        /\ \/ alive' = FALSE /\ UNCHANGED wire
           \/ wire' = Append(wire, Head(writeQ)) /\ UNCHANGED alive
    BY <1>3 DEF Write, readVars, handleVars
  <2>2. writeQ' \in Seq(Packets) /\ Head(writeQ) \in Packets
    BY <2>1, HeadTailProperties
  <2>a. Append(wire, Head(writeQ)) \in Seq(Packets)
    BY <2>2, AppendProperties
  <2>3. wire' \in Seq(Packets) /\ alive' \in BOOLEAN
    BY <2>1, <2>a, Zenon
  <2> QED  BY <2>1, <2>2, <2>3
<1>4. CASE ForeignSend
  <2>1. /\ made' = made + 1
        /\ UNCHANGED <<role, foreign, asked, sentMsgs, writeQ, outstanding, packetStatus,
                       accepted, receivedQueue, whole, loop, request, delivered, pairs,
                       responses, alive>>
    BY <1>4 DEF ForeignSend, readVars, handleVars
  <2>2. PICK status \in 0 .. 9, n \in 0 .. MaxPacketSize + 1 :
          /\ started' \in {started, started + 1}
          /\ wire' = Append(wire, [status |-> status, data |-> [j \in 1 .. n |-> made + 1]])
    BY <1>4 DEF ForeignSend
  <2>3. [j \in 1 .. n |-> made + 1] \in Seq(Nat)
    BY FramingAssumption
  <2>4. [status |-> status, data |-> [j \in 1 .. n |-> made + 1]] \in Packets
    BY <2>3 DEF Packets
  <2>5. wire' \in Seq(Packets) /\ started' \in Nat /\ made' \in Nat
    BY <2>1, <2>2, <2>4, AppendProperties
  <2> QED  BY <2>1, <2>5
<1>5. CASE Read
  <2>1. /\ wire # <<>> /\ wire' = Tail(wire)
        /\ UNCHANGED <<role, foreign, asked, sentMsgs, writeQ, made, started, outstanding,
                       whole, loop, request, delivered, pairs, responses>>
        /\ \/ /\ packetStatus' = Head(wire).status
              /\ accepted' = Append(accepted, Head(wire))
              /\ receivedQueue' = Append(receivedQueue, Head(wire)) /\ UNCHANGED alive
           \/ alive' = FALSE /\ UNCHANGED <<packetStatus, accepted, receivedQueue>>
    BY <1>5 DEF Read, sendVars, readVars, handleVars
  <2>2. wire' \in Seq(Packets) /\ Head(wire) \in Packets
    BY <2>1, HeadTailProperties
  <2>3. Head(wire).status \in Nat
    BY <2>2 DEF Packets
  <2>a. /\ Append(accepted, Head(wire)) \in Seq(Packets)
        /\ Append(receivedQueue, Head(wire)) \in Seq(Packets)
    BY <2>2, AppendProperties
  <2>4. /\ accepted' \in Seq(Packets) /\ receivedQueue' \in Seq(Packets)
        /\ packetStatus' \in Nat /\ alive' \in BOOLEAN
    BY <2>1, <2>3, <2>a, Zenon
  <2> QED  BY <2>1, <2>2, <2>4
<1>6. CASE Take
  <2>1. /\ receivedQueue # <<>> /\ whole' = Append(whole, Head(receivedQueue))
        /\ receivedQueue' = Tail(receivedQueue)
        /\ UNCHANGED <<role, foreign, asked, sentMsgs, writeQ, made, started, wire,
                       packetStatus, accepted, delivered, pairs, responses>>
    BY <1>6 DEF Take, sendVars, readVars
  <2>2. receivedQueue' \in Seq(Packets) /\ Head(receivedQueue) \in Packets
    BY <2>1, HeadTailProperties
  <2>a. /\ Append(whole, Head(receivedQueue)) \in Seq(Packets)
        /\ Append(whole, Head(receivedQueue)) # <<>>
    BY <2>2, AppendNotEmpty
  <2>3. whole' \in Seq(Packets) /\ whole' # <<>>
    BY <2>1, <2>a, Zenon
  <2>4. /\ loop' \in {"select", "handle"} /\ alive' \in BOOLEAN
        /\ \/ UNCHANGED <<request, outstanding>>
           \/ outstanding # <<>> /\ request' = Head(outstanding) /\ outstanding' = Tail(outstanding)
    BY <1>6 DEF Take
  <2>5. request' \in Nat /\ outstanding' \in Seq(Nat)
    BY <2>4, HeadTailProperties
  <2> QED  BY <2>1, <2>2, <2>3, <2>4, <2>5
<1>7. CASE ClientHandled \/ ServerHandled
  <2>1. Handled
    BY <1>7, HandledSteps
  <2>a. Append(delivered, whole) \in Seq(Seq(Packets)) /\ <<>> \in Seq(Packets)
    BY AppendProperties, EmptySeq
  <2>2. delivered' \in Seq(Seq(Packets)) /\ whole' \in Seq(Packets)
    BY <2>1, <2>a, Zenon DEF Handled, AfterWhole
  <2>3. request' \in Nat /\ responses' \in Nat
    <3>1. CASE ClientHandled
      BY <3>1 DEF ClientHandled
    <3>2. CASE ServerHandled
      <4>1. responses' \in {responses, responses + 1} /\ UNCHANGED request
        BY <3>2 DEF ServerHandled
      <4> QED  BY <4>1
    <3> QED  BY <1>7, <3>1, <3>2
  <2>4. <<Len(delivered) + 1, request>> \in Nat \X Nat
    OBVIOUS
  <2>b. Append(pairs, <<Len(delivered) + 1, request>>) \in Seq(Nat \X Nat)
    BY <2>4, AppendProperties
  <2>5. pairs' \in Seq(Nat \X Nat)
    BY <1>7, <2>b, Zenon DEF ClientHandled, ServerHandled
  <2>c. <<request>> \o outstanding \in Seq(Nat)
    BY ConcatProperties
  <2>6. outstanding' \in Seq(Nat)
    BY <1>7, <2>c, Zenon DEF ClientHandled, ServerHandled, PutBack
  <2>7. /\ role' \in {"client", "server"} /\ foreign' \in BOOLEAN /\ alive' \in BOOLEAN
        /\ asked' \in Nat /\ started' \in Nat /\ made' \in Nat /\ sentMsgs' \in Seq(Seq(Nat))
        /\ writeQ' \in Seq(Packets) /\ wire' \in Seq(Packets) /\ accepted' \in Seq(Packets)
        /\ receivedQueue' \in Seq(Packets) /\ packetStatus' \in Nat /\ loop' = "select"
    BY <2>1 DEF Handled
  <2> QED  BY <2>2, <2>3, <2>5, <2>6, <2>7
<1>8. CASE UNCHANGED framingVars
  BY <1>8 DEF framingVars, sendVars, readVars, handleVars
<1> QED  BY <1>1, <1>2, <1>3, <1>4, <1>5, <1>6, <1>7, <1>8 DEF FramingNext

\* The packets the handle loop has taken.
Taken == FlattenSeq(delivered) \o whole

LEMMA TakenType ==
  ASSUME Types
  PROVE  FlattenSeq(delivered) \in Seq(Packets) /\ Taken \in Seq(Packets)
<1>1. FlattenSeq(delivered) \in Seq(Packets)
  BY FlattenAppend DEF Types
<1> QED  BY <1>1, ConcatProperties DEF Types, Taken

\* A packet taken is one more of them ...
LEMMA TakenGrows ==
  ASSUME Types, Take
  PROVE  /\ Head(receivedQueue) \in Packets /\ Taken' = Append(Taken, Head(receivedQueue))
         /\ Taken' \o receivedQueue' = Taken \o receivedQueue
<1>1. /\ receivedQueue # <<>> /\ whole' = Append(whole, Head(receivedQueue))
      /\ receivedQueue' = Tail(receivedQueue) /\ UNCHANGED delivered
      /\ whole \in Seq(Packets) /\ receivedQueue \in Seq(Packets)
  BY DEF Take, Types
<1> DEFINE F == FlattenSeq(delivered)
           h == Head(receivedQueue)
           q == Tail(receivedQueue)
<1>2. F \in Seq(Packets) /\ h \in Packets /\ q \in Seq(Packets)
  BY <1>1, TakenType, HeadTailProperties
<1>3. Taken = F \o whole /\ Taken' = F \o Append(whole, h)
  BY <1>1 DEF Taken
<1>4. receivedQueue = <<h>> \o q
  BY <1>1
<1> HIDE DEF F, h, q
<1>5. F \o Append(whole, h) = Append(F \o whole, h)
  <2>1. <<h>> \in Seq(Packets) /\ F \o whole \in Seq(Packets)
    BY <1>1, <1>2, ConcatProperties
  <2>2. Append(F \o whole, h) = (F \o whole) \o <<h>>
    BY <1>2, <2>1, AppendIsConcat
  <2>3. (F \o whole) \o <<h>> = F \o (whole \o <<h>>)
    <3>1. F \in Seq(Packets) /\ whole \in Seq(Packets) /\ <<h>> \in Seq(Packets)
      BY <1>1, <1>2, <2>1
    <3> QED  BY <3>1, ConcatAssociative
  <2>4. Append(whole, h) = whole \o <<h>>
    BY <1>1, <1>2, AppendIsConcat
  <2> QED  BY <2>2, <2>3, <2>4, Zenon
<1>6. Append(F \o whole, h) \o q = (F \o whole) \o receivedQueue
  <2>1. <<h>> \in Seq(Packets) /\ F \o whole \in Seq(Packets)
    BY <1>1, <1>2, ConcatProperties
  <2>2. Append(F \o whole, h) = (F \o whole) \o <<h>>
    BY <1>2, <2>1, AppendIsConcat
  <2>3. ((F \o whole) \o <<h>>) \o q = (F \o whole) \o (<<h>> \o q)
    BY <1>2, <2>1, ConcatAssociative
  <2> QED  BY <1>4, <2>2, <2>3
<1>7. Taken' = Append(Taken, h)
  BY <1>3, <1>5
<1>8. Taken' \o receivedQueue' = Taken \o receivedQueue
  <2>1. receivedQueue' = q
    BY <1>1 DEF q
  <2> QED  BY <1>3, <1>6, <1>7, <2>1
<1> QED  BY <1>2, <1>7, <1>8 DEF h

\* ... and a complete message stays taken when it is delivered.
LEMMA TakenKept ==
  ASSUME Types, Handled
  PROVE  Taken' = Taken
<1>0. whole \in Seq(Packets) /\ delivered \in Seq(Seq(Packets))
  BY DEF Types
<1>1. CASE Completed(WholeStatus)
  <2>1. delivered' = Append(delivered, whole) /\ whole' = <<>>
    BY <1>1 DEF Handled, AfterWhole
  <2>2. FlattenSeq(delivered') = FlattenSeq(delivered) \o whole
    BY <1>0, <2>1, FlattenAppend
  <2>3. Taken' = Taken \o <<>>
    BY <2>1, <2>2 DEF Taken
  <2> QED  BY <2>3, TakenType, ConcatEmptySeq
<1>2. CASE ~Completed(WholeStatus)
  <2>1. UNCHANGED <<delivered, whole>>
    BY <1>2 DEF Handled, AfterWhole
  <2> QED  BY <2>1 DEF Taken
<1> QED  BY <1>1, <1>2

\* The steps before the handle loop.
Outside ==
  UNCHANGED <<role, foreign, whole, loop, request, delivered, pairs, responses>>

LEMMA OutsideSteps ==
  ASSUME Ask \/ SendPacket \/ Write \/ ForeignSend \/ Read \/ UNCHANGED framingVars
  PROVE  Outside /\ UNCHANGED Taken
<1>1. Outside
  BY DEF Ask, SendPacket, Write, ForeignSend, Read, Outside, framingVars, sendVars, handleVars
<1> QED  BY <1>1 DEF Outside, Taken

\* The types hold in every state.
THEOREM TypeCorrect == FramingSpec => []Types
<1>1. FramingInit => Types
  BY DEF FramingInit, Types
<1>2. Types /\ [FramingNext]_framingVars => Types'
  BY TypesStep
<1> QED  BY <1>1, <1>2, PTL DEF FramingSpec
-----------------------------------------------------------------------------
(* A client finds the request of every part of a response.                 *)

\* The packet the handle loop has in hand.
InHand == IF loop = "handle" THEN 1 ELSE 0

\* The requests a client has yet to see answered are numbered from the first
\* response that is not complete; the handle loop may have that one in hand.
Requests ==
  role = "client" =>
    /\ Len(outstanding) + Len(delivered) + InHand = asked
    /\ loop = "handle" => request = Len(delivered) + 1
    /\ \A i \in 1 .. Len(outstanding) : outstanding[i] = Len(delivered) + InHand + i

LEMMA RequestsStep ==
  ASSUME Types, Requests, PartsFindRequest, [FramingNext]_framingVars
  PROVE  Requests' /\ PartsFindRequest'
<1>0. /\ Len(delivered) \in Nat /\ loop \in {"select", "handle"} /\ asked \in Nat
      /\ outstanding \in Seq(Nat) /\ Len(outstanding) \in Nat /\ InHand \in {0, 1}
  BY DEF Types, InHand
<1>1. CASE Ask
  <2>1. /\ Outside /\ role = "client" /\ asked' = asked + 1
        /\ outstanding' = Append(outstanding, asked + 1)
    BY <1>1, OutsideSteps DEF Ask
  <2>2. UNCHANGED <<role, delivered, loop, request, pairs, InHand>>
    BY <2>1 DEF Outside, InHand
  <2>3. /\ Len(outstanding') = Len(outstanding) + 1
        /\ outstanding'[Len(outstanding) + 1] = asked + 1
        /\ \A i \in 1 .. Len(outstanding) : outstanding'[i] = outstanding[i]
    BY <1>0, <2>1
  <2>4. /\ Len(outstanding) + Len(delivered) + InHand = asked
        /\ loop = "handle" => request = Len(delivered) + 1
        /\ \A i \in 1 .. Len(outstanding) : outstanding[i] = Len(delivered) + InHand + i
    BY <2>1 DEF Requests
  <2>5. \A i \in 1 .. Len(outstanding') : outstanding'[i] = Len(delivered) + InHand + i
    BY <1>0, <2>3, <2>4
  <2>6. Len(outstanding') + Len(delivered) + InHand = asked'
    BY <1>0, <2>1, <2>3, <2>4
  <2> QED  BY <2>2, <2>4, <2>5, <2>6 DEF Requests, PartsFindRequest
<1>2. CASE SendPacket \/ Write \/ ForeignSend \/ Read \/ UNCHANGED framingVars
  <2>1. Outside /\ UNCHANGED <<asked, outstanding>>
    BY <1>2, OutsideSteps DEF SendPacket, Write, ForeignSend, Read, framingVars, sendVars
  <2> QED  BY <2>1 DEF Outside, Requests, PartsFindRequest, InHand
<1>3. CASE Take
  <2>1. /\ UNCHANGED <<role, delivered, pairs, asked>> /\ loop = "select" /\ InHand = 0
    BY <1>3 DEF Take, sendVars, InHand
  <2>2. PartsFindRequest'
    BY <2>1 DEF PartsFindRequest
  <2>3. CASE role # "client"
    BY <2>1, <2>2, <2>3 DEF Requests
  <2>4. CASE role = "client" /\ outstanding = <<>>
    <3>1. UNCHANGED <<outstanding, loop, request, InHand>>
      BY <1>3, <2>4 DEF Take, InHand
    <3> QED  BY <2>1, <2>2, <3>1 DEF Requests
  <2>5. CASE role = "client" /\ outstanding # <<>>
    <3>1. /\ loop' = "handle" /\ InHand' = 1
          /\ request' = Head(outstanding) /\ outstanding' = Tail(outstanding)
      BY <1>3, <2>5 DEF Take, InHand
    <3>2. /\ Len(outstanding) + Len(delivered) = asked
          /\ \A i \in 1 .. Len(outstanding) : outstanding[i] = Len(delivered) + i
      BY <1>0, <2>1, <2>5 DEF Requests
    <3>3. /\ Len(outstanding) \in Nat \ {0} /\ Head(outstanding) = outstanding[1]
          /\ Len(outstanding') = Len(outstanding) - 1
          /\ \A i \in 1 .. Len(outstanding') : outstanding'[i] = outstanding[i + 1]
      BY <1>0, <2>5, <3>1
    <3>4. request' = Len(delivered) + 1
      BY <3>1, <3>2, <3>3
    <3>5. \A i \in 1 .. Len(outstanding') : outstanding'[i] = Len(delivered) + 1 + i
      BY <1>0, <3>2, <3>3
    <3>6. Len(outstanding') + Len(delivered) + 1 = asked
      BY <1>0, <3>2, <3>3
    <3> QED  BY <2>1, <2>2, <3>1, <3>4, <3>5, <3>6 DEF Requests
  <2> QED  BY <2>3, <2>4, <2>5
<1>4. CASE ClientHandled
  <2>1. /\ role = "client" /\ loop = "handle" /\ loop' = "select" /\ InHand = 1 /\ InHand' = 0
        /\ UNCHANGED <<role, asked>> /\ pairs' = Append(pairs, <<Len(delivered) + 1, request>>)
    BY <1>4 DEF ClientHandled, sendVars, InHand
  <2>2. /\ Len(outstanding) + Len(delivered) + 1 = asked /\ request = Len(delivered) + 1
        /\ \A i \in 1 .. Len(outstanding) : outstanding[i] = Len(delivered) + 1 + i
    BY <2>1 DEF Requests
  <2>3. PartsFindRequest'
    <3>1. pairs \in Seq(Nat \X Nat) /\ <<Len(delivered) + 1, request>> \in Nat \X Nat
      BY DEF Types
    <3>2. \A i \in 1 .. Len(pairs) : pairs[i][1] = pairs[i][2]
      BY <3>1 DEF PartsFindRequest
    <3>3. /\ DOMAIN pairs' = 1 .. Len(pairs) + 1 /\ Len(pairs) \in Nat
          /\ pairs'[Len(pairs) + 1] = <<Len(delivered) + 1, request>>
          /\ \A i \in 1 .. Len(pairs) : pairs'[i] = pairs[i]
      BY <2>1, <3>1
    <3>4. \A i \in 1 .. Len(pairs) + 1 : i \in 1 .. Len(pairs) \/ i = Len(pairs) + 1
      BY <3>3
    <3> QED  BY <2>2, <3>2, <3>3, <3>4 DEF PartsFindRequest
  <2>4. CASE Completed(WholeStatus)
    <3>1. delivered' = Append(delivered, whole) /\ UNCHANGED outstanding
      BY <1>4, <2>4 DEF ClientHandled, AfterWhole
    <3>2. Len(delivered') = Len(delivered) + 1
      BY <3>1 DEF Types
    <3> QED  BY <1>0, <2>1, <2>2, <2>3, <3>1, <3>2 DEF Requests
  <2>5. CASE ~Completed(WholeStatus)
    <3>1. UNCHANGED delivered /\ outstanding' = <<request>> \o outstanding
      BY <1>4, <2>5 DEF ClientHandled, AfterWhole, PutBack
    <3>2. /\ Len(outstanding') = Len(outstanding) + 1 /\ outstanding'[1] = request
          /\ \A i \in 2 .. Len(outstanding) + 1 : outstanding'[i] = outstanding[i - 1]
      <4>1. <<request>> \in Seq(Nat) /\ Len(<<request>>) = 1
        BY DEF Types
      <4> QED  BY <1>0, <3>1, <4>1
    <3>3. \A i \in 1 .. Len(outstanding') : outstanding'[i] = Len(delivered) + i
      BY <1>0, <2>2, <3>2
    <3> QED  BY <1>0, <2>1, <2>2, <2>3, <3>1, <3>2, <3>3 DEF Requests
  <2> QED  BY <2>4, <2>5
<1>5. CASE ServerHandled
  <2>1. UNCHANGED <<role, pairs>> /\ role = "server"
    BY <1>5 DEF ServerHandled, sendVars
  <2> QED  BY <2>1 DEF Requests, PartsFindRequest
<1> QED  BY <1>1, <1>2, <1>3, <1>4, <1>5 DEF FramingNext

LEMMA RequestsInvariant == FramingSpec => [](Requests /\ PartsFindRequest)
<1>1. FramingInit => Requests /\ PartsFindRequest
  BY DEF FramingInit, Requests, PartsFindRequest, InHand
<1>2. Types /\ Requests /\ PartsFindRequest /\ [FramingNext]_framingVars => Requests' /\ PartsFindRequest'
  BY RequestsStep
<1> QED  BY <1>1, <1>2, TypeCorrect, PTL DEF FramingSpec

\* Every part of a response comes to the handler with the request it answers,
\* however many requests join the queue meanwhile: PartsFindRequest.
THEOREM PartsMatchRequests == FramingSpec => []PartsFindRequest
BY RequestsInvariant, PTL
-----------------------------------------------------------------------------
(* What is delivered as complete is exactly one message.                   *)

\* No packet is lost between the two loops.
Merge == Taken \o receivedQueue = accepted

\* The read loop lets through only packets that follow on one another.
Chain ==
  /\ \A i \in 1 .. Len(accepted) :
       /\ accepted[i].status # Status8
       /\ CheckPacketStatus(IF i = 1 THEN 255 ELSE accepted[i - 1].status, accepted[i].status)
  /\ packetStatus = IF accepted = <<>> THEN 255 ELSE accepted[Len(accepted)].status

\* What has been merged so far is the beginning of a message, of which the
\* handle loop may have the end in hand; what came before it was complete.
Begun ==
  /\ \A i \in 1 .. Len(whole) :
       whole[i].status \in IF i = 1 THEN {FirstPart, FirstFull} ELSE {LaterPart, LaterFull}
  /\ \A i \in 1 .. Len(whole) - 1 : Uncompleted(whole[i].status)
  /\ (alive /\ loop = "select") => \A i \in 1 .. Len(whole) : Uncompleted(whole[i].status)
  /\ (whole = <<>> /\ Taken # <<>>) => Completed(Taken[Len(Taken)].status)

Messages == \A i \in DOMAIN delivered : IsMessage(delivered[i])

MInv == Merge /\ Chain /\ Begun /\ Messages

\* The role, and with it the meaning of statuses, never changes.
LEMMA RoleKept ==
  ASSUME [FramingNext]_framingVars
  PROVE  UNCHANGED <<role, FirstPart, FirstFull, LaterPart, LaterFull>>
<1>1. UNCHANGED role
  BY DEF FramingNext, Ask, SendPacket, Write, ForeignSend, Read, Take, ClientHandled, ServerHandled,
         framingVars, sendVars
<1> QED  BY <1>1 DEF FirstPart, FirstFull, LaterPart, LaterFull

\* The last packet taken is the last one merged.
LEMMA LastTaken ==
  ASSUME Types, whole # <<>>
  PROVE  Taken # <<>> /\ Taken[Len(Taken)] = whole[Len(whole)]
<1> DEFINE F == FlattenSeq(delivered)
<1>1. F \in Seq(Packets) /\ whole \in Seq(Packets) /\ Taken = F \o whole
  BY TakenType DEF Types, Taken
<1> HIDE DEF F
<1>2. Len(F) \in Nat /\ Len(whole) \in Nat \ {0} /\ Len(Taken) = Len(F) + Len(whole)
  BY <1>1
<1>3. Len(F) + Len(whole) \in 1 .. Len(F) + Len(whole) /\ ~(Len(F) + Len(whole) <= Len(F))
  BY <1>2
<1>4. (F \o whole)[Len(F) + Len(whole)] = whole[(Len(F) + Len(whole)) - Len(F)]
  BY <1>1, <1>3, ConcatProperties
<1>5. (Len(F) + Len(whole)) - Len(F) = Len(whole)
  BY <1>2
<1>6. Taken # <<>>
  BY <1>2
<1> QED  BY <1>1, <1>2, <1>4, <1>5, <1>6

\* A packet passed on by the read loop.
LEMMA ReadKeeps ==
  ASSUME Types, MInv, Read
  PROVE  MInv'
<1>0. /\ wire # <<>> /\ alive /\ wire \in Seq(Packets) /\ accepted \in Seq(Packets)
      /\ receivedQueue \in Seq(Packets) /\ Taken \in Seq(Packets)
      /\ Merge /\ Chain /\ Begun /\ Messages
  BY TakenType DEF Types, Read, MInv
<1>1. /\ UNCHANGED <<whole, loop, delivered, Taken>>
      /\ UNCHANGED <<FirstPart, FirstFull, LaterPart, LaterFull>>
  BY OutsideSteps, RoleKept DEF Outside, FramingNext
<1> DEFINE p == Head(wire)
<1>2. p \in Packets
  BY <1>0, HeadTailProperties
<1>3. Begun' /\ Messages'
  BY <1>0, <1>1 DEF Begun, Messages, IsMessage, Completed, Uncompleted
<1>4. CASE Acceptable(p)
  <2>1. /\ packetStatus' = p.status /\ accepted' = Append(accepted, p)
        /\ receivedQueue' = Append(receivedQueue, p)
    BY <1>4 DEF Read
  <2>2. p.status # Status8 /\ CheckPacketStatus(packetStatus, p.status)
    BY <1>4 DEF Acceptable
  <2> HIDE DEF p
  <2>3. Merge'
    <3>1. /\ <<p>> \in Seq(Packets) /\ Append(receivedQueue, p) = receivedQueue \o <<p>>
          /\ Append(accepted, p) = accepted \o <<p>>
      BY <1>0, <1>2, AppendIsConcat
    <3>2. (Taken \o receivedQueue) \o <<p>> = Taken \o (receivedQueue \o <<p>>)
      BY <1>0, <3>1, ConcatAssociative
    <3>3. Taken \o receivedQueue = accepted
      BY <1>0 DEF Merge
    <3>4. Taken \o Append(receivedQueue, p) = Append(accepted, p)
      BY <3>1, <3>2, <3>3
    <3> QED  BY <1>1, <2>1, <3>4 DEF Merge
  <2>4. Chain'
    <3>1. /\ Len(accepted') = Len(accepted) + 1 /\ Len(accepted) \in Nat /\ accepted' # <<>>
          /\ accepted'[Len(accepted) + 1] = p
          /\ \A i \in 1 .. Len(accepted) : accepted'[i] = accepted[i]
      BY <1>0, <1>2, <2>1, AppendProperties
    <3>2. ASSUME NEW i \in 1 .. Len(accepted')
          PROVE  /\ accepted'[i].status # Status8
                 /\ CheckPacketStatus(IF i = 1 THEN 255 ELSE accepted'[i - 1].status,
                                      accepted'[i].status)
      <4>1. CASE i = Len(accepted) + 1
        <5>1. packetStatus = IF i = 1 THEN 255 ELSE accepted'[i - 1].status
          <6>1. CASE accepted = <<>>
            BY <1>0, <4>1, <6>1 DEF Chain
          <6>2. CASE accepted # <<>>
            <7>1. Len(accepted) \in 1 .. Len(accepted) /\ i # 1 /\ i - 1 = Len(accepted)
              BY <1>0, <3>1, <4>1, <6>2
            <7>2. packetStatus = accepted[Len(accepted)].status
              BY <1>0, <6>2 DEF Chain
            <7> QED  BY <3>1, <7>1, <7>2
          <6> QED  BY <6>1, <6>2
        <5> QED  BY <2>2, <3>1, <4>1, <5>1
      <4>2. CASE i # Len(accepted) + 1
        <5>1. i \in 1 .. Len(accepted) /\ (i # 1 => i - 1 \in 1 .. Len(accepted))
          BY <3>1, <4>2
        <5>2. accepted'[i] = accepted[i] /\ (i # 1 => accepted'[i - 1] = accepted[i - 1])
          BY <3>1, <5>1
        <5>3. /\ accepted[i].status # Status8
              /\ CheckPacketStatus(IF i = 1 THEN 255 ELSE accepted[i - 1].status,
                                   accepted[i].status)
          BY <1>0, <5>1 DEF Chain
        <5> QED  BY <5>2, <5>3
      <4> QED  BY <4>1, <4>2
    <3>3. packetStatus' = IF accepted' = <<>> THEN 255 ELSE accepted'[Len(accepted')].status
      BY <2>1, <3>1
    <3>4. Status8' = Status8
      BY DEF Status8
    <3> QED  BY <1>1, <3>2, <3>3, <3>4 DEF Chain, CheckPacketStatus, Completed, Uncompleted
  <2> QED  BY <1>3, <2>3, <2>4 DEF MInv
<1>5. CASE ~Acceptable(p)
  <2>1. UNCHANGED <<packetStatus, accepted, receivedQueue>>
    BY <1>5 DEF Read, readVars
  <2>2. Merge' /\ Chain'
    BY <1>0, <1>1, <2>1 DEF Merge, Chain, CheckPacketStatus, Completed, Uncompleted, Status8
  <2> QED  BY <1>3, <2>2 DEF MInv
<1> QED  BY <1>4, <1>5

\* A packet taken by the handle loop.
LEMMA TakeKeeps ==
  ASSUME Types, MInv, Take
  PROVE  MInv'
<1>0. /\ receivedQueue # <<>> /\ alive /\ loop = "select" /\ receivedQueue \in Seq(Packets)
      /\ whole \in Seq(Packets) /\ Taken \in Seq(Packets) /\ accepted \in Seq(Packets)
      /\ Merge /\ Chain /\ Begun /\ Messages
      /\ UNCHANGED <<accepted, delivered, packetStatus>>
      /\ alive' => loop' = "handle"
  BY TakenType DEF Types, Take, MInv, readVars
<1>1. UNCHANGED <<FirstPart, FirstFull, LaterPart, LaterFull>>
  BY RoleKept DEF FramingNext
<1> DEFINE p == Head(receivedQueue)
           n == Len(Taken)
<1>2. /\ p \in Packets /\ whole' = Append(whole, p)
      /\ Taken' \o receivedQueue' = Taken \o receivedQueue
  BY TakenGrows DEF Take
<1>3. Merge' /\ Chain' /\ Messages'
  <2>1. Merge'
    BY <1>0, <1>2 DEF Merge
  <2>2. Chain'
    BY <1>0, <1>1 DEF Chain, CheckPacketStatus, Completed, Uncompleted, Status8
  <2>3. Messages'
    BY <1>0, <1>1 DEF Messages, IsMessage
  <2> QED  BY <2>1, <2>2, <2>3
<1>4. /\ n \in Nat /\ n + 1 \in 1 .. Len(accepted) /\ accepted[n + 1] = p
      /\ n > 0 => accepted[n] = Taken[n]
  <2>1. p = receivedQueue[1] /\ Len(receivedQueue) \in Nat \ {0} /\ n \in Nat
    BY <1>0
  <2>2. /\ Len(accepted) = n + Len(receivedQueue)
        /\ \A i \in 1 .. n + Len(receivedQueue) :
             accepted[i] = IF i <= n THEN Taken[i] ELSE receivedQueue[i - n]
    BY <1>0, ConcatProperties DEF Merge
  <2> HIDE DEF n, p
  <2>3. n + 1 \in 1 .. n + Len(receivedQueue) /\ ~(n + 1 <= n) /\ (n + 1) - n = 1
    BY <2>1
  <2>4. n > 0 => n \in 1 .. n + Len(receivedQueue) /\ n <= n
    BY <2>1
  <2> QED  BY <2>1, <2>2, <2>3, <2>4
<1>5. /\ p.status # Status8
      /\ CheckPacketStatus(IF n + 1 = 1 THEN 255 ELSE accepted[(n + 1) - 1].status, p.status)
  BY <1>0, <1>4 DEF Chain
<1>6. p.status \in IF whole = <<>> THEN {FirstPart, FirstFull} ELSE {LaterPart, LaterFull}
  <2> DEFINE prev == IF n = 0 THEN 255 ELSE Taken[n].status
  <2>1. prev = IF n + 1 = 1 THEN 255 ELSE accepted[(n + 1) - 1].status
    BY <1>4
  <2>2. p.status # Status8 /\ CheckPacketStatus(prev, p.status)
    BY <1>5, <2>1
  <2>3. CASE whole = <<>>
    <3>1. prev = 255 \/ Completed(prev)
      <4>1. n # 0 => Taken # <<>>
        BY <1>0
      <4> QED  BY <1>0, <2>3, <4>1 DEF Begun
    <3> HIDE DEF prev, p
    <3>2. ~Uncompleted(prev)
      BY <3>1, StatusValues DEF Completed, Uncompleted
    <3> QED  BY <2>2, <2>3, <3>2 DEF CheckPacketStatus
  <2>4. CASE whole # <<>>
    <3>1. Taken # <<>> /\ Taken[n] = whole[Len(whole)]
      BY <2>4, LastTaken
    <3>2. Len(whole) \in 1 .. Len(whole)
      BY <1>0, <2>4
    <3>3. Uncompleted(whole[Len(whole)].status)
      BY <1>0, <3>2 DEF Begun
    <3>4. n # 0
      BY <1>0, <3>1
    <3>5. Uncompleted(prev)
      BY <3>1, <3>3, <3>4
    <3> HIDE DEF prev, p
    <3>6. ~Completed(prev) /\ prev # 255
      BY <3>5, StatusValues DEF Completed, Uncompleted
    <3> QED  BY <2>2, <2>4, <3>6 DEF CheckPacketStatus
  <2> QED  BY <2>3, <2>4
<1>7. Begun'
  <2>1. /\ Len(whole') = Len(whole) + 1 /\ whole'[Len(whole) + 1] = p /\ Len(whole) \in Nat
        /\ \A i \in 1 .. Len(whole) : whole'[i] = whole[i]
    BY <1>0, <1>2, AppendProperties
  <2> HIDE DEF p
  <2>2. whole' # <<>> /\ (whole = <<>> <=> Len(whole) = 0)
    BY <1>0, <1>2, <2>1
  <2>3. \A i \in 1 .. Len(whole) : Uncompleted(whole[i].status)
    BY <1>0 DEF Begun
  <2>4. ASSUME NEW i \in 1 .. Len(whole')
        PROVE  whole'[i].status \in IF i = 1 THEN {FirstPart, FirstFull}
                                             ELSE {LaterPart, LaterFull}
    <3>1. CASE i = Len(whole) + 1
      <4>1. i = 1 <=> whole = <<>>
        BY <2>1, <2>2, <3>1
      <4> QED  BY <1>6, <2>1, <3>1, <4>1
    <3>2. CASE i # Len(whole) + 1
      <4>1. i \in 1 .. Len(whole)
        BY <2>1, <3>2
      <4> QED  BY <1>0, <2>1, <4>1 DEF Begun
    <3> QED  BY <3>1, <3>2
  <2>5. \A i \in 1 .. Len(whole') - 1 : Uncompleted(whole'[i].status)
    BY <2>1, <2>3
  <2> QED  BY <1>0, <1>1, <2>2, <2>4, <2>5 DEF Begun, Uncompleted
<1> QED  BY <1>3, <1>7 DEF MInv

\* A message is complete when the packets merged begin and end as they should.
LEMMA CompleteIsMessage ==
  ASSUME Types, Begun, whole # <<>>, Completed(WholeStatus)
  PROVE  IsMessage(whole)
<1>1. Len(whole) \in Nat \ {0}
  BY DEF Types
<1>2. /\ \A i \in 1 .. Len(whole) :
           whole[i].status \in IF i = 1 THEN {FirstPart, FirstFull} ELSE {LaterPart, LaterFull}
      /\ \A i \in 1 .. Len(whole) - 1 : whole[i].status \in {FirstPart, LaterPart}
      /\ whole[Len(whole)].status \in {FirstFull, LaterFull}
  BY DEF Begun, Uncompleted, Completed, WholeStatus
<1>3. /\ FirstPart \notin {FirstFull, LaterPart, LaterFull}
      /\ FirstFull \notin {LaterPart, LaterFull} /\ LaterPart # LaterFull
  BY StatusValues
<1>4. CASE Len(whole) = 1
  BY <1>2, <1>3, <1>4 DEF IsMessage
<1>5. CASE Len(whole) > 1
  <2>1. whole[1].status = FirstPart
    <3>1. 1 \in 1 .. Len(whole) /\ 1 \in 1 .. Len(whole) - 1
      BY <1>1, <1>5
    <3> QED  BY <1>2, <1>3, <3>1
  <2>2. whole[Len(whole)].status = LaterFull
    <3>1. Len(whole) \in 1 .. Len(whole) /\ Len(whole) # 1
      BY <1>1, <1>5
    <3> QED  BY <1>2, <1>3, <3>1
  <2>3. \A i \in 2 .. Len(whole) - 1 : whole[i].status = LaterPart
    <3> SUFFICES ASSUME NEW i \in 2 .. Len(whole) - 1 PROVE whole[i].status = LaterPart
      OBVIOUS
    <3>1. i \in 1 .. Len(whole) /\ i \in 1 .. Len(whole) - 1 /\ i # 1
      BY <1>1
    <3> QED  BY <1>2, <1>3, <3>1
  <2> QED  BY <1>5, <2>1, <2>2, <2>3 DEF IsMessage
<1>6. Len(whole) = 1 \/ Len(whole) > 1
  <2> DEFINE n == Len(whole)
  <2>1. n \in Nat \ {0}
    BY <1>1
  <2> HIDE DEF n
  <2>2. n = 1 \/ n > 1
    BY <2>1
  <2> QED  BY <2>2 DEF n
<1> QED  BY <1>4, <1>5, <1>6, Zenon

\* The packets merged when the handler is done.
LEMMA HandledKeeps ==
  ASSUME Types, MInv, Handled, UNCHANGED <<FirstPart, FirstFull, LaterPart, LaterFull>>
  PROVE  MInv'
<1>0. /\ Merge /\ Chain /\ Begun /\ Messages /\ whole # <<>> /\ whole \in Seq(Packets)
      /\ Len(whole) \in Nat \ {0} /\ delivered \in Seq(Seq(Packets))
      /\ UNCHANGED <<accepted, receivedQueue, packetStatus>>
  BY DEF Types, MInv, Handled
<1>1. Taken' = Taken
  BY TakenKept
<1>2. Merge' /\ Chain'
  BY <1>0, <1>1 DEF Merge, Chain, CheckPacketStatus, Completed, Uncompleted, Status8
<1>3. CASE Completed(WholeStatus)
  <2>1. delivered' = Append(delivered, whole) /\ whole' = <<>> /\ Len(whole') = 0
    BY <1>3 DEF Handled, AfterWhole
  <2>2. IsMessage(whole)
    BY <1>0, <1>3, CompleteIsMessage
  <2>3. Messages'
    <3>1. /\ DOMAIN delivered' = 1 .. Len(delivered) + 1 /\ DOMAIN delivered = 1 .. Len(delivered)
          /\ Len(delivered) \in Nat /\ delivered'[Len(delivered) + 1] = whole
          /\ \A i \in 1 .. Len(delivered) : delivered'[i] = delivered[i]
      BY <1>0, <2>1
    <3>2. \A i \in 1 .. Len(delivered) + 1 : i \in 1 .. Len(delivered) \/ i = Len(delivered) + 1
      BY <3>1
    <3>3. \A i \in DOMAIN delivered' : IsMessage(delivered'[i])
      BY <1>0, <2>2, <3>1, <3>2 DEF Messages
    <3> QED  BY <3>3 DEF Messages, IsMessage
  <2>4. Begun'
    <3>1. Completed(Taken[Len(Taken)].status)
      BY <1>0, <1>3, LastTaken DEF WholeStatus
    <3>2. \A i \in 1 .. Len(whole') : FALSE
      BY <2>1
    <3>3. \A i \in 1 .. Len(whole') - 1 : FALSE
      BY <2>1
    <3> QED  BY <1>1, <3>1, <3>2, <3>3 DEF Begun, Completed
  <2> QED  BY <1>2, <2>3, <2>4 DEF MInv
<1>4. CASE ~Completed(WholeStatus)
  <2>1. UNCHANGED <<delivered, whole>>
    BY <1>4 DEF Handled, AfterWhole
  <2>2. Messages'
    BY <1>0, <2>1 DEF Messages, IsMessage
  <2>3. \A i \in 1 .. Len(whole) : Uncompleted(whole[i].status)
    <3> SUFFICES ASSUME NEW i \in 1 .. Len(whole) PROVE Uncompleted(whole[i].status)
      OBVIOUS
    <3>1. CASE i = Len(whole)
      BY <1>0, <1>4, <3>1 DEF Begun, Completed, Uncompleted, WholeStatus
    <3>2. CASE i # Len(whole)
      <4>1. i \in 1 .. Len(whole) - 1
        BY <1>0, <3>2
      <4> QED  BY <1>0, <4>1 DEF Begun
    <3> QED  BY <3>1, <3>2
  <2>4. Begun'
    BY <1>0, <1>1, <2>1, <2>3 DEF Begun, Completed, Uncompleted
  <2> QED  BY <1>2, <2>2, <2>4 DEF MInv
<1> QED  BY <1>3, <1>4

LEMMA MessagesStep ==
  ASSUME Types, MInv, [FramingNext]_framingVars
  PROVE  MInv'
<1>1. CASE Ask \/ SendPacket \/ Write \/ ForeignSend \/ UNCHANGED framingVars
  <2>1. UNCHANGED <<whole, loop, delivered, Taken>>
    BY <1>1, OutsideSteps DEF Outside
  <2>2. /\ UNCHANGED <<accepted, receivedQueue, packetStatus>>
        /\ alive' => alive
    BY <1>1 DEF Ask, SendPacket, Write, ForeignSend, framingVars, readVars
  <2>3. UNCHANGED <<FirstPart, FirstFull, LaterPart, LaterFull>>
    BY RoleKept
  <2>4. Merge' /\ Chain'
    BY <2>1, <2>2, <2>3 DEF MInv, Merge, Chain, CheckPacketStatus, Completed, Uncompleted, Status8
  <2>5. Begun' /\ Messages'
    BY <2>1, <2>2, <2>3 DEF MInv, Begun, Messages, IsMessage, Completed, Uncompleted
  <2> QED  BY <2>4, <2>5 DEF MInv
<1>2. CASE Read
  BY <1>2, ReadKeeps
<1>3. CASE Take
  BY <1>3, TakeKeeps
<1>4. CASE ClientHandled \/ ServerHandled
  BY <1>4, HandledSteps, RoleKept, HandledKeeps
<1> QED  BY <1>1, <1>2, <1>3, <1>4 DEF FramingNext

\* Whatever the peer sends, what is delivered as complete are the packets of
\* one message, and none is lost: MergedMessages.
THEOREM MessagesMergeRight == FramingSpec => []MergedMessages
<1>1. FramingInit => MInv
  <2> SUFFICES ASSUME FramingInit PROVE MInv
    OBVIOUS
  <2>1. /\ delivered = <<>> /\ whole = <<>> /\ receivedQueue = <<>> /\ accepted = <<>>
        /\ packetStatus = 255
    BY DEF FramingInit
  <2>2. FlattenSeq(delivered) = <<>>
    BY <2>1, FlattenEmpty
  <2>3. Taken = <<>> /\ Taken \o receivedQueue = <<>>
    BY <2>1, <2>2 DEF Taken
  <2>4. Merge /\ Chain /\ Begun /\ Messages
    BY <2>1, <2>3 DEF Merge, Chain, Begun, Messages
  <2> QED  BY <2>4 DEF MInv
<1>2. Types /\ MInv /\ [FramingNext]_framingVars => MInv'
  BY MessagesStep
<1>3. MInv => MergedMessages
  BY DEF MInv, Merge, Taken, Messages, MergedMessages
<1> QED  BY <1>1, <1>2, <1>3, TypeCorrect, PTL DEF FramingSpec
-----------------------------------------------------------------------------
(* The rounds of sendPacket.                                               *)

\* The last round is the first that reaches the end of the message.
LEMMA RoundsBounds ==
  ASSUME NEW n \in Nat \ {0}
  PROVE  /\ Rounds(n) \in Nat \ {0}
         /\ (Rounds(n) - 1) * MaxPacketSize < n
         /\ n <= Rounds(n) * MaxPacketSize
<1> DEFINE M == MaxPacketSize
           a == n + M - 1
           q == a \div M
           r == a % M
<1>1. M \in Nat \ {0} /\ n \in Nat /\ n > 0
  BY FramingAssumption
<1>2. Rounds(n) = q
  BY DEF Rounds
<1> HIDE DEF M
<1>3. a \in Nat /\ a >= M
  BY <1>1
<1>4. q \in Int /\ r \in Int /\ a = M * q + r /\ 0 <= r /\ r < M
  <2> HIDE DEF a
  <2> QED  BY <1>1, <1>3
<1> HIDE DEF q, r
<1>5. a = n + M - 1
  OBVIOUS
<1> HIDE DEF a
<1>6. q >= 1
  BY <1>1, <1>3, <1>4
<1>7. (q - 1) * M = M * q - M /\ q * M = M * q /\ M * q \in Int
  BY <1>1, <1>4
<1>8. (q - 1) * M < n
  BY <1>1, <1>4, <1>5, <1>7
<1>9. n <= q * M
  BY <1>1, <1>4, <1>5, <1>7
<1> QED  BY <1>2, <1>4, <1>6, <1>8, <1>9 DEF M

-----------------------------------------------------------------------------
(* Messages of this code arrive as they were sent.                         *)

\* Packet p is all of the n-th of some messages.
IsWhole(p, n, msgs, full) == n <= Len(msgs) /\ p.status = full /\ p.data = msgs[n]

\* Packet p is all of message n.
Sent(p, n) == IsWhole(p, n, sentMsgs, FirstFull)

\* The first n packets in tcpWriteQueue do not make writeLoop close the
\* connection.
Small(n) == \A j \in 1 .. n : Len(writeQ[j].data) <= MaxPacketSize

\* Until a message that is too long has been written, every packet is a whole
\* message, and they are on their way in the order of the messages.
OwnPackets ==
  /\ \A i \in 1 .. Len(accepted) : Sent(accepted[i], i)
  /\ alive => /\ \A i \in 1 .. Len(wire) : Sent(wire[i], Len(accepted) + i)
              /\ \A i \in 1 .. Len(writeQ) :
                   Small(i) => Sent(writeQ[i], Len(accepted) + Len(wire) + i)
              /\ Small(Len(writeQ)) =>
                   Len(accepted) + Len(wire) + Len(writeQ) = Len(sentMsgs)

\* So the handle loop merges nothing: each message is delivered when its
\* packet is.
OnePacket ==
  /\ Len(delivered) + Len(whole) + Len(receivedQueue) = Len(accepted)
  /\ Len(whole) <= 1
  /\ (alive /\ loop = "select") => whole = <<>>
  /\ \A i \in 1 .. Len(delivered) : delivered[i] = <<accepted[i]>>
  /\ \A i \in 1 .. Len(whole) : whole[i] = accepted[Len(delivered) + i]
  /\ \A i \in 1 .. Len(receivedQueue) :
       receivedQueue[i] = accepted[Len(delivered) + Len(whole) + i]

\* What sendPacket queues: the message as one packet, or packets that are too
\* long.
LEMMA QueuedIs ==
  ASSUME NEW m \in Nat, NEW n \in Nat \ {0}
  PROVE  /\ Len(Queued(m, n)) \in Nat \ {0} /\ Len([j \in 1 .. n |-> m]) = n
         /\ \A i \in 1 .. Len(Queued(m, n)) : Queued(m, n)[i].data = [j \in 1 .. n |-> m]
         /\ n <= MaxPacketSize =>
              Len(Queued(m, n)) = 1 /\ Queued(m, n)[1].status = FirstFull
<1> DEFINE data == [j \in 1 .. n |-> m]
           one == <<[status |-> FirstFull, data |-> data]>>
           more == [i \in 1 .. Rounds(n) |-> [status |-> 0, data |-> data]]
<1>1. Len(data) = n
  OBVIOUS
<1>2. Queued(m, n) = IF n <= MaxPacketSize \/ role = "server" THEN one ELSE more
  BY DEF Queued
<1>3. Rounds(n) \in Nat \ {0}
  BY RoundsBounds
<1> HIDE DEF data
<1>4. /\ Len(one) = 1 /\ one[1].data = data /\ one[1].status = FirstFull
      /\ \A i \in 1 .. Len(one) : one[i].data = data
  OBVIOUS
<1>5. Len(more) = Rounds(n) /\ \A i \in 1 .. Len(more) : more[i].data = data
  BY <1>3
<1> HIDE DEF one, more
<1>6. CASE n <= MaxPacketSize \/ role = "server"
  <2>1. Queued(m, n) = one
    BY <1>2, <1>6
  <2>2. /\ Len(Queued(m, n)) = 1 /\ Queued(m, n)[1].status = FirstFull
        /\ \A i \in 1 .. Len(Queued(m, n)) : Queued(m, n)[i].data = data
    BY <1>4, <2>1, Zenon
  <2> QED  BY <1>1, <2>2 DEF data
<1>7. CASE ~(n <= MaxPacketSize \/ role = "server")
  <2>1. Queued(m, n) = more
    BY <1>2, <1>7
  <2> QED  BY <1>1, <1>3, <1>5, <1>7, <2>1 DEF data
<1> QED  BY <1>6, <1>7

\* A message sent.
LEMMA SendKeeps ==
  ASSUME Types, OwnPackets, SendPacket, FirstFull' = FirstFull
  PROVE  OwnPackets'
<1>0. /\ alive /\ UNCHANGED <<accepted, wire>> /\ started' = started + 1 /\ started' \in Nat
      /\ Len(accepted) \in Nat /\ Len(wire) \in Nat /\ Len(writeQ) \in Nat /\ Len(sentMsgs) \in Nat
      /\ writeQ \in Seq(Packets) /\ sentMsgs \in Seq(Seq(Nat))
  BY DEF SendPacket, Types, readVars
<1>1. PICK n \in Sizes : /\ writeQ' = writeQ \o Queued(started', n)
                         /\ sentMsgs' = Append(sentMsgs, [j \in 1 .. n |-> started'])
  BY DEF SendPacket
<1>2. n \in Nat \ {0} /\ MaxPacketSize \in Nat
  BY FramingAssumption
<1> DEFINE Q == Queued(started', n)
           m == [j \in 1 .. n |-> started']
<1>3. /\ Q \in Seq(Packets) /\ m \in Seq(Nat) /\ Len(Q) \in Nat \ {0} /\ Len(m) = n
      /\ \A i \in 1 .. Len(Q) : Q[i].data = m
      /\ n <= MaxPacketSize => Len(Q) = 1 /\ Q[1].status = FirstFull
  <2>1. started' \in Nat /\ n \in Nat /\ n \in Nat \ {0}
    BY <1>0, <1>2
  <2>2. Q \in Seq(Packets) /\ m \in Seq(Nat)
    BY <2>1, QueuedType, Zenon
  <2>3. /\ Len(Q) \in Nat \ {0} /\ Len(m) = n
        /\ \A i \in 1 .. Len(Q) : Q[i].data = m
        /\ n <= MaxPacketSize => Len(Q) = 1 /\ Q[1].status = FirstFull
    BY <2>1, QueuedIs, Zenon
  <2> QED  BY <2>2, <2>3, Zenon
<1>4. writeQ' = writeQ \o Q /\ sentMsgs' = Append(sentMsgs, m)
  BY <1>1
<1> HIDE DEF Q, m
<1>5. /\ Len(writeQ') = Len(writeQ) + Len(Q)
      /\ \A i \in 1 .. Len(writeQ) + Len(Q) :
           writeQ'[i] = IF i <= Len(writeQ) THEN writeQ[i] ELSE Q[i - Len(writeQ)]
  BY <1>0, <1>3, <1>4, ConcatProperties
<1>6. /\ Len(sentMsgs') = Len(sentMsgs) + 1 /\ sentMsgs'[Len(sentMsgs) + 1] = m
      /\ \A i \in 1 .. Len(sentMsgs) : sentMsgs'[i] = sentMsgs[i]
  BY <1>0, <1>3, <1>4, AppendProperties
<1>7. ASSUME NEW q, NEW k \in Nat \ {0}, IsWhole(q, k, sentMsgs, FirstFull)
      PROVE  IsWhole(q, k, sentMsgs', FirstFull')
  <2>1. k \in 1 .. Len(sentMsgs)
    BY <1>0, <1>7 DEF IsWhole
  <2>2. sentMsgs'[k] = sentMsgs[k] /\ k <= Len(sentMsgs')
    BY <1>0, <1>6, <2>1
  <2> QED  BY <1>7, <2>2 DEF IsWhole
<1>8. /\ \A i \in 1 .. Len(accepted) : IsWhole(accepted[i], i, sentMsgs, FirstFull)
      /\ \A i \in 1 .. Len(wire) : IsWhole(wire[i], Len(accepted) + i, sentMsgs, FirstFull)
      /\ \A i \in 1 .. Len(writeQ) :
           Small(i) => IsWhole(writeQ[i], Len(accepted) + Len(wire) + i, sentMsgs, FirstFull)
      /\ Small(Len(writeQ)) => Len(accepted) + Len(wire) + Len(writeQ) = Len(sentMsgs)
  BY <1>0 DEF OwnPackets, Sent
<1>9. \A i \in 1 .. Len(accepted) : IsWhole(accepted[i], i, sentMsgs', FirstFull')
  BY <1>0, <1>7, <1>8
<1>10. \A i \in 1 .. Len(wire) : IsWhole(wire[i], Len(accepted) + i, sentMsgs', FirstFull')
  <2> SUFFICES ASSUME NEW i \in 1 .. Len(wire)
               PROVE  IsWhole(wire[i], Len(accepted) + i, sentMsgs', FirstFull')
    OBVIOUS
  <2>1. Len(accepted) + i \in Nat \ {0}
    BY <1>0
  <2> QED  BY <1>7, <1>8, <2>1
<1>11. ASSUME NEW i \in 1 .. Len(writeQ'), i > Len(writeQ),
              \A j \in 1 .. i : Len(writeQ'[j].data) <= MaxPacketSize
       PROVE  /\ i = Len(writeQ) + 1 /\ Len(Q) = 1
              /\ writeQ'[i].data = m /\ writeQ'[i].status = FirstFull
              /\ Len(accepted) + Len(wire) + Len(writeQ) = Len(sentMsgs)
  <2>1. Small(Len(writeQ))
    <3> SUFFICES ASSUME NEW j \in 1 .. Len(writeQ)
                 PROVE  Len(writeQ[j].data) <= MaxPacketSize
      BY DEF Small
    <3>1. j \in 1 .. i /\ j \in 1 .. Len(writeQ) + Len(Q) /\ j <= Len(writeQ)
      BY <1>0, <1>3, <1>5, <1>11
    <3>2. writeQ'[j] = writeQ[j]
      BY <1>5, <3>1
    <3> QED  BY <1>11, <3>1, <3>2
  <2>2. i - Len(writeQ) \in 1 .. Len(Q) /\ i \in 1 .. Len(writeQ) + Len(Q) /\ i \in 1 .. i
        /\ ~(i <= Len(writeQ))
    BY <1>0, <1>3, <1>5, <1>11
  <2>3. writeQ'[i] = Q[i - Len(writeQ)]
    BY <1>5, <2>2
  <2>4. writeQ'[i].data = m
    BY <1>3, <2>2, <2>3
  <2>5. n <= MaxPacketSize
    BY <1>3, <1>11, <2>2, <2>4
  <2>6. Len(Q) = 1 /\ Q[1].status = FirstFull
    BY <1>3, <2>5
  <2>7. i - Len(writeQ) = 1 /\ i = Len(writeQ) + 1
    BY <1>0, <2>2, <2>6
  <2> QED  BY <1>8, <2>1, <2>3, <2>4, <2>6, <2>7
<1>12. ASSUME NEW i \in 1 .. Len(writeQ'), Small(i)'
       PROVE  IsWhole(writeQ'[i], Len(accepted) + Len(wire) + i, sentMsgs', FirstFull')
  <2>1. \A j \in 1 .. i : Len(writeQ'[j].data) <= MaxPacketSize
    BY <1>12 DEF Small
  <2>2. CASE i <= Len(writeQ)
    <3>1. \A j \in 1 .. i : writeQ'[j] = writeQ[j]
      BY <1>0, <1>3, <1>5, <2>2
    <3>2. i \in 1 .. Len(writeQ) /\ i \in 1 .. i /\ Len(accepted) + Len(wire) + i \in Nat \ {0}
      BY <1>0, <2>2
    <3>3. Small(i)
      BY <2>1, <3>1 DEF Small
    <3>4. IsWhole(writeQ[i], Len(accepted) + Len(wire) + i, sentMsgs, FirstFull)
      BY <1>8, <3>2, <3>3
    <3>5. IsWhole(writeQ[i], Len(accepted) + Len(wire) + i, sentMsgs', FirstFull')
      BY <1>7, <3>2, <3>4
    <3> QED  BY <3>1, <3>2, <3>5
  <2>3. CASE i > Len(writeQ)
    <3>1. /\ i = Len(writeQ) + 1 /\ writeQ'[i].data = m /\ writeQ'[i].status = FirstFull
          /\ Len(accepted) + Len(wire) + Len(writeQ) = Len(sentMsgs)
      BY <1>11, <2>1, <2>3
    <3>2. Len(accepted) + Len(wire) + i = Len(sentMsgs) + 1
      <4> DEFINE a == Len(accepted)
                 b == Len(wire)
                 c == Len(writeQ)
                 d == Len(sentMsgs)
      <4>1. a \in Nat /\ b \in Nat /\ c \in Nat /\ d \in Nat
        BY <1>0
      <4>2. a + b + c = d /\ i = c + 1
        BY <3>1
      <4> HIDE DEF a, b, c, d
      <4>3. a + b + i = d + 1
        BY <4>1, <4>2
      <4> QED  BY <4>3 DEF a, b, d
    <3>3. IsWhole(writeQ'[i], Len(sentMsgs) + 1, sentMsgs', FirstFull')
      BY <1>0, <1>6, <3>1 DEF IsWhole
    <3> QED  BY <3>2, <3>3
  <2> QED  BY <1>0, <2>2, <2>3
<1>13. ASSUME Small(Len(writeQ))'
       PROVE  Len(accepted) + Len(wire) + Len(writeQ') = Len(sentMsgs')
  <2>1. \A j \in 1 .. Len(writeQ') : Len(writeQ'[j].data) <= MaxPacketSize
    BY <1>13 DEF Small
  <2>2. Len(writeQ') \in 1 .. Len(writeQ') /\ Len(writeQ') > Len(writeQ)
    BY <1>0, <1>3, <1>5
  <2>3. /\ Len(writeQ') = Len(writeQ) + 1
        /\ Len(accepted) + Len(wire) + Len(writeQ) = Len(sentMsgs)
    BY <1>11, <2>1, <2>2
  <2>4. Len(accepted) + Len(wire) + Len(writeQ') = Len(sentMsgs) + 1
    <3> DEFINE a == Len(accepted)
               b == Len(wire)
               c == Len(writeQ)
               d == Len(sentMsgs)
               i == Len(writeQ')
    <3>1. a \in Nat /\ b \in Nat /\ c \in Nat /\ d \in Nat
      BY <1>0
    <3>2. a + b + c = d /\ i = c + 1
      BY <2>3
    <3> HIDE DEF a, b, c, d, i
    <3>3. a + b + i = d + 1
      BY <3>1, <3>2
    <3> QED  BY <3>3 DEF a, b, d, i
  <2> QED  BY <1>6, <2>4
<1> QED  BY <1>0, <1>9, <1>10, <1>12, <1>13 DEF OwnPackets, Sent

\* A packet written.
LEMMA WriteKeeps ==
  ASSUME Types, OwnPackets, Write, FirstFull' = FirstFull
  PROVE  OwnPackets'
<1>0. /\ alive /\ UNCHANGED <<accepted, sentMsgs>> /\ writeQ # <<>> /\ writeQ' = Tail(writeQ)
      /\ Len(accepted) \in Nat /\ Len(wire) \in Nat /\ Len(writeQ) \in Nat \ {0}
      /\ writeQ \in Seq(Packets) /\ wire \in Seq(Packets)
  BY DEF Write, Types, readVars
<1>1. /\ \A i \in 1 .. Len(accepted) : IsWhole(accepted[i], i, sentMsgs, FirstFull)
      /\ \A i \in 1 .. Len(wire) : IsWhole(wire[i], Len(accepted) + i, sentMsgs, FirstFull)
      /\ \A i \in 1 .. Len(writeQ) :
           Small(i) => IsWhole(writeQ[i], Len(accepted) + Len(wire) + i, sentMsgs, FirstFull)
      /\ Small(Len(writeQ)) => Len(accepted) + Len(wire) + Len(writeQ) = Len(sentMsgs)
  BY <1>0 DEF OwnPackets, Sent
<1>2. CASE Len(Head(writeQ).data) > MaxPacketSize
  <2>1. alive' = FALSE
    BY <1>2 DEF Write
  <2> QED  BY <1>0, <1>1, <2>1 DEF OwnPackets, Sent
<1>3. CASE ~(Len(Head(writeQ).data) > MaxPacketSize)
  <2> DEFINE h == Head(writeQ)
  <2>1. wire' = Append(wire, h)
    BY <1>3 DEF Write
  <2>2. h \in Packets /\ h = writeQ[1]
    BY <1>0, HeadTailProperties
  <2>3. Len(h.data) <= MaxPacketSize
    BY <1>3, <2>2, FramingAssumption DEF Packets
  <2> HIDE DEF h
  <2>4. /\ Len(wire') = Len(wire) + 1 /\ wire'[Len(wire) + 1] = h
        /\ \A i \in 1 .. Len(wire) : wire'[i] = wire[i]
    BY <1>0, <2>1, <2>2, AppendProperties
  <2>5. /\ Len(writeQ') = Len(writeQ) - 1
        /\ \A i \in 1 .. Len(writeQ') : writeQ'[i] = writeQ[i + 1]
    BY <1>0, HeadTailProperties
  <2>6. ASSUME NEW i \in 0 .. Len(writeQ'),
               \A j \in 1 .. i : Len(writeQ'[j].data) <= MaxPacketSize
        PROVE  Small(i + 1)
    <3> SUFFICES ASSUME NEW j \in 1 .. i + 1 PROVE Len(writeQ[j].data) <= MaxPacketSize
      BY DEF Small
    <3>1. CASE j = 1
      BY <2>2, <2>3, <3>1
    <3>2. CASE j # 1
      <4>1. j - 1 \in 1 .. i /\ j - 1 \in 1 .. Len(writeQ') /\ (j - 1) + 1 = j
        BY <1>0, <2>5, <2>6, <3>2
      <4>2. writeQ'[j - 1] = writeQ[j]
        BY <2>5, <4>1
      <4> QED  BY <2>6, <4>1, <4>2
    <3> QED  BY <3>1, <3>2
  <2>7. \A i \in 1 .. Len(wire') : IsWhole(wire'[i], Len(accepted) + i, sentMsgs, FirstFull)
    <3> SUFFICES ASSUME NEW i \in 1 .. Len(wire')
                 PROVE  IsWhole(wire'[i], Len(accepted) + i, sentMsgs, FirstFull)
      OBVIOUS
    <3>1. CASE i = Len(wire) + 1
      <4>1. Small(0 + 1)
        <5>1. 0 \in 0 .. Len(writeQ') /\ \A j \in 1 .. 0 : Len(writeQ'[j].data) <= MaxPacketSize
          BY <1>0, <2>5
        <5> QED  BY <2>6, <5>1
      <4>2. 0 + 1 = 1 /\ 1 \in 1 .. Len(writeQ) /\ Len(accepted) + Len(wire) + 1 = Len(accepted) + i
        BY <1>0, <3>1
      <4>3. IsWhole(writeQ[1], Len(accepted) + Len(wire) + 1, sentMsgs, FirstFull)
        BY <1>1, <4>1, <4>2
      <4> QED  BY <2>2, <2>4, <3>1, <4>2, <4>3
    <3>2. CASE i # Len(wire) + 1
      <4>1. i \in 1 .. Len(wire)
        BY <1>0, <2>4, <3>2
      <4> QED  BY <1>1, <2>4, <4>1
    <3> QED  BY <3>1, <3>2
  <2>8. ASSUME NEW i \in 1 .. Len(writeQ'), Small(i)'
        PROVE  IsWhole(writeQ'[i], Len(accepted) + Len(wire') + i, sentMsgs, FirstFull)
    <3>1. \A j \in 1 .. i : Len(writeQ'[j].data) <= MaxPacketSize
      BY <2>8 DEF Small
    <3>2. /\ i \in 0 .. Len(writeQ') /\ i + 1 \in 1 .. Len(writeQ)
          /\ Len(accepted) + Len(wire) + (i + 1) = Len(accepted) + Len(wire') + i
      BY <1>0, <2>4, <2>5
    <3>3. Small(i + 1)
      BY <2>6, <3>1, <3>2
    <3>4. IsWhole(writeQ[i + 1], Len(accepted) + Len(wire) + (i + 1), sentMsgs, FirstFull)
      BY <1>1, <3>2, <3>3
    <3> QED  BY <2>5, <3>2, <3>4
  <2>9. ASSUME Small(Len(writeQ))'
        PROVE  Len(accepted) + Len(wire') + Len(writeQ') = Len(sentMsgs)
    <3>1. \A j \in 1 .. Len(writeQ') : Len(writeQ'[j].data) <= MaxPacketSize
      BY <2>9 DEF Small
    <3>2. Len(writeQ') \in 0 .. Len(writeQ') /\ Len(writeQ') + 1 = Len(writeQ)
      BY <1>0, <2>5
    <3>3. Small(Len(writeQ))
      BY <2>6, <3>1, <3>2
    <3>4. Len(accepted) + Len(wire) + Len(writeQ) = Len(sentMsgs)
      BY <1>1, <3>3
    <3> QED  BY <1>0, <2>4, <2>5, <3>4
  <2> QED  BY <1>0, <1>1, <2>7, <2>8, <2>9 DEF OwnPackets, Sent
<1> QED  BY <1>2, <1>3

\* A packet read.
LEMMA ReadOwn ==
  ASSUME Types, OwnPackets, Read, FirstFull' = FirstFull
  PROVE  OwnPackets'
<1>0. /\ alive /\ UNCHANGED <<writeQ, sentMsgs>> /\ wire # <<>> /\ wire' = Tail(wire)
      /\ Len(accepted) \in Nat /\ Len(wire) \in Nat \ {0} /\ Len(writeQ) \in Nat
      /\ accepted \in Seq(Packets) /\ wire \in Seq(Packets)
  BY DEF Read, Types, sendVars
<1>1. /\ \A i \in 1 .. Len(accepted) : IsWhole(accepted[i], i, sentMsgs, FirstFull)
      /\ \A i \in 1 .. Len(wire) : IsWhole(wire[i], Len(accepted) + i, sentMsgs, FirstFull)
      /\ \A i \in 1 .. Len(writeQ) :
           Small(i) => IsWhole(writeQ[i], Len(accepted) + Len(wire) + i, sentMsgs, FirstFull)
      /\ Small(Len(writeQ)) => Len(accepted) + Len(wire) + Len(writeQ) = Len(sentMsgs)
  BY <1>0 DEF OwnPackets, Sent
<1> DEFINE p == Head(wire)
<1>2. CASE ~Acceptable(p)
  <2>1. alive' = FALSE /\ UNCHANGED accepted
    BY <1>2 DEF Read, readVars
  <2> QED  BY <1>0, <1>1, <2>1 DEF OwnPackets, Sent
<1>3. CASE Acceptable(p)
  <2>1. accepted' = Append(accepted, p)
    BY <1>3 DEF Read
  <2>2. p \in Packets /\ p = wire[1]
    BY <1>0, HeadTailProperties
  <2> HIDE DEF p
  <2>3. /\ Len(accepted') = Len(accepted) + 1 /\ accepted'[Len(accepted) + 1] = p
        /\ \A i \in 1 .. Len(accepted) : accepted'[i] = accepted[i]
    BY <1>0, <2>1, <2>2, AppendProperties
  <2>4. /\ Len(wire') = Len(wire) - 1
        /\ \A i \in 1 .. Len(wire') : wire'[i] = wire[i + 1]
    BY <1>0, HeadTailProperties
  <2>5. \A i \in 1 .. Len(accepted') : IsWhole(accepted'[i], i, sentMsgs, FirstFull)
    <3> SUFFICES ASSUME NEW i \in 1 .. Len(accepted')
                 PROVE  IsWhole(accepted'[i], i, sentMsgs, FirstFull)
      OBVIOUS
    <3>1. CASE i = Len(accepted) + 1
      <4>1. 1 \in 1 .. Len(wire)
        BY <1>0
      <4>2. IsWhole(wire[1], Len(accepted) + 1, sentMsgs, FirstFull)
        BY <1>1, <4>1
      <4> QED  BY <2>2, <2>3, <3>1, <4>2
    <3>2. CASE i # Len(accepted) + 1
      <4>1. i \in 1 .. Len(accepted)
        BY <1>0, <2>3, <3>2
      <4> QED  BY <1>1, <2>3, <4>1
    <3> QED  BY <3>1, <3>2
  <2>6. \A i \in 1 .. Len(wire') : IsWhole(wire'[i], Len(accepted') + i, sentMsgs, FirstFull)
    <3> SUFFICES ASSUME NEW i \in 1 .. Len(wire')
                 PROVE  IsWhole(wire'[i], Len(accepted') + i, sentMsgs, FirstFull)
      OBVIOUS
    <3>1. i + 1 \in 1 .. Len(wire) /\ Len(accepted) + (i + 1) = Len(accepted') + i
      BY <1>0, <2>3, <2>4
    <3>2. IsWhole(wire[i + 1], Len(accepted) + (i + 1), sentMsgs, FirstFull)
      BY <1>1, <3>1
    <3> QED  BY <2>4, <3>1, <3>2
  <2>7. Len(accepted') + Len(wire') = Len(accepted) + Len(wire)
    BY <1>0, <2>3, <2>4
  <2>8. \A i : Small(i)' <=> Small(i)
    BY <1>0 DEF Small
  <2>9. /\ \A i \in 1 .. Len(writeQ) :
             Small(i) => IsWhole(writeQ[i], Len(accepted') + Len(wire') + i, sentMsgs, FirstFull)
        /\ Small(Len(writeQ)) => Len(accepted') + Len(wire') + Len(writeQ) = Len(sentMsgs)
    BY <1>1, <2>7
  <2> QED  BY <1>0, <2>5, <2>6, <2>8, <2>9 DEF OwnPackets, Sent, Small
<1> QED  BY <1>2, <1>3

\* Every step of a sender of this code.
LEMMA OwnStep ==
  ASSUME Types, ~foreign, OwnPackets, [FramingNext]_framingVars
  PROVE  OwnPackets'
<1>0. FirstFull' = FirstFull
  BY RoleKept
<1>1. CASE Ask \/ Take \/ ClientHandled \/ ServerHandled \/ UNCHANGED framingVars
  <2>1. UNCHANGED <<accepted, wire, writeQ, sentMsgs>>
    BY <1>1 DEF Ask, Take, ClientHandled, ServerHandled, framingVars, sendVars, readVars
  <2>2. alive' => alive
    BY <1>1 DEF Ask, Take, ClientHandled, ServerHandled, framingVars
  <2>3. \A i : Small(i)' <=> Small(i)
    BY <2>1 DEF Small
  <2> QED  BY <1>0, <2>1, <2>2, <2>3 DEF OwnPackets, Sent, IsWhole, Small
<1>2. CASE SendPacket
  BY <1>0, <1>2, SendKeeps
<1>3. CASE Write
  BY <1>0, <1>3, WriteKeeps
<1>4. CASE Read
  BY <1>0, <1>4, ReadOwn
<1>5. CASE ForeignSend
  BY <1>5 DEF ForeignSend
<1> QED  BY <1>1, <1>2, <1>3, <1>4, <1>5 DEF FramingNext

\* A packet read is put behind the others.
LEMMA ReadOne ==
  ASSUME Types, OnePacket, Read
  PROVE  OnePacket'
<1>0. /\ alive /\ UNCHANGED <<whole, loop, delivered>> /\ wire \in Seq(Packets) /\ wire # <<>>
      /\ accepted \in Seq(Packets) /\ receivedQueue \in Seq(Packets)
      /\ Len(accepted) \in Nat /\ Len(receivedQueue) \in Nat
      /\ Len(delivered) \in Nat /\ Len(whole) \in Nat
  BY DEF Read, Types, handleVars
<1>1. CASE ~Acceptable(Head(wire))
  <2>1. alive' = FALSE /\ UNCHANGED <<accepted, receivedQueue>>
    BY <1>1 DEF Read, readVars
  <2> QED  BY <1>0, <2>1 DEF OnePacket
<1>2. CASE Acceptable(Head(wire))
  <2> DEFINE p == Head(wire)
  <2>1. /\ accepted' = Append(accepted, p) /\ receivedQueue' = Append(receivedQueue, p)
        /\ UNCHANGED alive
    BY <1>2 DEF Read
  <2>2. p \in Packets
    BY <1>0, HeadTailProperties
  <2> HIDE DEF p
  <2>3. /\ Len(accepted') = Len(accepted) + 1 /\ accepted'[Len(accepted) + 1] = p
        /\ \A i \in 1 .. Len(accepted) : accepted'[i] = accepted[i]
    BY <1>0, <2>1, <2>2, AppendProperties
  <2>4. /\ Len(receivedQueue') = Len(receivedQueue) + 1
        /\ receivedQueue'[Len(receivedQueue) + 1] = p
        /\ \A i \in 1 .. Len(receivedQueue) : receivedQueue'[i] = receivedQueue[i]
    BY <1>0, <2>1, <2>2, AppendProperties
  <2>5. Len(delivered) + Len(whole) + Len(receivedQueue) = Len(accepted)
    BY DEF OnePacket
  <2>6. \A i \in 1 .. Len(delivered) : delivered[i] = <<accepted'[i]>>
    <3> SUFFICES ASSUME NEW i \in 1 .. Len(delivered) PROVE delivered[i] = <<accepted'[i]>>
      OBVIOUS
    <3>1. i \in 1 .. Len(accepted)
      BY <1>0, <2>5
    <3> QED  BY <2>3, <3>1 DEF OnePacket
  <2>7. \A i \in 1 .. Len(whole) : whole[i] = accepted'[Len(delivered) + i]
    <3> SUFFICES ASSUME NEW i \in 1 .. Len(whole)
                 PROVE  whole[i] = accepted'[Len(delivered) + i]
      OBVIOUS
    <3>1. Len(delivered) + i \in 1 .. Len(accepted)
      BY <1>0, <2>5
    <3> QED  BY <2>3, <3>1 DEF OnePacket
  <2>8. \A i \in 1 .. Len(receivedQueue') :
          receivedQueue'[i] = accepted'[Len(delivered) + Len(whole) + i]
    <3> SUFFICES ASSUME NEW i \in 1 .. Len(receivedQueue')
                 PROVE  receivedQueue'[i] = accepted'[Len(delivered) + Len(whole) + i]
      OBVIOUS
    <3>1. CASE i = Len(receivedQueue) + 1
      <4>0. /\ Len(accepted) \in Nat /\ Len(receivedQueue) \in Nat
            /\ Len(delivered) \in Nat /\ Len(whole) \in Nat
        BY <1>0
      <4>1. Len(delivered) + Len(whole) + i = Len(accepted) + 1
        BY <2>5, <3>1, <4>0
      <4> QED  BY <2>3, <2>4, <3>1, <4>1
    <3>2. CASE i # Len(receivedQueue) + 1
      <4>1. /\ i \in 1 .. Len(receivedQueue)
            /\ Len(delivered) + Len(whole) + i \in 1 .. Len(accepted)
        BY <1>0, <2>4, <2>5, <3>2
      <4> QED  BY <2>3, <2>4, <4>1 DEF OnePacket
    <3> QED  BY <3>1, <3>2
  <2>9. Len(delivered) + Len(whole) + Len(receivedQueue') = Len(accepted')
    <3> DEFINE d == Len(delivered)
               w == Len(whole)
               q == Len(receivedQueue)
    <3>1. d \in Nat /\ w \in Nat /\ q \in Nat /\ d + w + q = Len(accepted)
      BY <1>0, <2>5
    <3> HIDE DEF d, w, q
    <3>2. d + w + (q + 1) = (d + w + q) + 1
      BY <3>1
    <3> QED  BY <2>3, <2>4, <3>1, <3>2, Zenon DEF d, w, q
  <2> QED  BY <1>0, <2>1, <2>6, <2>7, <2>8, <2>9 DEF OnePacket
<1> QED  BY <1>1, <1>2

\* It is taken when nothing is merged.
LEMMA TakeOne ==
  ASSUME Types, OnePacket, Take
  PROVE  OnePacket'
<1>0. /\ receivedQueue \in Seq(Packets) /\ receivedQueue # <<>> /\ whole = <<>>
      /\ Len(receivedQueue) \in Nat \ {0} /\ Len(delivered) \in Nat /\ Len(whole) = 0
      /\ UNCHANGED <<accepted, delivered>>
  BY DEF Types, OnePacket, Take, readVars
<1>1. whole' = <<Head(receivedQueue)>> /\ receivedQueue' = Tail(receivedQueue)
  BY <1>0 DEF Take
<1>2. alive' => loop' = "handle"
  BY DEF Take
<1>3. Len(whole') = 1 /\ whole'[1] = receivedQueue[1]
  BY <1>0, <1>1, HeadTailProperties
<1>4. /\ Len(receivedQueue') = Len(receivedQueue) - 1
      /\ \A i \in 1 .. Len(receivedQueue') : receivedQueue'[i] = receivedQueue[i + 1]
  BY <1>0, <1>1, HeadTailProperties
<1>5. /\ Len(delivered) + Len(receivedQueue) = Len(accepted)
      /\ \A i \in 1 .. Len(receivedQueue) : receivedQueue[i] = accepted[Len(delivered) + i]
      /\ \A i \in 1 .. Len(delivered) : delivered[i] = <<accepted[i]>>
  BY <1>0 DEF OnePacket
<1>6. Len(delivered) + Len(whole') + Len(receivedQueue') = Len(accepted)
  <2> DEFINE d == Len(delivered)
             q == Len(receivedQueue)
  <2>1. d \in Nat /\ q \in Nat /\ d + q = Len(accepted)
    BY <1>0, <1>5
  <2> HIDE DEF d, q
  <2>2. d + 1 + (q - 1) = d + q
    BY <2>1
  <2> QED  BY <1>3, <1>4, <2>1, <2>2, Zenon DEF d, q
<1>7. \A i \in 1 .. Len(whole') : whole'[i] = accepted[Len(delivered) + i]
  <2>1. 1 \in 1 .. Len(receivedQueue) /\ \A i \in 1 .. Len(whole') : i = 1
    BY <1>0, <1>3
  <2> QED  BY <1>3, <1>5, <2>1
<1>8. \A i \in 1 .. Len(receivedQueue') :
        receivedQueue'[i] = accepted[Len(delivered) + Len(whole') + i]
  <2> SUFFICES ASSUME NEW i \in 1 .. Len(receivedQueue')
               PROVE  receivedQueue'[i] = accepted[Len(delivered) + Len(whole') + i]
    OBVIOUS
  <2>1. /\ i + 1 \in 1 .. Len(receivedQueue)
        /\ Len(delivered) + (i + 1) = Len(delivered) + Len(whole') + i
    BY <1>0, <1>3, <1>4
  <2> QED  BY <1>4, <1>5, <2>1
<1>9. Len(whole') <= 1 /\ ((alive' /\ loop' = "select") => whole' = <<>>)
  BY <1>2, <1>3
<1> QED  BY <1>0, <1>5, <1>6, <1>7, <1>8, <1>9 DEF OnePacket

\* And handled as a message.
LEMMA HandledOne ==
  ASSUME Types, OwnPackets, OnePacket, Handled
  PROVE  OnePacket'
<1>0. /\ whole \in Seq(Packets) /\ whole # <<>> /\ delivered \in Seq(Seq(Packets))
      /\ Len(delivered) \in Nat /\ Len(receivedQueue) \in Nat
      /\ UNCHANGED <<accepted, receivedQueue, alive>>
  BY DEF Types, Handled
<1>1. Len(whole) = 1 /\ whole = <<whole[1]>>
  <2>1. Len(whole) \in Nat \ {0} /\ Len(whole) <= 1
    BY <1>0 DEF OnePacket
  <2> DEFINE n == Len(whole)
  <2> HIDE DEF n
  <2>2. n = 1
    <3>1. n \in Nat \ {0} /\ n <= 1
      BY <2>1 DEF n
    <3> QED  BY <3>1
  <2> QED  BY <1>0, <2>2 DEF n
<1>2. /\ Len(delivered) + 1 + Len(receivedQueue) = Len(accepted)
      /\ whole[1] = accepted[Len(delivered) + 1]
      /\ \A i \in 1 .. Len(delivered) : delivered[i] = <<accepted[i]>>
      /\ \A i \in 1 .. Len(receivedQueue) : receivedQueue[i] = accepted[Len(delivered) + 1 + i]
  BY <1>1 DEF OnePacket
<1>3. Completed(WholeStatus)
  <2>1. Len(delivered) + 1 \in 1 .. Len(accepted)
    BY <1>0, <1>2
  <2>2. whole[1].status = FirstFull
    BY <1>2, <2>1 DEF OwnPackets, Sent, IsWhole
  <2> QED  BY <1>1, <2>2 DEF Completed, WholeStatus
<1>4. delivered' = Append(delivered, whole) /\ whole' = <<>>
  BY <1>3 DEF Handled, AfterWhole
<1>5. /\ Len(delivered') = Len(delivered) + 1 /\ delivered'[Len(delivered) + 1] = whole
      /\ \A i \in 1 .. Len(delivered) : delivered'[i] = delivered[i]
  BY <1>0, <1>4, AppendProperties
<1>6. Len(whole') = 0
  BY <1>4
<1>7. \A i \in 1 .. Len(delivered') : delivered'[i] = <<accepted[i]>>
  <2>1. \A i \in 1 .. Len(delivered') : i \in 1 .. Len(delivered) \/ i = Len(delivered) + 1
    BY <1>0, <1>5
  <2>2. delivered'[Len(delivered) + 1] = <<accepted[Len(delivered) + 1]>>
    BY <1>1, <1>2, <1>5
  <2> QED  BY <1>2, <1>5, <2>1, <2>2
<1>8. /\ Len(delivered') + Len(whole') + Len(receivedQueue') = Len(accepted')
      /\ Len(whole') <= 1 /\ \A i \in 1 .. Len(whole') : FALSE
  BY <1>0, <1>2, <1>5, <1>6
<1>9. \A i \in 1 .. Len(receivedQueue) :
        receivedQueue[i] = accepted[Len(delivered') + Len(whole') + i]
  <2>1. Len(delivered') + Len(whole') = Len(delivered) + 1
    BY <1>0, <1>5, <1>6
  <2> QED  BY <1>2, <2>1
<1> QED  BY <1>0, <1>4, <1>7, <1>8, <1>9 DEF OnePacket

LEMMA OneStep ==
  ASSUME Types, ~foreign, OwnPackets, OnePacket, [FramingNext]_framingVars
  PROVE  OnePacket'
<1>1. CASE Ask \/ SendPacket \/ Write \/ ForeignSend \/ UNCHANGED framingVars
  <2>1. UNCHANGED <<accepted, receivedQueue, whole, loop, delivered>>
    BY <1>1 DEF Ask, SendPacket, Write, ForeignSend, framingVars, readVars, handleVars
  <2>2. alive' => alive
    BY <1>1 DEF Ask, SendPacket, Write, ForeignSend, framingVars
  <2> QED  BY <2>1, <2>2 DEF OnePacket
<1>2. CASE Read
  BY <1>2, ReadOne
<1>3. CASE Take
  BY <1>3, TakeOne
<1>4. CASE ClientHandled \/ ServerHandled
  BY <1>4, HandledSteps, HandledOne
<1> QED  BY <1>1, <1>2, <1>3, <1>4 DEF FramingNext

\* The data of a message of one packet is the packet's.
LEMMA DataOfOne ==
  ASSUME NEW p \in Packets
  PROVE  Data(<<p>>) = p.data
<1>1. [i \in DOMAIN <<p>> |-> <<p>>[i].data] = <<p.data>>
  OBVIOUS
<1>2. p.data \in Seq(Nat) /\ <<>> \in Seq(Seq(Nat)) /\ Append(<<>>, p.data) = <<p.data>>
  BY DEF Packets
<1>3. FlattenSeq(Append(<<>>, p.data)) = FlattenSeq(<<>>) \o p.data
  BY <1>2, FlattenAppend
<1>4. <<>> \o p.data = p.data
  BY <1>2, ConcatEmptySeq
<1>5. FlattenSeq(<<p.data>>) = p.data
  BY <1>2, <1>3, <1>4, FlattenEmpty
<1> QED  BY <1>1, <1>5 DEF Data

\* What the two say of a sender that runs this code.
Own == ~foreign => OwnPackets /\ OnePacket

LEMMA OwnInvariant == FramingSpec => []Own
<1>1. FramingInit => Own
  <2> SUFFICES ASSUME FramingInit PROVE OwnPackets /\ OnePacket
    BY DEF Own
  <2>1. /\ delivered = <<>> /\ whole = <<>> /\ receivedQueue = <<>> /\ accepted = <<>>
        /\ wire = <<>> /\ writeQ = <<>> /\ sentMsgs = <<>>
    BY DEF FramingInit
  <2> QED  BY <2>1 DEF OwnPackets, OnePacket
<1>2. Types /\ Own /\ [FramingNext]_framingVars => Own'
  <2> SUFFICES ASSUME Types, Own, [FramingNext]_framingVars, ~foreign' PROVE OwnPackets' /\ OnePacket'
    BY DEF Own
  <2>1. ~foreign
    BY DEF FramingNext, Ask, SendPacket, Write, ForeignSend, Read, Take, ClientHandled, ServerHandled,
           framingVars, sendVars
  <2> QED  BY <2>1, OwnStep, OneStep DEF Own
<1> QED  BY <1>1, <1>2, TypeCorrect, PTL DEF FramingSpec

\* Between two ends that run this code the messages arrive as they were sent,
\* in order, none left out, none twice: ArriveAsSent.
THEOREM MessagesArriveAsSent == FramingSpec => []ArriveAsSent
<1>1. Types /\ Own => ArriveAsSent
  <2> SUFFICES ASSUME Types, OwnPackets, OnePacket
               PROVE  IsPrefix([i \in DOMAIN delivered |-> Data(delivered[i])], sentMsgs)
    BY DEF ArriveAsSent, Own
  <2> DEFINE got == [i \in DOMAIN delivered |-> Data(delivered[i])]
  <2>1. /\ accepted \in Seq(Packets) /\ sentMsgs \in Seq(Seq(Nat))
        /\ Len(accepted) \in Nat /\ Len(delivered) \in Nat /\ Len(sentMsgs) \in Nat
        /\ Len(whole) \in Nat /\ Len(receivedQueue) \in Nat
        /\ DOMAIN delivered = 1 .. Len(delivered)
    BY DEF Types
  <2>2. Len(delivered) <= Len(accepted)
    BY <2>1 DEF OnePacket
  <2>3. \A i \in 1 .. Len(accepted) : i <= Len(sentMsgs) /\ accepted[i].data = sentMsgs[i]
    BY DEF OwnPackets, Sent, IsWhole
  <2>4. Len(delivered) <= Len(sentMsgs)
    <3>1. CASE Len(delivered) = 0
      BY <2>1, <3>1
    <3>2. CASE Len(delivered) # 0
      <4>1. Len(delivered) \in 1 .. Len(accepted)
        BY <2>1, <2>2, <3>2
      <4> QED  BY <2>3, <4>1
    <3> QED  BY <3>1, <3>2
  <2>5. \A i \in 1 .. Len(delivered) : Data(delivered[i]) = sentMsgs[i]
    <3> SUFFICES ASSUME NEW i \in 1 .. Len(delivered) PROVE Data(delivered[i]) = sentMsgs[i]
      OBVIOUS
    <3>1. i \in 1 .. Len(accepted)
      BY <2>1, <2>2
    <3>2. accepted[i] \in Packets /\ delivered[i] = <<accepted[i]>>
      BY <2>1, <3>1 DEF OnePacket
    <3> QED  BY <2>3, <3>1, <3>2, DataOfOne
  <2>6. got = [i \in 1 .. Len(delivered) |-> sentMsgs[i]]
    BY <2>1, <2>5
  <2>7. got \in Seq(Seq(Nat)) /\ Len(got) = Len(delivered)
    <3>1. \A i \in 1 .. Len(delivered) : sentMsgs[i] \in Seq(Nat)
      BY <2>1, <2>4
    <3> HIDE DEF got
    <3>2. got \in [1 .. Len(delivered) -> Seq(Nat)]
      BY <2>6, <3>1
    <3> QED  BY <2>1, <3>2
  <2> HIDE DEF got
  <2>8. SubSeq(got, 1, Len(got)) = SubSeq(sentMsgs, 1, Len(got))
    <3>1. got = SubSeq(sentMsgs, 1, Len(delivered))
      BY <2>1, <2>4, <2>6
    <3>2. SubSeq(got, 1, Len(got)) = got
      BY <2>7
    <3> QED  BY <2>7, <3>1, <3>2
  <2>9. IsPrefix(got, sentMsgs)
    BY <2>4, <2>7, <2>8 DEF IsPrefix
  <2> QED  BY <2>9 DEF got
<1> QED  BY <1>1, OwnInvariant, TypeCorrect, PTL
-----------------------------------------------------------------------------
(* Messages of at most a packet do not close the connection.               *)

\* No message sent so far is larger than a packet.
AllSmall == \A i \in DOMAIN sentMsgs : Len(sentMsgs[i]) <= MaxPacketSize

\* Then nothing that is on its way can be refused: writeLoop finds packets
\* that are small enough, the last status read was that of a whole message,
\* and a response is sent only for a request made.
Passes ==
  /\ Len(sentMsgs) = started
  /\ \A i \in 1 .. Len(sentMsgs) : Len(sentMsgs[i]) # 0
  /\ role = "client" => started <= asked
  /\ AllSmall => /\ alive
                 /\ Small(Len(writeQ))
                 /\ packetStatus = 255 \/ Completed(packetStatus)

LEMMA PassesSend ==
  ASSUME Types, ~foreign, Passes, SendPacket
  PROVE  Passes'
<1> DEFINE m == started + 1
<1>1. PICK n \in Sizes : /\ writeQ' = writeQ \o Queued(m, n)
                         /\ sentMsgs' = Append(sentMsgs, [j \in 1 .. n |-> m])
  BY DEF SendPacket
<1>2. /\ started' = m /\ m \in Nat /\ n \in Nat \ {0} /\ started \in Nat
      /\ UNCHANGED <<role, asked, packetStatus, alive>>
      /\ role = "client" => started < asked
  BY FramingAssumption DEF SendPacket, MayStart, Types, readVars
<1> DEFINE msg == [j \in 1 .. n |-> m]
           Q == Queued(m, n)
<1>3. msg \in Seq(Nat) /\ Q \in Seq(Packets)
  BY <1>2, QueuedType
<1>4. /\ Len(Q) \in Nat \ {0} /\ Len(msg) = n
      /\ \A i \in 1 .. Len(Q) : Q[i].data = msg
  BY <1>2, QueuedIs
<1> HIDE DEF msg, Q, m
<1>5. /\ Len(sentMsgs') = Len(sentMsgs) + 1 /\ sentMsgs'[Len(sentMsgs) + 1] = msg
      /\ \A i \in 1 .. Len(sentMsgs) : sentMsgs'[i] = sentMsgs[i]
      /\ sentMsgs \in Seq(Seq(Nat)) /\ sentMsgs' \in Seq(Seq(Nat)) /\ Len(sentMsgs) \in Nat
  BY <1>1, <1>3, AppendProperties DEF msg, m, Types
<1>6. Len(sentMsgs') = started' /\ \A i \in 1 .. Len(sentMsgs') : Len(sentMsgs'[i]) # 0
  <2>1. \A i \in 1 .. Len(sentMsgs') : i \in 1 .. Len(sentMsgs) \/ i = Len(sentMsgs) + 1
    BY <1>5
  <2>2. Len(sentMsgs') = started'
    BY <1>2, <1>5 DEF Passes, m
  <2> QED  BY <1>2, <1>4, <1>5, <2>1, <2>2 DEF Passes
<1>7. role' = "client" => started' <= asked'
  BY <1>2 DEF m, Types
<1>8. ASSUME AllSmall'
      PROVE  /\ alive' /\ Small(Len(writeQ))'
             /\ packetStatus' = 255 \/ Completed(packetStatus)'
  <2>1. \A i \in 1 .. Len(sentMsgs') : Len(sentMsgs'[i]) <= MaxPacketSize
    <3>1. DOMAIN sentMsgs' = 1 .. Len(sentMsgs')
      BY <1>5
    <3> QED  BY <1>8, <3>1 DEF AllSmall
  <2>2. AllSmall
    <3>1. \A i \in 1 .. Len(sentMsgs) : i \in 1 .. Len(sentMsgs')
      BY <1>5
    <3>2. DOMAIN sentMsgs = 1 .. Len(sentMsgs)
      BY <1>5
    <3> QED  BY <1>5, <2>1, <3>1, <3>2 DEF AllSmall
  <2>3. n <= MaxPacketSize
    <3>1. Len(sentMsgs) + 1 \in 1 .. Len(sentMsgs')
      BY <1>5
    <3> QED  BY <1>4, <1>5, <2>1, <3>1
  <2>4. /\ Len(writeQ') = Len(writeQ) + Len(Q) /\ Len(writeQ) \in Nat
        /\ \A i \in 1 .. Len(writeQ) : writeQ'[i] = writeQ[i]
        /\ \A i \in 1 .. Len(Q) : writeQ'[Len(writeQ) + i] = Q[i]
    <3>1. writeQ' = writeQ \o Q
      BY <1>1 DEF Q, m
    <3>2. writeQ \in Seq(Packets)
      BY DEF Types
    <3> QED  BY <1>3, <3>1, <3>2
  <2>5. Small(Len(writeQ))'
    <3> SUFFICES ASSUME NEW i \in 1 .. Len(writeQ') PROVE Len(writeQ'[i].data) <= MaxPacketSize
      BY DEF Small
    <3>1. CASE i \in 1 .. Len(writeQ)
      BY <2>2, <2>4, <3>1 DEF Passes, Small
    <3>2. CASE i \notin 1 .. Len(writeQ)
      <4> DEFINE k == i - Len(writeQ)
      <4>1. k \in 1 .. Len(Q) /\ i = Len(writeQ) + k
        BY <1>4, <2>4, <3>2
      <4> HIDE DEF k
      <4>2. writeQ'[i].data = msg
        BY <1>4, <2>4, <4>1
      <4> QED  BY <1>4, <2>3, <4>2
    <3> QED  BY <3>1, <3>2
  <2>6. Completed(packetStatus)' <=> Completed(packetStatus)
    BY <1>2 DEF Completed, FirstFull, LaterFull, FirstPart
  <2> QED  BY <1>2, <2>2, <2>5, <2>6 DEF Passes
<1> QED  BY <1>6, <1>7, <1>8 DEF Passes

\* What else leaves the messages alone has to keep the last part only.
LEMMA PassesKept ==
  ASSUME Types, Passes, UNCHANGED <<role, sentMsgs, started>>, asked' \in Nat, asked <= asked',
         AllSmall => /\ alive' /\ Small(Len(writeQ))'
                     /\ packetStatus' = 255 \/ Completed(packetStatus')
  PROVE  Passes'
<1>1. AllSmall' <=> AllSmall
  BY DEF AllSmall
<1>2. role = "client" => started <= asked'
  BY DEF Passes, Types
<1>3. Completed(packetStatus)' <=> Completed(packetStatus')
  BY DEF Completed, FirstFull, LaterFull, FirstPart
<1> QED  BY <1>1, <1>2, <1>3 DEF Passes

LEMMA PassesStep ==
  ASSUME Types, ~foreign, OwnPackets, OnePacket, Requests, Passes, [FramingNext]_framingVars
  PROVE  Passes'
<1>0. asked \in Nat /\ asked <= asked
  BY DEF Types
<1>1. CASE Ask
  <2>1. /\ UNCHANGED <<role, sentMsgs, started, alive, writeQ, packetStatus>> /\ asked' = asked + 1
    BY <1>1 DEF Ask, readVars
  <2>2. Small(Len(writeQ))' <=> Small(Len(writeQ))
    BY <2>1 DEF Small
  <2>3. asked' \in Nat /\ asked <= asked'
    BY <1>0, <2>1
  <2> QED  BY <2>1, <2>2, <2>3, PassesKept DEF Passes
<1>2. CASE SendPacket
  BY <1>2, PassesSend
<1>3. CASE Write
  <2>1. /\ UNCHANGED <<role, sentMsgs, started, asked, packetStatus>>
        /\ writeQ \in Seq(Packets) /\ writeQ # <<>> /\ writeQ' = Tail(writeQ)
        /\ Len(Head(writeQ).data) <= MaxPacketSize => UNCHANGED alive
    <3>1. Len(Head(writeQ).data) <= MaxPacketSize => ~(Len(Head(writeQ).data) > MaxPacketSize)
      <4>1. Head(writeQ) \in Packets
        BY <1>3, HeadTailProperties DEF Write, Types
      <4>2. Len(Head(writeQ).data) \in Nat /\ MaxPacketSize \in Nat
        BY <4>1, FramingAssumption DEF Packets
      <4> QED  BY <4>2
    <3> QED  BY <1>3, <3>1 DEF Write, Types, readVars
  <2>2. /\ Len(writeQ) \in Nat \ {0} /\ Len(writeQ') = Len(writeQ) - 1 /\ Head(writeQ) = writeQ[1]
        /\ \A i \in 1 .. Len(writeQ') : writeQ'[i] = writeQ[i + 1]
    BY <2>1, HeadTailProperties
  <2>3. ASSUME AllSmall
        PROVE  /\ alive' /\ Small(Len(writeQ))'
               /\ packetStatus' = 255 \/ Completed(packetStatus')
    <3>1. \A i \in 1 .. Len(writeQ) : Len(writeQ[i].data) <= MaxPacketSize
      BY <2>3 DEF Passes, Small
    <3>2. 1 \in 1 .. Len(writeQ) /\ \A i \in 1 .. Len(writeQ') : i + 1 \in 1 .. Len(writeQ)
      BY <2>2
    <3>3. Small(Len(writeQ))'
      BY <2>2, <3>1, <3>2 DEF Small
    <3>4. Len(Head(writeQ).data) <= MaxPacketSize
      BY <2>2, <3>1, <3>2
    <3>5. UNCHANGED <<alive, packetStatus>>
      BY <2>1, <3>4
    <3> QED  BY <2>3, <3>3, <3>5 DEF Passes
  <2> QED  BY <1>0, <2>1, <2>3, PassesKept
<1>4. CASE Read
  <2>1. /\ UNCHANGED <<role, sentMsgs, started, asked, writeQ>> /\ alive
        /\ wire \in Seq(Packets) /\ wire # <<>>
    BY <1>4 DEF Read, sendVars, Types
  <2> DEFINE p == Head(wire)
  <2>2. p \in Packets /\ p = wire[1] /\ 1 \in 1 .. Len(wire)
    BY <2>1, HeadTailProperties
  <2>3. Sent(p, Len(accepted) + 1)
    BY <2>1, <2>2 DEF OwnPackets
  <2>4. p.status = FirstFull /\ p.data = sentMsgs[Len(accepted) + 1]
        /\ Len(accepted) + 1 \in 1 .. Len(sentMsgs)
    <3>1. Len(accepted) \in Nat /\ Len(sentMsgs) \in Nat
      BY DEF Types
    <3> QED  BY <2>3, <3>1 DEF Sent, IsWhole
  <2> HIDE DEF p
  <2>5. ASSUME AllSmall
        PROVE  /\ alive' /\ Small(Len(writeQ))'
               /\ packetStatus' = 255 \/ Completed(packetStatus')
    <3>1. Len(p.data) <= MaxPacketSize /\ Len(p.data) # 0
      <4>1. DOMAIN sentMsgs = 1 .. Len(sentMsgs)
        BY DEF Types
      <4> QED  BY <2>4, <2>5, <4>1 DEF AllSmall, Passes
    <3>2. packetStatus = 255 \/ Completed(packetStatus)
      BY <2>5 DEF Passes
    <3>3. Acceptable(p)
      <4>1. p.status # Status8
        BY <2>4, StatusValues DEF Status8
      <4>2. CheckPacketStatus(packetStatus, p.status)
        BY <2>4, <3>2 DEF CheckPacketStatus
      <4> QED  BY <3>1, <4>1, <4>2 DEF Acceptable
    <3>4. packetStatus' = p.status /\ UNCHANGED alive
      BY <1>4, <3>3 DEF Read, p
    <3>5. Completed(packetStatus')
      BY <2>4, <3>4 DEF Completed
    <3>6. Small(Len(writeQ))' <=> Small(Len(writeQ))
      BY <2>1 DEF Small
    <3> QED  BY <2>1, <2>5, <3>4, <3>5, <3>6 DEF Passes
  <2> QED  BY <1>0, <2>1, <2>5, PassesKept
<1>5. CASE Take
  <2>1. /\ UNCHANGED <<role, sentMsgs, started, asked, writeQ, packetStatus>> /\ alive
        /\ loop = "select" /\ receivedQueue # <<>>
    BY <1>5 DEF Take, sendVars, readVars
  <2>2. ~(role = "client" /\ outstanding = <<>>)
    <3> SUFFICES ASSUME role = "client", outstanding = <<>> PROVE FALSE
      OBVIOUS
    <3> DEFINE d == Len(delivered)
               q == Len(receivedQueue)
               a == Len(accepted)
               t == Len(sentMsgs)
    <3>1. d = asked
      <4>1. Len(outstanding) = 0 /\ InHand = 0 /\ d \in Nat
        BY <2>1 DEF InHand, Types
      <4>2. Len(outstanding) + d + InHand = asked
        BY DEF Requests
      <4> QED  BY <4>1, <4>2
    <3>2. d \in Nat /\ q \in Nat \ {0} /\ a \in Nat /\ t \in Nat
      BY <2>1 DEF Types
    <3>3. d + q = a
      <4>1. whole = <<>>
        BY <2>1 DEF OnePacket
      <4>2. Len(whole) = 0 /\ d + Len(whole) + q = a
        BY <4>1 DEF OnePacket
      <4> HIDE DEF d, q, a
      <4> QED  BY <3>2, <4>2
    <3>4. a <= t
      <4>1. a \in 1 .. a
        BY <3>2, <3>3
      <4> QED  BY <4>1 DEF OwnPackets, Sent, IsWhole
    <3>5. t <= asked
      BY DEF Passes
    <3> HIDE DEF d, q, a, t
    <3> QED  BY <1>0, <3>1, <3>2, <3>3, <3>4, <3>5
  <2>3. UNCHANGED alive
    BY <1>5, <2>2 DEF Take
  <2>4. Small(Len(writeQ))' <=> Small(Len(writeQ))
    BY <2>1 DEF Small
  <2> QED  BY <1>0, <2>1, <2>3, <2>4, PassesKept DEF Passes
<1>6. CASE ClientHandled \/ ServerHandled \/ UNCHANGED framingVars
  <2>1. UNCHANGED <<role, sentMsgs, started, asked, writeQ, packetStatus, alive>>
    BY <1>6 DEF ClientHandled, ServerHandled, framingVars, sendVars, readVars
  <2>2. Small(Len(writeQ))' <=> Small(Len(writeQ))
    BY <2>1 DEF Small
  <2> QED  BY <1>0, <2>1, <2>2, PassesKept DEF Passes
<1>7. CASE ForeignSend
  BY <1>7 DEF ForeignSend
<1> QED  BY <1>1, <1>2, <1>3, <1>4, <1>5, <1>6, <1>7 DEF FramingNext

\* Between two ends that run this code the connection stays open as long as no
\* message is larger than a packet: SmallMessagesPass.
THEOREM ConnectionStaysOpen == FramingSpec => []SmallMessagesPass
<1> DEFINE P == ~foreign => Passes
<1>1. FramingInit => P
  <2> SUFFICES ASSUME FramingInit PROVE Passes
    OBVIOUS
  <2>1. sentMsgs = <<>> /\ started = 0 /\ asked = 0 /\ writeQ = <<>> /\ alive /\ packetStatus = 255
    BY DEF FramingInit
  <2> QED  BY <2>1 DEF Passes, Small
<1>2. Types /\ Own /\ Requests /\ P /\ [FramingNext]_framingVars => P'
  <2> SUFFICES ASSUME Types, Own, Requests, P, [FramingNext]_framingVars, ~foreign' PROVE Passes'
    OBVIOUS
  <2>1. ~foreign
    BY DEF FramingNext, Ask, SendPacket, Write, ForeignSend, Read, Take, ClientHandled, ServerHandled,
           framingVars, sendVars
  <2> QED  BY <2>1, PassesStep DEF Own
<1>3. P => SmallMessagesPass
  BY DEF Passes, AllSmall, SmallMessagesPass
<1> QED  BY <1>1, <1>2, <1>3, TypeCorrect, OwnInvariant, RequestsInvariant, PTL DEF FramingSpec
=============================================================================
