--------------------------- MODULE ConnPoolProofs ---------------------------
(***************************************************************************)
(* Proofs about ConnPool, for any number of connections, callers and       *)
(* EvaluatedClients and any limits.                                        *)
(***************************************************************************)
EXTENDS ConnPool, FiniteSetTheorems, WellFoundedInduction, TLAPS

Cells == Conns \cup {NoConn}
Marks == {"none", "open", "marked", "removed", "closed"}
Steps == {"idle", "check", "dial", "append", "count", "channel", "close", "pick", "panic"}

\* m.connections is a slice of an array that is long enough, and its cells
\* have connections.
SliceOK ==
  /\ heap \in Seq(Seq(Cells)) /\ Len(heap) > 0
  /\ size \in Nat /\ size <= Len(array)
  /\ \A i \in 1 .. size : array[i] \in Conns

\* No connection is in it twice.
Distinct == \A i, j \in 1 .. size : array[i] = array[j] => i = j

\* The types of the other variables the proofs are about.
Types ==
  /\ balanced \in BOOLEAN /\ connCount \in Int
  /\ mark \in [Conns -> Marks]
  /\ pc \in [Callers -> Steps] /\ conn \in [Callers -> Cells]
  /\ lock \in [Evals -> SUBSET Callers] /\ connIndex \in [Evals -> Int]
-----------------------------------------------------------------------------
(* The inductive invariant.                                                *)

\* The callers at one of some steps.
At(steps) == {k \in Callers : pc[k] \in steps}

\* A caller that has a connection in its hand: it was dialled, and before
\* the append it is in no one else's, and not in the pool.
Own ==
  /\ \A k \in Callers : pc[k] \in {"append", "count", "channel", "close"} =>
       conn[k] \in Conns /\ mark[conn[k]] # "none"
  /\ \A k \in Callers : pc[k] = "append" =>
       /\ conn[k] \notin Pool
       /\ mark[conn[k]] \in {"open", "marked"} \/ conn[k] \in early
  /\ \A j, k \in Callers :
       (pc[j] = "append" /\ pc[k] = "append" /\ conn[j] = conn[k]) => j = k

\* The rest of PoolExact, and that only dialled connections are in the pool.
Listed ==
  /\ \A c \in Conns : mark[c] = "none" => c \notin Pool
  /\ \A c \in Conns : mark[c] = "open" =>
       c \in Pool \/ Between("append", c) \/ Between("close", c)
  /\ \A c \in Pool : mark[c] \in {"open", "marked"} \/ c \in early

\* getChannelLock: one caller at a time has it, and every call of
\* getTaskChannel has one.
Locks ==
  /\ \A e \in Evals : \A j, k \in lock[e] : j = k
  /\ \A k \in Callers : pc[k] = "pick" => balanced
  /\ balanced => \A k \in Callers : pc[k] # "idle" => \E e \in Evals : k \in lock[e]

\* A connection without its channel is one that a caller is setting up.
SetUp ==
  balanced => \A c \in Pool \ lblChannel : \E l \in Callers :
                pc[l] \in {"count", "channel", "panic"} /\ conn[l] = c

\* LimitsKept with the callers that have passed a check and not appended yet:
\* each of them is one more connection to come.
Room ==
  /\ size + Cardinality(At({"dial", "append"})) <= MaxConnections + Cardinality(Callers) - 1
  /\ balanced =>
       /\ size + Cardinality(At({"dial", "append"}))
            <= MaxConnections + Cardinality(Evals) - 1
       /\ size + Cardinality(At({"check", "dial", "append"}))
            <= ServerKeepConns + Cardinality(Evals) - 1

IInv ==
  /\ SliceOK /\ Distinct /\ Types /\ Own /\ Listed /\ Locks /\ SetUp
  /\ CountMatches /\ Room
-----------------------------------------------------------------------------
(* The slice.                                                              *)

\* A cell of a slice is a cell of its array.
LEMMA SliceCells ==
  ASSUME NEW A \in Seq(Cells), NEW n \in Nat, n <= Len(A)
  PROVE  /\ \A i \in 1 .. n : SubSeq(A, 1, n)[i] = A[i]
         /\ {SubSeq(A, 1, n)[i] : i \in 1 .. n} = {A[i] : i \in 1 .. n}
<1>1. \A i \in 1 .. n : SubSeq(A, 1, n)[i] = A[i]
  OBVIOUS
<1> HIDE <1>1
<1>2. {SubSeq(A, 1, n)[i] : i \in 1 .. n} = {A[i] : i \in 1 .. n}
  BY <1>1, Zenon
<1> QED  BY <1>1, <1>2

\* The pool in terms of the array.
LEMMA PoolCells ==
  ASSUME SliceOK
  PROVE  /\ \A i \in 1 .. size : connections[i] = array[i]
         /\ Pool = {array[i] : i \in 1 .. size}
         /\ Pool \subseteq Conns
         /\ Pool # {} => size > 0
<1>1. array \in Seq(Cells) /\ size \in Nat /\ size <= Len(array)
  BY DEF SliceOK, array
<1>2. /\ \A i \in 1 .. size : connections[i] = array[i]
      /\ Pool = {array[i] : i \in 1 .. size}
  BY <1>1, SliceCells DEF connections, Pool
<1>3. Pool \subseteq Conns
  BY <1>2 DEF SliceOK
<1>4. Pool # {} => size > 0
  BY <1>1, <1>2
<1> QED  BY <1>2, <1>3, <1>4

\* The same after a step.
LEMMA PoolCellsNext ==
  ASSUME SliceOK'
  PROVE  /\ \A i \in 1 .. size' : connections'[i] = array'[i]
         /\ Pool' = {array'[i] : i \in 1 .. size'}
<1>1. array' \in Seq(Cells) /\ size' \in Nat /\ size' <= Len(array')
  BY DEF SliceOK, array
<1>2. /\ \A i \in 1 .. size' : connections'[i] = array'[i]
      /\ Pool' = {array'[i] : i \in 1 .. size'}
  BY <1>1, SliceCells DEF connections, Pool
<1> QED  BY <1>2

\* append puts the connection behind the others, whether the array has room
\* or not.
LEMMA AppendedCells ==
  ASSUME SliceOK, NEW c \in Conns, Appended(c)
  PROVE  /\ SliceOK'
         /\ size' = size + 1 /\ array'[size + 1] = c
         /\ \A i \in 1 .. size : array'[i] = array[i]
<1>1. /\ array \in Seq(Cells) /\ size \in Nat /\ size <= Len(array)
      /\ c \in Cells /\ NoConn \in Cells /\ size' = size + 1
  BY DEF SliceOK, array, Cells, Appended
<1>2. CASE size < Len(array)
  <2> DEFINE B == [array EXCEPT ![size + 1] = c]
  <2>1. heap' = [heap EXCEPT ![Len(heap)] = B]
    BY <1>2 DEF Appended, array
  <2>2. /\ B \in Seq(Cells) /\ Len(B) = Len(array) /\ B[size + 1] = c
        /\ \A i \in 1 .. size : B[i] = array[i]
    BY <1>1, <1>2
  <2> HIDE DEF B
  <2>3. heap' \in Seq(Seq(Cells)) /\ Len(heap') = Len(heap) /\ array' = B
    BY <2>1, <2>2 DEF SliceOK, array
  <2> QED  BY <1>1, <1>2, <2>2, <2>3 DEF SliceOK
<1>3. CASE ~(size < Len(array))
  <2> DEFINE n == IF size = 0 THEN 1 ELSE 2 * size
             B == [i \in 1 .. n |-> IF i <= size THEN array[i]
                                    ELSE IF i = size + 1 THEN c ELSE NoConn]
             old == IF Ranging THEN <<heap[1]>> ELSE <<>>
  <2>1. heap' = Append(old, B)
    BY <1>3 DEF Appended
  <2>2. n \in Nat /\ n >= size + 1
    BY <1>1
  <2> HIDE DEF n
  <2>3. /\ B \in Seq(Cells) /\ Len(B) = n /\ B[size + 1] = c
        /\ \A i \in 1 .. size : B[i] = array[i]
    BY <1>1, <2>2
  <2>4. old \in Seq(Seq(Cells))
    BY DEF SliceOK
  <2> HIDE DEF B, old
  <2>5. heap' \in Seq(Seq(Cells)) /\ Len(heap') > 0 /\ array' = B
    BY <2>1, <2>3, <2>4 DEF array
  <2>6. \A i \in 1 .. size + 1 : B[i] \in Conns
    <3>1. \A i \in 1 .. size + 1 : i \in 1 .. size \/ i = size + 1
      BY <1>1
    <3>2. \A i \in 1 .. size : array[i] \in Conns
      BY DEF SliceOK
    <3> QED  BY <2>3, <3>1, <3>2
  <2>7. SliceOK'
    <3>1. size' \in Nat /\ size' <= Len(array')
      BY <1>1, <2>2, <2>3, <2>5
    <3>2. \A i \in 1 .. size' : array'[i] \in Conns
      BY <1>1, <2>5, <2>6
    <3> QED  BY <2>5, <3>1, <3>2 DEF SliceOK
  <2> QED  BY <1>1, <2>3, <2>5, <2>7
<1> QED  BY <1>2, <1>3

\* removeConnection moves the cells behind the connection down.
LEMMA RemovedCells ==
  ASSUME SliceOK, NEW c \in Pool, Removed(c)
  PROVE  /\ SliceOK'
         /\ size > 0 /\ size' = size - 1 /\ connCount' = connCount - 1
         /\ \E i \in 1 .. size :
              /\ array[i] = c
              /\ \A j \in 1 .. size - 1 :
                   array'[j] = IF j < i THEN array[j] ELSE array[j + 1]
<1>0. Pool = {array[j] : j \in 1 .. size} /\ c \in Pool
  BY PoolCells
<1>1. /\ array \in Seq(Cells) /\ size \in Nat /\ size <= Len(array)
      /\ size > 0 /\ \E j \in 1 .. size : array[j] = c
  <2>1. array \in Seq(Cells) /\ size \in Nat /\ size <= Len(array)
    BY DEF SliceOK, array
  <2>2. \E j \in 1 .. size : array[j] = c
    BY <1>0
  <2> QED  BY <2>1, <2>2
<1> DEFINE i == CHOOSE j \in 1 .. size : array[j] = c
           B == [j \in 1 .. Len(array) |->
                   IF j \in i .. size - 1 THEN array[j + 1] ELSE array[j]]
<1>2. i \in 1 .. size /\ array[i] = c
  BY <1>1
<1>3. /\ size' = size - 1 /\ connCount' = connCount - 1
      /\ heap' = [heap EXCEPT ![Len(heap)] = B]
  BY DEF Removed
<1> HIDE DEF i
<1>4. /\ B \in Seq(Cells) /\ Len(B) = Len(array)
      /\ \A j \in 1 .. size - 1 : B[j] = IF j < i THEN array[j] ELSE array[j + 1]
  BY <1>1, <1>2
<1> HIDE DEF B
<1>5. heap' \in Seq(Seq(Cells)) /\ Len(heap') = Len(heap) /\ array' = B
  BY <1>3, <1>4 DEF SliceOK, array
<1>6. \A j \in 1 .. size - 1 : B[j] \in Conns
  <2>1. \A j \in 1 .. size - 1 : j \in 1 .. size /\ j + 1 \in 1 .. size
    BY <1>1
  <2>2. \A j \in 1 .. size : array[j] \in Conns
    BY DEF SliceOK
  <2> QED  BY <1>4, <2>1, <2>2
<1>7. SliceOK'
  BY <1>1, <1>3, <1>4, <1>5, <1>6 DEF SliceOK
<1> QED  BY <1>1, <1>2, <1>3, <1>4, <1>5, <1>7

\* What append and removeConnection mean for the pool.
LEMMA AppendedPool ==
  ASSUME SliceOK, Distinct, NEW c \in Conns \ Pool, Appended(c)
  PROVE  SliceOK' /\ Distinct' /\ size' = size + 1 /\ Pool' = Pool \cup {c}
<1>1. /\ SliceOK' /\ size \in Nat
      /\ size' = size + 1 /\ array'[size + 1] = c
      /\ \A i \in 1 .. size : array'[i] = array[i]
  BY AppendedCells DEF SliceOK
<1>2. Pool = {array[i] : i \in 1 .. size} /\ Pool' = {array'[i] : i \in 1 .. size'}
  BY <1>1, PoolCells, PoolCellsNext
<1>3. Pool' = Pool \cup {c}
  BY <1>1, <1>2
<1>4. Distinct'
  BY <1>1, <1>2 DEF Distinct
<1> QED  BY <1>1, <1>3, <1>4

\* The connection that is removed is gone, and it alone.
LEMMA RemovedPool ==
  ASSUME SliceOK, Distinct, NEW c \in Pool, Removed(c)
  PROVE  /\ SliceOK' /\ Distinct' /\ Pool' = Pool \ {c}
         /\ size > 0 /\ size' = size - 1 /\ connCount' = connCount - 1
<1>1. PICK i \in 1 .. size :
        /\ array[i] = c
        /\ \A j \in 1 .. size - 1 :
             array'[j] = IF j < i THEN array[j] ELSE array[j + 1]
  BY RemovedCells
<1>2. /\ SliceOK' /\ size \in Nat
      /\ size > 0 /\ size' = size - 1 /\ connCount' = connCount - 1
  BY RemovedCells DEF SliceOK
<1>3. Pool = {array[j] : j \in 1 .. size} /\ Pool' = {array'[j] : j \in 1 .. size'}
  BY <1>2, PoolCells, PoolCellsNext
<1>4. Pool' \subseteq Pool \ {c}
  BY <1>1, <1>2, <1>3 DEF Distinct
<1>5. Pool \ {c} \subseteq Pool'
  <2> SUFFICES ASSUME NEW j \in 1 .. size, array[j] # c PROVE array[j] \in Pool'
    BY <1>3
  <2>1. CASE j < i
    BY <1>1, <1>2, <1>3, <2>1
  <2>2. CASE j > i
    <3>1. j - 1 \in 1 .. size - 1 /\ array'[j - 1] = array[j]
      BY <1>1, <1>2, <2>2
    <3> QED  BY <1>2, <1>3, <3>1
  <2> QED  BY <1>1, <1>2, <2>1, <2>2
<1>6. Distinct'
  BY <1>1, <1>2 DEF Distinct
<1> QED  BY <1>2, <1>4, <1>5, <1>6

\* removeConnection of a connection that may be in the pool or not.
LEMMA RemovedEffect ==
  ASSUME SliceOK, Distinct, NEW c, Removed(c)
  PROVE  /\ SliceOK' /\ Distinct' /\ Pool' = Pool \ {c}
         /\ \/ c \in Pool /\ size > 0 /\ size' = size - 1 /\ connCount' = connCount - 1
            \/ c \notin Pool /\ UNCHANGED <<size, connCount>>
<1>1. CASE c \in Pool
  BY <1>1, RemovedPool
<1>2. CASE c \notin Pool
  <2>1. UNCHANGED <<heap, size, connCount>>
    BY <1>2 DEF Removed, poolVars
  <2>2. SliceOK' /\ Distinct' /\ Pool' = Pool
    BY <2>1 DEF SliceOK, Distinct, Pool, connections, array
  <2> QED  BY <1>2, <2>1, <2>2
<1> QED  BY <1>1, <1>2
-----------------------------------------------------------------------------
(* The steps of connections and of Client.Close.                           *)

\* A connection's mark only goes on.
Ages ==
  /\ mark' \in [Conns -> Marks]
  /\ \A c \in Conns : \/ mark'[c] = mark[c]
                      \/ mark[c] = "open" /\ mark'[c] = "marked"
                      \/ mark[c] = "removed" /\ mark'[c] = "closed"

\* Nothing but that happens.
Quiet ==
  /\ UNCHANGED <<balanced, array, size, Pool, connCount, lblChannel, pc, conn, lock,
                 connIndex, early>>
  /\ SliceOK'
  /\ Ages

\* The steps that are quiet.
LEMMA QuietSteps ==
  ASSUME SliceOK, Types,
         \/ \E c \in Conns : Fail(c) \/ CloseChannels(c) \/ ChannelClose(c)
         \/ Close \/ CloseNext \/ CloseReturns \/ CloseDone \/ UNCHANGED vars
  PROVE  Quiet
<1>1. UNCHANGED <<balanced, size, connCount, lblChannel, pc, conn, lock, connIndex, early>>
  BY DEF Fail, CloseChannels, ChannelClose, Close, CloseNext, CloseReturns, CloseDone,
         vars, poolVars, connVars, callVars
<1>2. UNCHANGED heap \/ heap' = <<array>>
  BY DEF Fail, CloseChannels, ChannelClose, Close, CloseNext, CloseReturns, CloseDone,
         vars, poolVars
<1>3. array' = array /\ heap' \in Seq(Seq(Cells)) /\ Len(heap') > 0
  <2>1. heap \in Seq(Seq(Cells)) /\ Len(heap) > 0 /\ array \in Seq(Cells)
    BY DEF SliceOK, array
  <2>2. CASE UNCHANGED heap
    BY <2>1, <2>2 DEF array
  <2>3. CASE heap' = <<array>>
    <3>1. heap' \in Seq(Seq(Cells)) /\ Len(heap') = 1 /\ heap'[1] = array
      BY <2>1, <2>3
    <3> QED  BY <3>1 DEF array
  <2> QED  BY <1>2, <2>2, <2>3
<1>4. SliceOK'
  BY <1>1, <1>3 DEF SliceOK
<1>5. Pool' = Pool
  BY <1>1, <1>3 DEF Pool, connections
<1>6. Ages
  <2>1. \/ UNCHANGED mark
        \/ \E c : mark[c] = "open" /\ mark' = [mark EXCEPT ![c] = "marked"]
        \/ \E c : mark[c] = "removed" /\ mark' = [mark EXCEPT ![c] = "closed"]
    BY DEF Fail, CloseChannels, ChannelClose, Close, CloseNext, CloseReturns, CloseDone,
           vars, connVars
  <2> QED  BY <2>1 DEF Types, Ages, Marks
<1> QED  BY <1>1, <1>3, <1>4, <1>5, <1>6 DEF Quiet

\* They keep the invariant.
LEMMA QuietKeeps ==
  ASSUME IInv, Quiet
  PROVE  IInv'
<1>0. UNCHANGED <<balanced, array, size, Pool, connCount, lblChannel, pc, conn, lock,
                  connIndex, early>>
  BY DEF Quiet
<1>1. SliceOK' /\ Distinct' /\ Types'
  BY <1>0 DEF IInv, Quiet, Ages, Distinct, Types
<1>2. Own'
  BY <1>0 DEF IInv, Quiet, Ages, Own
<1>3. Listed'
  <2>1. Pool \subseteq Conns
    BY PoolCells DEF IInv
  <2> QED  BY <1>0, <2>1 DEF IInv, Quiet, Ages, Listed, Between
<1>4. Locks' /\ SetUp'
  BY <1>0 DEF IInv, Locks, SetUp
<1>5. CountMatches' /\ Room'
  BY <1>0 DEF IInv, CountMatches, Room, At
<1> QED  BY <1>1, <1>2, <1>3, <1>4, <1>5 DEF IInv

\* The first part of IInv: the pool and the connections in callers' hands.
PInv == SliceOK /\ Distinct /\ Types /\ Own /\ Listed /\ SetUp

\* Connection.Close takes the connection out.
LEMMA CloseRemoveKeeps ==
  ASSUME PInv, NEW c \in Conns, CloseRemove(c)
  PROVE  PInv'
<1>0. /\ SliceOK /\ Distinct /\ Types /\ Own /\ Listed /\ SetUp
      /\ mark[c] = "marked" /\ mark' = [mark EXCEPT ![c] = "removed"] /\ Removed(c)
      /\ early' = IF \E k \in Callers : conn[k] = c /\ pc[k] = "append"
                  THEN early \cup {c} ELSE early
      /\ UNCHANGED <<balanced, lblChannel, pc, conn, lock, connIndex>>
  BY DEF PInv, CloseRemove, callVars
<1>1. /\ SliceOK' /\ Distinct' /\ Pool' = Pool \ {c}
      /\ \/ connCount' = connCount - 1 \/ UNCHANGED connCount
  BY <1>0, RemovedEffect
<1>2. /\ mark' \in [Conns -> Marks] /\ mark'[c] = "removed"
      /\ \A d \in Conns \ {c} : mark'[d] = mark[d]
  BY <1>0 DEF Types, Marks
<1>3. Types'
  BY <1>0, <1>1, <1>2 DEF Types
<1>4. Own'
  BY <1>0, <1>1, <1>2 DEF Own
<1>5. Listed'
  <2>1. Pool \subseteq Conns
    BY <1>0, PoolCells
  <2> QED  BY <1>0, <1>1, <1>2, <2>1 DEF Listed, Between
<1>6. SetUp'
  BY <1>0, <1>1 DEF SetUp
<1> QED  BY <1>1, <1>3, <1>4, <1>5, <1>6 DEF PInv
-----------------------------------------------------------------------------
(* The steps of callers.                                                   *)

\* A set of cells that is not empty has a first one.
LEMMA SmallestOf ==
  ASSUME NEW n \in Nat, NEW S \in SUBSET (1 .. n), S # {}
  PROVE  \E j \in S : \A l \in S : j <= l
<1>1. S \subseteq Nat
  OBVIOUS
<1>2. PICK j \in S : \A l \in S : ~(<<l, j>> \in OpToRel(<, Nat))
  BY <1>1, WFMin, NatLessThanWellFounded
<1>3. \A l \in S : <<l, j>> \in OpToRel(<, Nat) <=> l < j
  BY <1>1 DEF OpToRel
<1>4. \A l \in S : ~(l < j)
  BY <1>2, <1>3, Zenon
<1>5. \A l \in S : j <= l
  BY <1>1, <1>4
<1> QED  BY <1>5

\* Caller k goes to a step with a connection; the other callers stay.
Moves(k, at, c) ==
  /\ pc' \in [Callers -> Steps] /\ conn' \in [Callers -> Cells]
  /\ pc'[k] = at /\ conn'[k] = c
  /\ \A j \in Callers \ {k} : pc'[j] = pc[j] /\ conn'[j] = conn[j]

\* What the assignments of a step come to.
LEMMA MoveOf ==
  ASSUME Types, NEW k \in Callers, NEW at \in Steps, NEW c \in Cells,
         pc' = [pc EXCEPT ![k] = at],
         conn' = [conn EXCEPT ![k] = c] \/ (UNCHANGED conn /\ c = conn[k])
  PROVE  Moves(k, at, c)
BY DEF Types, Moves

\* The steps that leave the pool and the connections alone.
Simple(k, at, c) ==
  /\ UNCHANGED <<balanced, heap, size, connCount, mark, early>>
  /\ Moves(k, at, c)
  /\ pc[k] \in {"idle", "check", "dial", "channel", "pick"}
  /\ at \notin {"append", "count", "close"}
  /\ at = "channel" => c \in Pool
  /\ lblChannel \subseteq lblChannel'
  /\ (balanced /\ pc[k] = "channel" /\ conn[k] \in Pool) =>
       conn[k] \in lblChannel' \/ (at = "panic" /\ c = conn[k])
  /\ lock' \in [Evals -> SUBSET Callers] /\ connIndex' \in [Evals -> Int]

\* They keep the first part of IInv.
LEMMA SimpleKeeps ==
  ASSUME PInv, NEW k \in Callers, NEW at \in Steps, NEW c \in Cells, Simple(k, at, c)
  PROVE  PInv'
<1>0. /\ SliceOK /\ Distinct /\ Types /\ Own /\ Listed /\ SetUp
      /\ UNCHANGED <<balanced, heap, size, connCount, mark, early>>
      /\ Moves(k, at, c)
  BY DEF PInv, Simple
<1>1. SliceOK' /\ Distinct' /\ UNCHANGED Pool
  BY <1>0 DEF SliceOK, Distinct, Pool, connections, array
<1>2. Types'
  BY <1>0 DEF Types, Simple, Moves
<1>p. Pool \subseteq Conns
  BY <1>0, PoolCells
<1>m. /\ pc'[k] = at /\ conn'[k] = c
      /\ \A j \in Callers \ {k} : pc'[j] = pc[j] /\ conn'[j] = conn[j]
  BY <1>0 DEF Moves
<1>3. Own'
  <2>1. at # "append" /\ (at \in {"append", "count", "channel", "close"} =>
                            c \in Conns /\ mark[c] # "none")
    BY <1>0, <1>p DEF Simple, Listed
  <2> QED  BY <1>0, <1>1, <1>m, <2>1 DEF Own
<1>4. Listed'
  <2>1. pc[k] \notin {"append", "close"}
    BY DEF Simple
  <2>2. \A d \in Conns : /\ Between("append", d) => Between("append", d)'
                         /\ Between("close", d) => Between("close", d)'
    BY <1>m, <2>1 DEF Between
  <2> QED  BY <1>0, <1>1, <2>2 DEF Listed
<1>5. SetUp'
  <2> SUFFICES ASSUME balanced, NEW d \in Pool \ lblChannel'
               PROVE  \E l \in Callers : /\ pc'[l] \in {"count", "channel", "panic"}
                                         /\ conn'[l] = d
    BY <1>0, <1>1 DEF SetUp
  <2>1. PICK l \in Callers : pc[l] \in {"count", "channel", "panic"} /\ conn[l] = d
    BY <1>0 DEF SetUp, Simple
  <2>2. CASE l = k
    <3>1. pc[k] = "channel" /\ conn[k] = d
      BY <2>1, <2>2 DEF Simple
    <3>2. at = "panic" /\ c = d
      BY <3>1 DEF Simple
    <3> QED  BY <1>m, <3>2
  <2>3. CASE l # k
    BY <1>m, <2>1, <2>3
  <2> QED  BY <2>2, <2>3
<1> QED  BY <1>1, <1>2, <1>3, <1>4, <1>5 DEF PInv

\* Which steps those are.
LEMMA SimpleSteps ==
  ASSUME PInv, NEW k \in Callers,
         \/ CheckLimit(k) \/ DialFails(k) \/ NoChannel0(k) \/ NewChannelDone(k)
         \/ NewChannelFails(k) /\ ~(balanced /\ conn[k] \in Pool)
         \/ GetFreeConnection(k) \/ GetTaskChannel(k) \/ PickConnection(k)
  PROVE  \E at \in Steps, c \in Cells : Simple(k, at, c)
<1>t. Types /\ SliceOK /\ conn[k] \in Cells /\ NoConn \in Cells
  BY DEF PInv, Types, Cells
<1>r. ASSUME Return(k) PROVE Moves(k, "idle", NoConn) /\ lock' \in [Evals -> SUBSET Callers]
  <2>1. "idle" \in Steps
    BY DEF Steps
  <2> QED  BY <1>r, <1>t, <2>1, MoveOf DEF Return, Goto, Types
<1>s. ASSUME NEW at \in Steps, Goto(k, at), UNCHANGED conn PROVE Moves(k, at, conn[k])
  BY <1>s, <1>t, MoveOf DEF Goto
<1>u. UNCHANGED <<balanced, heap, size, connCount, mark, early>>
  BY DEF CheckLimit, DialFails, NoChannel0, NewChannelDone, NewChannelFails,
         GetFreeConnection, GetTaskChannel, PickConnection, poolVars, connVars
<1> USE DEF Steps
<1>1. CASE CheckLimit(k)
  <2>1. pc[k] = "check" /\ UNCHANGED <<lblChannel, connIndex>>
    BY <1>1 DEF CheckLimit, connVars
  <2>2. CASE Return(k)
    <3>1. Simple(k, "idle", NoConn)
      BY <1>t, <1>u, <1>r, <2>1, <2>2 DEF Simple, Types
    <3> QED  BY <1>t, <3>1
  <2>3. CASE Goto(k, "dial") /\ UNCHANGED <<conn, lock>>
    <3>1. Simple(k, "dial", conn[k])
      BY <1>t, <1>u, <1>s, <2>1, <2>3 DEF Simple, Types
    <3> QED  BY <1>t, <3>1
  <2> QED  BY <1>1, <2>2, <2>3 DEF CheckLimit
<1>2. CASE DialFails(k)
  <2>1. Return(k) /\ pc[k] = "dial" /\ UNCHANGED <<lblChannel, connIndex>>
    BY <1>2 DEF DialFails, connVars
  <2>2. Simple(k, "idle", NoConn)
    BY <1>t, <1>u, <1>r, <2>1 DEF Simple, Types
  <2> QED  BY <1>t, <2>2
<1>3. CASE NoChannel0(k)
  <2>1. Goto(k, "panic") /\ pc[k] = "channel" /\ UNCHANGED <<conn, lblChannel, lock, connIndex>>
    BY <1>3 DEF NoChannel0, connVars
  <2>2. Simple(k, "panic", conn[k])
    BY <1>t, <1>u, <1>s, <2>1 DEF Simple, Types
  <2> QED  BY <1>t, <2>2
<1>4. CASE NewChannelDone(k)
  <2>1. /\ Return(k) /\ pc[k] = "channel" /\ UNCHANGED connIndex
        /\ lblChannel' = IF balanced THEN lblChannel \cup {conn[k]} ELSE lblChannel
    BY <1>4 DEF NewChannelDone
  <2>2. Simple(k, "idle", NoConn)
    BY <1>t, <1>u, <1>r, <2>1 DEF Simple, Types
  <2> QED  BY <1>t, <2>2
<1>5. CASE NewChannelFails(k) /\ ~(balanced /\ conn[k] \in Pool)
  <2>1. Return(k) /\ pc[k] = "channel" /\ UNCHANGED <<lblChannel, connIndex>>
    BY <1>5 DEF NewChannelFails, connVars
  <2>2. Simple(k, "idle", NoConn)
    BY <1>t, <1>u, <1>r, <1>5, <2>1 DEF Simple, Types
  <2> QED  BY <1>t, <2>2
<1>6. CASE GetFreeConnection(k)
  <2>1. ~balanced /\ pc[k] = "idle" /\ UNCHANGED <<lblChannel, lock, connIndex>>
    BY <1>6 DEF GetFreeConnection, connVars
  <2>2. CASE Free # {}
    <3> DEFINE i == CHOOSE j \in Free : \A l \in Free : j <= l
    <3>1. Goto(k, "channel") /\ conn' = [conn EXCEPT ![k] = array[i]]
      BY <1>6, <2>2 DEF GetFreeConnection
    <3>2. i \in 1 .. size
      <4>1. Free \in SUBSET (1 .. size) /\ size \in Nat
        BY <1>t DEF Free, SliceOK
      <4>2. \E j \in Free : \A l \in Free : j <= l
        BY <2>2, <4>1, SmallestOf
      <4>3. i \in Free
        BY <4>2
      <4> QED  BY <4>1, <4>3
    <3> HIDE DEF i
    <3>3. array[i] \in Pool /\ array[i] \in Cells
      BY <1>t, <3>2, PoolCells DEF Cells
    <3>4. Moves(k, "channel", array[i])
      BY <1>t, <3>1, <3>3, MoveOf DEF Goto
    <3>5. Simple(k, "channel", array[i])
      BY <1>t, <1>u, <2>1, <3>3, <3>4 DEF Simple, Types
    <3> QED  BY <3>3, <3>5
  <2>3. CASE Free = {}
    <3>1. Goto(k, "check") /\ UNCHANGED conn
      BY <1>6, <2>3 DEF GetFreeConnection
    <3>2. Simple(k, "check", conn[k])
      BY <1>t, <1>u, <1>s, <2>1, <3>1 DEF Simple, Types
    <3> QED  BY <1>t, <3>2
  <2> QED  BY <2>2, <2>3
<1>7. CASE GetTaskChannel(k)
  <2>1. /\ pc[k] = "idle" /\ UNCHANGED <<conn, lblChannel, connIndex>>
        /\ Goto(k, "check") \/ Goto(k, "pick")
    BY <1>7 DEF GetTaskChannel, connVars
  <2>2. lock' \in [Evals -> SUBSET Callers]
    BY <1>7, <1>t DEF GetTaskChannel, Types
  <2>3. Simple(k, "check", conn[k]) \/ Simple(k, "pick", conn[k])
    BY <1>t, <1>u, <1>s, <2>1, <2>2 DEF Simple, Types
  <2> QED  BY <1>t, <2>3
<1>8. CASE PickConnection(k)
  <2>1. /\ pc[k] = "pick" /\ UNCHANGED lblChannel
        /\ Return(k) \/ (Goto(k, "panic") /\ UNCHANGED <<conn, lock>>)
    BY <1>8 DEF PickConnection, connVars
  <2>2. connIndex' \in [Evals -> Int]
    <3>1. \A e \in Evals : NextIndex(e) \in Int
      BY <1>t DEF NextIndex, Types
    <3> QED  BY <1>8, <1>t, <3>1 DEF PickConnection, Types
  <2>3. Simple(k, "idle", NoConn) \/ Simple(k, "panic", conn[k])
    BY <1>t, <1>u, <1>r, <1>s, <2>1, <2>2 DEF Simple, Types
  <2> QED  BY <1>t, <2>3
<1> QED  BY <1>1, <1>2, <1>3, <1>4, <1>5, <1>6, <1>7, <1>8

\* The connection is dialled ...
LEMMA DialKeeps ==
  ASSUME PInv, NEW k \in Callers, NEW c \in Conns, Dial(k, c)
  PROVE  PInv'
<1>0. /\ SliceOK /\ Distinct /\ Types /\ Own /\ Listed /\ SetUp
      /\ pc[k] = "dial" /\ mark[c] = "none" /\ Goto(k, "append")
      /\ conn' = [conn EXCEPT ![k] = c] /\ mark' = [mark EXCEPT ![c] = "open"]
      /\ UNCHANGED <<balanced, heap, size, connCount, lblChannel, lock, connIndex, early>>
  BY DEF PInv, Dial, poolVars
<1>1. SliceOK' /\ Distinct' /\ UNCHANGED Pool
  BY <1>0 DEF SliceOK, Distinct, Pool, connections, array
<1>m. Moves(k, "append", c)
  BY <1>0, MoveOf DEF Goto, Steps, Cells
<1>2. /\ pc'[k] = "append" /\ conn'[k] = c
      /\ \A j \in Callers \ {k} : pc'[j] = pc[j] /\ conn'[j] = conn[j]
  BY <1>m DEF Moves
<1>3. /\ mark' \in [Conns -> Marks] /\ mark'[c] = "open"
      /\ \A d \in Conns \ {c} : mark'[d] = mark[d]
  BY <1>0 DEF Types, Marks
<1>4. Types'
  BY <1>0, <1>m, <1>3 DEF Types, Moves
<1>5. Own'
  <2>1. c \notin Pool
    BY <1>0 DEF Listed
  <2>2. \A j \in Callers : pc[j] \in {"append", "count", "channel", "close"} => conn[j] # c
    BY <1>0 DEF Own
  <2> QED  BY <1>0, <1>1, <1>2, <1>3, <2>1, <2>2 DEF Own
<1>6. Listed'
  <2>1. Between("append", c)'
    BY <1>2 DEF Between
  <2>2. \A d \in Conns : /\ Between("append", d) => Between("append", d)'
                         /\ Between("close", d) => Between("close", d)'
    BY <1>0, <1>2 DEF Between
  <2>3. Pool \subseteq Conns
    BY <1>0, PoolCells
  <2> QED  BY <1>0, <1>1, <1>3, <2>1, <2>2, <2>3 DEF Listed
<1>7. SetUp'
  BY <1>0, <1>1, <1>2 DEF SetUp
<1> QED  BY <1>1, <1>4, <1>5, <1>6, <1>7 DEF PInv

\* ... appended ...
LEMMA AppendKeeps ==
  ASSUME PInv, NEW k \in Callers, AppendConn(k)
  PROVE  PInv' /\ size' = size + 1
<1>0. /\ SliceOK /\ Distinct /\ Types /\ Own /\ Listed /\ SetUp
      /\ pc[k] = "append" /\ Goto(k, "count") /\ Appended(conn[k])
      /\ UNCHANGED <<balanced, connCount, mark, lblChannel, conn, lock, connIndex, early>>
  BY DEF PInv, AppendConn, connVars
<1>c. conn[k] \in Conns \ Pool
  BY <1>0 DEF Own
<1>1. SliceOK' /\ Distinct' /\ size' = size + 1 /\ Pool' = Pool \cup {conn[k]}
  BY <1>0, <1>c, AppendedPool
<1>2. /\ pc' \in [Callers -> Steps] /\ pc'[k] = "count"
      /\ \A j \in Callers \ {k} : pc'[j] = pc[j]
  BY <1>0 DEF Types, Goto, Steps
<1>4. Types'
  BY <1>0, <1>2 DEF Types
<1>5. Own'
  BY <1>0, <1>1, <1>2 DEF Own
<1>6. Listed'
  <2>1. \A d \in Conns \ {conn[k]} : Between("append", d) => Between("append", d)'
    BY <1>0, <1>2 DEF Between
  <2>2. \A d \in Conns : Between("close", d) => Between("close", d)'
    BY <1>0, <1>2 DEF Between
  <2>3. mark[conn[k]] # "none" /\ (mark[conn[k]] \in {"open", "marked"} \/ conn[k] \in early)
    BY <1>0 DEF Own
  <2> QED  BY <1>0, <1>1, <2>1, <2>2, <2>3 DEF Listed
<1>7. SetUp'
  BY <1>0, <1>1, <1>2 DEF SetUp
<1> QED  BY <1>1, <1>4, <1>5, <1>6, <1>7 DEF PInv

\* ... and counted.
LEMMA CountKeeps ==
  ASSUME PInv, NEW k \in Callers, CountConn(k)
  PROVE  PInv'
<1>0. /\ SliceOK /\ Distinct /\ Types /\ Own /\ Listed /\ SetUp
      /\ pc[k] = "count" /\ Goto(k, "channel") /\ connCount' = connCount + 1
      /\ UNCHANGED <<balanced, heap, size, mark, lblChannel, conn, lock, connIndex, early>>
  BY DEF PInv, CountConn, connVars
<1>1. SliceOK' /\ Distinct' /\ UNCHANGED Pool
  BY <1>0 DEF SliceOK, Distinct, Pool, connections, array
<1>2. /\ pc' \in [Callers -> Steps] /\ pc'[k] = "channel"
      /\ \A j \in Callers \ {k} : pc'[j] = pc[j]
  BY <1>0 DEF Types, Goto, Steps
<1>4. Types'
  BY <1>0, <1>2 DEF Types
<1>5. Own'
  BY <1>0, <1>1, <1>2 DEF Own
<1>6. Listed'
  <2>1. \A d \in Conns : /\ Between("append", d) => Between("append", d)'
                         /\ Between("close", d) => Between("close", d)'
    BY <1>0, <1>2 DEF Between
  <2> QED  BY <1>0, <1>1, <2>1 DEF Listed
<1>7. SetUp'
  BY <1>0, <1>1, <1>2 DEF SetUp
<1> QED  BY <1>1, <1>4, <1>5, <1>6, <1>7 DEF PInv

\* getTaskChannel takes out a connection it got no channel on ...
LEMMA FailsKeeps ==
  ASSUME PInv, NEW k \in Callers, NewChannelFails(k), balanced, conn[k] \in Pool
  PROVE  PInv' /\ size > 0 /\ size' = size - 1 /\ connCount' = connCount - 1
<1>0. /\ SliceOK /\ Distinct /\ Types /\ Own /\ Listed /\ SetUp
      /\ pc[k] = "channel" /\ Goto(k, "close") /\ Removed(conn[k])
      /\ UNCHANGED <<balanced, mark, lblChannel, conn, lock, connIndex, early>>
  BY DEF PInv, NewChannelFails, connVars
<1>1. /\ SliceOK' /\ Distinct' /\ Pool' = Pool \ {conn[k]}
      /\ size > 0 /\ size' = size - 1 /\ connCount' = connCount - 1
  BY <1>0, RemovedPool
<1>2. /\ pc' \in [Callers -> Steps] /\ pc'[k] = "close"
      /\ \A j \in Callers \ {k} : pc'[j] = pc[j]
  BY <1>0 DEF Types, Goto, Steps
<1>4. Types'
  BY <1>0, <1>1, <1>2 DEF Types
<1>5. Own'
  BY <1>0, <1>1, <1>2 DEF Own
<1>6. Listed'
  <2>1. \A d \in Conns : /\ Between("append", d) => Between("append", d)'
                         /\ Between("close", d) => Between("close", d)'
    BY <1>0, <1>2 DEF Between
  <2>2. Between("close", conn[k])'
    BY <1>0, <1>2 DEF Between
  <2> QED  BY <1>0, <1>1, <2>1, <2>2 DEF Listed
<1>7. SetUp'
  BY <1>0, <1>1, <1>2 DEF SetUp
<1> QED  BY <1>1, <1>4, <1>5, <1>6, <1>7 DEF PInv

\* ... and closes it.
LEMMA CloseRemovedKeeps ==
  ASSUME PInv, NEW k \in Callers, CloseRemoved(k)
  PROVE  PInv'
<1>0. /\ SliceOK /\ Distinct /\ Types /\ Own /\ Listed /\ SetUp
      /\ pc[k] = "close" /\ Return(k)
      /\ mark' = [mark EXCEPT ![conn[k]] = IF @ = "open" THEN "marked" ELSE @]
      /\ UNCHANGED <<balanced, heap, size, connCount, lblChannel, connIndex, early>>
  BY DEF PInv, CloseRemoved, poolVars
<1>1. SliceOK' /\ Distinct' /\ UNCHANGED Pool
  BY <1>0 DEF SliceOK, Distinct, Pool, connections, array
<1>m. Moves(k, "idle", NoConn) /\ lock' \in [Evals -> SUBSET Callers]
  BY <1>0, MoveOf DEF Return, Goto, Steps, Cells, Types
<1>2. /\ pc'[k] = "idle"
      /\ \A j \in Callers \ {k} : pc'[j] = pc[j] /\ conn'[j] = conn[j]
  BY <1>m DEF Moves
<1>c. conn[k] \in Conns
  BY <1>0 DEF Own
<1>3. /\ mark' \in [Conns -> Marks] /\ mark'[conn[k]] # "open"
      /\ \A d \in Conns : mark'[d] = mark[d] \/ (mark[d] = "open" /\ mark'[d] = "marked")
  BY <1>0, <1>c DEF Types, Marks
<1>4. Types'
  BY <1>0, <1>m, <1>3 DEF Types, Moves
<1>5. Own'
  BY <1>0, <1>1, <1>2, <1>3 DEF Own
<1>6. Listed'
  <2>1. \A d \in Conns \ {conn[k]} : /\ Between("append", d) => Between("append", d)'
                                     /\ Between("close", d) => Between("close", d)'
    BY <1>0, <1>2 DEF Between
  <2>3. Pool \subseteq Conns
    BY <1>0, PoolCells
  <2> QED  BY <1>0, <1>1, <1>3, <2>1, <2>3 DEF Listed
<1>7. SetUp'
  BY <1>0, <1>1, <1>2 DEF SetUp
<1> QED  BY <1>1, <1>4, <1>5, <1>6, <1>7 DEF PInv
-----------------------------------------------------------------------------
(* The locks and the limits.                                               *)

\* From which step a caller goes to which, on what condition and with what
\* effect on the two counts.
Shape(k, at) ==
  /\ pc' = [pc EXCEPT ![k] = at] /\ UNCHANGED balanced
  /\ \/ /\ UNCHANGED <<size, connCount>>
        /\ \/ pc[k] = "check" /\ at = "idle"
           \/ pc[k] = "check" /\ at = "dial" /\ size < MaxConnections
           \/ pc[k] = "dial" /\ at \in {"idle", "append"}
           \/ pc[k] = "channel" /\ at \in {"idle", "panic"}
           \/ pc[k] = "close" /\ at = "idle"
           \/ pc[k] = "pick" /\ at \in {"idle", "panic"}
           \/ pc[k] = "idle" /\ at \in {"channel", "check"} /\ ~balanced
           \/ pc[k] = "idle" /\ at = "check" /\ balanced /\ connCount < ServerKeepConns
           \/ pc[k] = "idle" /\ at = "pick" /\ balanced
     \/ pc[k] = "append" /\ at = "count" /\ size' = size + 1 /\ UNCHANGED connCount
     \/ pc[k] = "count" /\ at = "channel" /\ connCount' = connCount + 1 /\ UNCHANGED size
     \/ pc[k] = "channel" /\ at = "close" /\ size' = size - 1 /\ connCount' = connCount - 1

\* What happens to getChannelLock meanwhile.
Locking(k, at) ==
  \/ at = "idle" /\ lock' = [e \in Evals |-> lock[e] \ {k}]
  \/ at # "idle" /\ pc[k] # "idle" /\ UNCHANGED lock
  \/ pc[k] = "idle" /\ ~balanced /\ UNCHANGED lock
  \/ pc[k] = "idle" /\ balanced /\ \E e \in Evals : lock[e] = {} /\ lock' = [lock EXCEPT ![e] = {k}]

\* All steps of callers keep it and have such a shape.
LEMMA CallerSteps ==
  ASSUME PInv, MaxConnections \in Nat, NEW k \in Callers,
         \/ GetFreeConnection(k) \/ GetTaskChannel(k) \/ PickConnection(k)
         \/ NewConnection(k) \/ NewChannel(k)
  PROVE  PInv' /\ \E at \in Steps : Shape(k, at) /\ Locking(k, at)
<1>s. ASSUME \/ CheckLimit(k) \/ DialFails(k) \/ NoChannel0(k) \/ NewChannelDone(k)
             \/ NewChannelFails(k) /\ ~(balanced /\ conn[k] \in Pool)
             \/ GetFreeConnection(k) \/ GetTaskChannel(k) \/ PickConnection(k)
      PROVE  PInv'
  BY <1>s, SimpleSteps, SimpleKeeps
<1>z. size \in Nat
  BY DEF PInv, SliceOK
<1> USE DEF Steps, Goto, Return, poolVars
<1>1. CASE GetFreeConnection(k)
  <2>1. PInv'
    BY <1>1, <1>s
  <2>2. \/ Shape(k, "channel") /\ Locking(k, "channel")
        \/ Shape(k, "check") /\ Locking(k, "check")
    BY <1>1 DEF GetFreeConnection, Shape, Locking
  <2> QED  BY <2>1, <2>2
<1>2. CASE GetTaskChannel(k)
  <2>1. PInv'
    BY <1>2, <1>s
  <2>2. \/ Shape(k, "check") /\ Locking(k, "check")
        \/ Shape(k, "pick") /\ Locking(k, "pick")
    BY <1>2 DEF GetTaskChannel, Shape, Locking
  <2> QED  BY <2>1, <2>2
<1>3. CASE PickConnection(k)
  <2>1. PInv'
    BY <1>3, <1>s
  <2>2. \/ Shape(k, "idle") /\ Locking(k, "idle")
        \/ Shape(k, "panic") /\ Locking(k, "panic")
    <3>1. /\ pc[k] = "pick" /\ UNCHANGED <<balanced, size, connCount>>
          /\ Return(k) \/ (Goto(k, "panic") /\ UNCHANGED lock)
      BY <1>3 DEF PickConnection
    <3> QED  BY <3>1 DEF Shape, Locking
  <2> QED  BY <2>1, <2>2
<1>4. CASE CheckLimit(k)
  <2>1. PInv'
    BY <1>4, <1>s
  <2>2. \/ Shape(k, "idle") /\ Locking(k, "idle")
        \/ Shape(k, "dial") /\ Locking(k, "dial")
    <3>1. /\ pc[k] = "check" /\ UNCHANGED <<balanced, size, connCount>>
          /\ Return(k) \/ (size < MaxConnections /\ Goto(k, "dial") /\ UNCHANGED lock)
      BY <1>z, <1>4 DEF CheckLimit
    <3> QED  BY <3>1 DEF Shape, Locking
  <2> QED  BY <2>1, <2>2
<1>5. CASE DialFails(k)
  <2>1. PInv'
    BY <1>5, <1>s
  <2>2. Shape(k, "idle") /\ Locking(k, "idle")
    BY <1>5 DEF DialFails, Shape, Locking
  <2> QED  BY <2>1, <2>2
<1>6. ASSUME NEW c \in Conns, Dial(k, c)
      PROVE  PInv' /\ Shape(k, "append") /\ Locking(k, "append")
  <2>1. PInv'
    BY <1>6, DialKeeps
  <2>2. Shape(k, "append") /\ Locking(k, "append")
    BY <1>6 DEF Dial, Shape, Locking
  <2> QED  BY <2>1, <2>2
<1>7. CASE AppendConn(k)
  <2>1. PInv' /\ size' = size + 1
    BY <1>7, AppendKeeps
  <2>2. Shape(k, "count") /\ Locking(k, "count")
    BY <1>7, <2>1 DEF AppendConn, Shape, Locking
  <2> QED  BY <2>1, <2>2
<1>8. CASE CountConn(k)
  <2>1. PInv'
    BY <1>8, CountKeeps
  <2>2. Shape(k, "channel") /\ Locking(k, "channel")
    BY <1>8 DEF CountConn, Shape, Locking
  <2> QED  BY <2>1, <2>2
<1>9. CASE NoChannel0(k)
  <2>1. PInv'
    BY <1>9, <1>s
  <2>2. Shape(k, "panic") /\ Locking(k, "panic")
    BY <1>9 DEF NoChannel0, Shape, Locking
  <2> QED  BY <2>1, <2>2
<1>10. CASE NewChannelDone(k)
  <2>1. PInv'
    BY <1>10, <1>s
  <2>2. Shape(k, "idle") /\ Locking(k, "idle")
    BY <1>10 DEF NewChannelDone, Shape, Locking
  <2> QED  BY <2>1, <2>2
<1>11. CASE NewChannelFails(k) /\ ~(balanced /\ conn[k] \in Pool)
  <2>1. PInv'
    BY <1>11, <1>s
  <2>2. Shape(k, "idle") /\ Locking(k, "idle")
    BY <1>11 DEF NewChannelFails, Shape, Locking
  <2> QED  BY <2>1, <2>2
<1>12. CASE NewChannelFails(k) /\ balanced /\ conn[k] \in Pool
  <2>1. PInv' /\ size' = size - 1 /\ connCount' = connCount - 1
    BY <1>12, FailsKeeps
  <2>2. pc[k] = "channel" /\ Goto(k, "close") /\ UNCHANGED <<balanced, lock>>
    BY <1>12 DEF NewChannelFails
  <2>3. Shape(k, "close") /\ Locking(k, "close")
    BY <2>1, <2>2 DEF Shape, Locking
  <2> QED  BY <2>1, <2>3
<1>13. CASE CloseRemoved(k)
  <2>1. PInv'
    BY <1>13, CloseRemovedKeeps
  <2>2. Shape(k, "idle") /\ Locking(k, "idle")
    BY <1>13 DEF CloseRemoved, Shape, Locking
  <2> QED  BY <2>1, <2>2
<1> QED  BY <1>1, <1>2, <1>3, <1>4, <1>5, <1>6, <1>7, <1>8, <1>9, <1>10, <1>11, <1>12,
            <1>13 DEF NewConnection, NewChannel

\* The locks are kept.
LEMMA LocksKept ==
  ASSUME Types, Locks, NEW k \in Callers, NEW at \in Steps, Shape(k, at), Locking(k, at)
  PROVE  Locks'
<1>1. /\ pc'[k] = at /\ UNCHANGED balanced /\ lock \in [Evals -> SUBSET Callers]
      /\ \A j \in Callers \ {k} : pc'[j] = pc[j]
  BY DEF Shape, Types
<1>2. at = "pick" => balanced
  BY DEF Shape
<1>3. CASE at = "idle" /\ lock' = [e \in Evals |-> lock[e] \ {k}]
  <2>1. \A e \in Evals : lock'[e] = lock[e] \ {k}
    BY <1>3
  <2> QED  BY <1>1, <1>2, <1>3, <2>1 DEF Locks
<1>4. CASE at # "idle" /\ pc[k] # "idle" /\ UNCHANGED lock
  BY <1>1, <1>2, <1>4 DEF Locks
<1>5. CASE pc[k] = "idle" /\ ~balanced /\ UNCHANGED lock
  BY <1>1, <1>2, <1>5 DEF Locks
<1>6. ASSUME pc[k] = "idle", balanced, NEW e \in Evals, lock[e] = {},
             lock' = [lock EXCEPT ![e] = {k}]
      PROVE  Locks'
  <2>1. lock'[e] = {k} /\ \A f \in Evals \ {e} : lock'[f] = lock[f]
    BY <1>1, <1>6
  <2>2. \A f \in Evals : lock[f] \subseteq lock'[f]
    BY <1>6, <2>1
  <2> QED  BY <1>1, <1>2, <1>6, <2>1, <2>2 DEF Locks
<1> QED  BY <1>3, <1>4, <1>5, <1>6 DEF Locking

\* A caller that moves enters or leaves the sets of callers at some steps.
LEMMA Moved ==
  ASSUME Types, IsFiniteSet(Callers), NEW k \in Callers, NEW at, NEW X,
         pc' = [pc EXCEPT ![k] = at]
  PROVE  /\ IsFiniteSet(At(X)) /\ Cardinality(At(X)) \in Nat /\ Cardinality(At(X)') \in Nat
         /\ pc[k] \in X /\ at \in X => Cardinality(At(X)') = Cardinality(At(X))
         /\ pc[k] \in X /\ at \notin X => Cardinality(At(X)') = Cardinality(At(X)) - 1
         /\ pc[k] \notin X /\ at \in X => Cardinality(At(X)') = Cardinality(At(X)) + 1
         /\ pc[k] \notin X /\ at \notin X => Cardinality(At(X)') = Cardinality(At(X))
<1> DEFINE S == At(X)
           T == At(X)'
<1>1. /\ pc[k] \in X /\ at \in X => T = S
      /\ pc[k] \in X /\ at \notin X => T = S \ {k} /\ k \in S
      /\ pc[k] \notin X /\ at \in X => T = S \cup {k} /\ k \notin S
      /\ pc[k] \notin X /\ at \notin X => T = S
  BY DEF At, Types
<1>2. S \in SUBSET Callers /\ T \in SUBSET Callers
  BY DEF At
<1> HIDE DEF S, T
<1>3. /\ IsFiniteSet(S) /\ Cardinality(S) \in Nat
      /\ IsFiniteSet(T) /\ Cardinality(T) \in Nat
  BY <1>2, FS_Subset, FS_CardinalityType
<1>4. k \in S => Cardinality(S \ {k}) = Cardinality(S) - 1
  BY <1>3, FS_RemoveElement
<1>5. k \notin S => Cardinality(S \cup {k}) = Cardinality(S) + 1
  BY <1>3, FS_AddElement
<1>6. /\ pc[k] \in X /\ at \in X => Cardinality(T) = Cardinality(S)
      /\ pc[k] \in X /\ at \notin X => Cardinality(T) = Cardinality(S) - 1
      /\ pc[k] \notin X /\ at \in X => Cardinality(T) = Cardinality(S) + 1
      /\ pc[k] \notin X /\ at \notin X => Cardinality(T) = Cardinality(S)
  BY <1>1, <1>4, <1>5
<1> QED  BY <1>3, <1>6 DEF S, T

\* A connection is counted once, before or after.
LEMMA CountKept ==
  ASSUME Types, SliceOK, IsFiniteSet(Callers), CountMatches,
         NEW k \in Callers, NEW at \in Steps, Shape(k, at)
  PROVE  CountMatches'
<1> DEFINE n == Cardinality(At({"count"}))
<1>1. {j \in Callers : pc[j] = "count"} = At({"count"})
  BY DEF At
<1>2. {j \in Callers : pc'[j] = "count"} = At({"count"})'
  BY DEF At
<1>3. size = connCount + n
  BY <1>1 DEF CountMatches
<1>4. /\ n \in Nat /\ n' \in Nat
      /\ pc[k] = "count" /\ at # "count" => n' = n - 1
      /\ pc[k] # "count" /\ at = "count" => n' = n + 1
      /\ pc[k] # "count" /\ at # "count" => n' = n
  BY Moved DEF Shape
<1>5. size \in Nat /\ connCount \in Int
  BY DEF SliceOK, Types
<1> HIDE DEF n
<1>6. size' = connCount' + n'
  BY <1>3, <1>4, <1>5 DEF Shape
<1> QED  BY <1>2, <1>6 DEF n, CountMatches

\* Callers that hold different locks are not more than the locks.
LEMMA OneEach ==
  ASSUME NEW L, NEW A, IsFiniteSet(Evals),
         \A k \in A : \E e \in Evals : k \in L[e],
         \A e \in Evals : \A j, k \in L[e] : j = k
  PROVE  IsFiniteSet(A) /\ Cardinality(A) <= Cardinality(Evals)
<1> DEFINE f == [k \in A |-> CHOOSE e \in Evals : k \in L[e]]
<1>1. \A k \in A : f[k] \in Evals /\ k \in L[f[k]]
  OBVIOUS
<1>2. f \in [A -> Evals]
  BY <1>1
<1> HIDE DEF f
<1>3. f \in Injection(A, Evals)
  BY <1>1, <1>2 DEF Injection, IsInjective
<1> QED  BY <1>3, FS_Injection

\* The callers at some steps, after a step: not more than there are, and,
\* when each must hold a lock, than there are locks.
LEMMA Bounded ==
  ASSUME IsFiniteSet(Callers), IsFiniteSet(Evals), Locks', NEW X, "idle" \notin X
  PROVE  /\ IsFiniteSet(At(X)') /\ Cardinality(At(X)') \in Nat
         /\ Cardinality(At(X)') <= Cardinality(Callers)
         /\ balanced' => Cardinality(At(X)') <= Cardinality(Evals)
<1> DEFINE T == At(X)'
           L == lock'
<1>1. T \in SUBSET Callers
  BY DEF At
<1>2. balanced' => /\ \A k \in T : \E e \in Evals : k \in L[e]
                   /\ \A e \in Evals : \A j, k \in L[e] : j = k
  BY DEF At, Locks
<1> HIDE DEF T, L
<1>3. IsFiniteSet(T) /\ Cardinality(T) \in Nat /\ Cardinality(T) <= Cardinality(Callers)
  BY <1>1, FS_Subset, FS_CardinalityType
<1>4. balanced' => Cardinality(T) <= Cardinality(Evals)
  BY <1>2, OneEach
<1> QED  BY <1>3, <1>4 DEF T

\* The limits are kept: when a caller passes a check, the others that have
\* passed it before are fewer than callers, or than locks.
LEMMA RoomKept ==
  ASSUME Types, SliceOK, CountMatches, CountMatches', Room, Locks',
         NEW k \in Callers, NEW at \in Steps, Shape(k, at)
  PROVE  Room'
<1> DEFINE X == {"dial", "append"}
           Y == {"check", "dial", "append"}
           n == Cardinality(At(X))
           g == Cardinality(At(Y))
           m == Cardinality(At({"count"}))
           C == Cardinality(Callers)
           E == Cardinality(Evals)
<1>a. /\ IsFiniteSet(Callers) /\ IsFiniteSet(Evals)
      /\ MaxConnections \in Nat /\ ServerKeepConns \in Nat
  BY ConnPoolAssumption
<1>t. size \in Nat /\ connCount \in Int /\ balanced' = balanced /\ balanced \in BOOLEAN
  BY DEF SliceOK, Types, Shape
<1>c. C \in Nat /\ E \in Nat
  BY <1>a, FS_CardinalityType
<1>1. n' \in Nat /\ n' <= C /\ (balanced => n' <= E)
  BY <1>a, <1>t, Bounded
<1>2. g' \in Nat /\ m' \in Nat /\ (balanced => g' + m' <= E)
  <2> DEFINE G == At(Y)'
             M == At({"count"})'
  <2>1. /\ IsFiniteSet(G) /\ Cardinality(G) \in Nat /\ IsFiniteSet(M) /\ Cardinality(M) \in Nat
    BY <1>a, Bounded
  <2>2. G \cup M = At(Y \cup {"count"})' /\ G \cap M = {}
    BY DEF At
  <2>3. balanced => Cardinality(G \cup M) <= E
    BY <1>a, <1>t, <2>2, Bounded
  <2> HIDE DEF G, M
  <2>4. Cardinality(G \cup M) = Cardinality(G) + Cardinality(M)
    <3>1. Cardinality(G \cap M) = 0
      BY <2>2, FS_EmptySet
    <3>2. Cardinality(G \cup M) = Cardinality(G) + Cardinality(M) - Cardinality(G \cap M)
      BY <2>1, FS_Union
    <3> QED  BY <2>1, <3>1, <3>2
  <2> QED  BY <2>1, <2>3, <2>4 DEF G, M
<1>3. /\ n \in Nat
      /\ pc[k] \in X /\ at \in X => n' = n
      /\ pc[k] \in X /\ at \notin X => n' = n - 1
      /\ pc[k] \notin X /\ at \notin X => n' = n
  BY <1>a, Moved DEF Shape
<1>4. /\ g \in Nat
      /\ pc[k] \in Y /\ at \in Y => g' = g
      /\ pc[k] \in Y /\ at \notin Y => g' = g - 1
      /\ pc[k] \notin Y /\ at \notin Y => g' = g
  BY <1>a, Moved DEF Shape
<1>5. size' = connCount' + m'
  <2>1. {j \in Callers : pc'[j] = "count"} = At({"count"})'
    BY DEF At
  <2> QED  BY <2>1 DEF CountMatches
<1>6. /\ size + n <= MaxConnections + C - 1
      /\ balanced => size + n <= MaxConnections + E - 1
      /\ balanced => size + g <= ServerKeepConns + E - 1
  BY DEF Room
<1> HIDE DEF n, g, m, C, E
<1> USE <1>a, <1>t, <1>c
<1>7. /\ size' + n' <= MaxConnections + C - 1
      /\ balanced => size' + n' <= MaxConnections + E - 1
  BY <1>1, <1>3, <1>6 DEF Shape
<1>8. balanced => size' + g' <= ServerKeepConns + E - 1
  <2>1. CASE pc[k] \notin Y /\ at \in Y /\ balanced
    <3>1. connCount' < ServerKeepConns /\ connCount' \in Int
      BY <2>1 DEF Shape
    <3>2. g' \in Nat /\ m' \in Nat /\ g' + m' <= E
      BY <1>2, <2>1
    <3>3. \A x, y, z \in Int : (x < ServerKeepConns /\ z + y <= E) =>
                                 (x + y) + z <= ServerKeepConns + E - 1
      OBVIOUS
    <3>4. g' \in Int /\ m' \in Int
      BY <3>2
    <3>5. (connCount' + m') + g' <= ServerKeepConns + E - 1
      BY <3>1, <3>2, <3>3, <3>4, Zenon
    <3> QED  BY <1>5, <3>5
  <2>2. CASE pc[k] \in Y \/ at \notin Y
    BY <1>2, <1>4, <1>6, <2>2 DEF Shape
  <2> QED  BY <2>1, <2>2
<1> QED  BY <1>7, <1>8 DEF Room, n, g, C, E

\* Every step keeps IInv.
LEMMA InvariantStep == IInv /\ [Next]_vars => IInv'
<1> SUFFICES ASSUME IInv, [Next]_vars PROVE IInv'
  OBVIOUS
<1>0. PInv /\ Locks /\ CountMatches /\ Room /\ Types /\ SliceOK /\ Distinct
  BY DEF IInv, PInv
<1>a. IsFiniteSet(Callers) /\ MaxConnections \in Nat
  BY ConnPoolAssumption
<1>1. CASE \/ \E c \in Conns : Fail(c) \/ CloseChannels(c) \/ ChannelClose(c)
           \/ Close \/ CloseNext \/ CloseReturns \/ CloseDone \/ UNCHANGED vars
  BY <1>0, <1>1, QuietSteps, QuietKeeps
<1>2. ASSUME NEW c \in Conns, CloseRemove(c) PROVE IInv'
  <2>1. PInv'
    BY <1>0, <1>2, CloseRemoveKeeps
  <2>2. /\ UNCHANGED <<balanced, pc, lock>>
        /\ \/ size > 0 /\ size' = size - 1 /\ connCount' = connCount - 1
           \/ UNCHANGED <<size, connCount>>
    BY <1>0, <1>2, RemovedEffect DEF CloseRemove, callVars
  <2>3. Locks'
    BY <1>0, <2>2 DEF Locks
  <2>4. CountMatches' /\ Room'
    <3> DEFINE n == Cardinality(At({"dial", "append"}))
               g == Cardinality(At({"check", "dial", "append"}))
               m == Cardinality({k \in Callers : pc[k] = "count"})
    <3>1. n' = n /\ g' = g /\ m' = m
      BY <2>2 DEF At
    <3>2. n \in Nat /\ g \in Nat /\ m \in Nat
      BY <1>a, FS_Subset, FS_CardinalityType DEF At
    <3>3. /\ Cardinality(Callers) \in Nat /\ Cardinality(Evals) \in Nat
          /\ MaxConnections \in Nat /\ ServerKeepConns \in Nat
      BY ConnPoolAssumption, FS_CardinalityType
    <3>4. size \in Nat /\ connCount \in Int
      BY <1>0 DEF Types, SliceOK
    <3> HIDE DEF n, g, m
    <3>5. CountMatches'
      BY <1>0, <2>2, <3>1, <3>2, <3>4 DEF CountMatches, m
    <3>6. Room'
      BY <1>0, <2>2, <3>1, <3>2, <3>3, <3>4 DEF Room, n, g
    <3> QED  BY <3>5, <3>6
  <2> QED  BY <2>1, <2>3, <2>4 DEF PInv, IInv
<1>3. ASSUME NEW k \in Callers,
             \/ GetFreeConnection(k) \/ GetTaskChannel(k) \/ PickConnection(k)
             \/ NewConnection(k) \/ NewChannel(k)
      PROVE  IInv'
  <2>1. PInv'
    BY <1>0, <1>a, <1>3, CallerSteps
  <2>2. PICK at \in Steps : Shape(k, at) /\ Locking(k, at)
    BY <1>0, <1>a, <1>3, CallerSteps
  <2>3. Locks'
    BY <1>0, <2>2, LocksKept
  <2>4. CountMatches'
    BY <1>0, <1>a, <2>2, CountKept
  <2>5. Room'
    BY <1>0, <2>2, <2>3, <2>4, RoomKept
  <2> QED  BY <2>1, <2>3, <2>4, <2>5 DEF PInv, IInv
<1> QED  BY <1>1, <1>2, <1>3 DEF Next
-----------------------------------------------------------------------------
(* The theorems.                                                           *)

\* The invariant holds in every state.
THEOREM Invariance == Spec => []IInv
<1>1. Init => IInv
  <2> SUFFICES ASSUME Init PROVE IInv
    OBVIOUS
  <2> USE DEF Init
  <2>1. heap \in Seq(Seq(Cells)) /\ Len(heap) = 1 /\ array = <<>> /\ size = 0
    BY DEF array
  <2>2. SliceOK /\ Distinct
    BY <2>1 DEF SliceOK, Distinct
  <2>3. Pool = {}
    BY <2>1 DEF Pool
  <2>4. Types
    BY DEF Types, Marks, Steps, Cells
  <2>5. Own /\ Listed /\ Locks /\ SetUp
    BY <2>3 DEF Own, Listed, Locks, SetUp
  <2>6. CountMatches
    <3>1. {k \in Callers : pc[k] = "count"} = {}
      OBVIOUS
    <3>2. Cardinality({k \in Callers : pc[k] = "count"}) = 0
      BY <3>1, FS_EmptySet, Zenon
    <3> QED  BY <3>2 DEF CountMatches
  <2>7. Room
    <3>1. At({"dial", "append"}) = {} /\ At({"check", "dial", "append"}) = {}
      BY DEF At
    <3>2. /\ Cardinality(Callers) \in Nat \ {0} /\ Cardinality(Evals) \in Nat \ {0}
          /\ MaxConnections \in Nat \ {0} /\ ServerKeepConns \in Nat \ {0}
      BY ConnPoolAssumption, FS_CardinalityType, FS_EmptySet
    <3>3. /\ Cardinality(At({"dial", "append"})) = 0
          /\ Cardinality(At({"check", "dial", "append"})) = 0
      BY <3>1, FS_EmptySet
    <3> QED  BY <3>2, <3>3 DEF Room
  <2> QED  BY <2>2, <2>4, <2>5, <2>6, <2>7 DEF IInv
<1> QED  BY <1>1, InvariantStep, PTL DEF Spec

\* However connections fail while they are being added, the pool is what it
\* should be: PoolExact.
THEOREM PoolIsExact == Spec => []PoolExact
<1>1. IInv => PoolExact
  <2> SUFFICES ASSUME IInv PROVE PoolExact
    OBVIOUS
  <2>1. \A i, j \in 1 .. size : connections[i] = connections[j] => i = j
    BY PoolCells DEF IInv, Distinct
  <2> QED  BY <2>1 DEF IInv, Listed, PoolExact
<1> QED  BY <1>1, Invariance, PTL

\* connCount does not drift from the length of connections.
THEOREM CountIsExact == Spec => []CountMatches
<1>1. IInv => CountMatches
  BY DEF IInv
<1> QED  BY <1>1, Invariance, PTL

\* How far WithinMaximum can be missed.  NewChannel exceeds MaxConnections by
\* at most one connection for each other caller; getTaskChannel, where
\* getChannelLock lets one caller of an EvaluatedClient through, exceeds it, and
\* serverKeepConns, by at most one for each other EvaluatedClient of the Client:
\* by none if the weight of the server is 1.
LimitsKept ==
  IF balanced
  THEN /\ size <= MaxConnections + Cardinality(Evals) - 1
       /\ size <= ServerKeepConns + Cardinality(Evals) - 1
  ELSE size <= MaxConnections + Cardinality(Callers) - 1

\* The limits are exceeded by at most what LimitsKept says, for any number of
\* callers and EvaluatedClients.
THEOREM LimitsHold == Spec => []LimitsKept
<1>1. IInv => LimitsKept
  <2> SUFFICES ASSUME IInv PROVE LimitsKept
    OBVIOUS
  <2> DEFINE n == Cardinality(At({"dial", "append"}))
             g == Cardinality(At({"check", "dial", "append"}))
  <2>1. n \in Nat /\ g \in Nat
    BY ConnPoolAssumption, FS_Subset, FS_CardinalityType DEF At
  <2>2. /\ Cardinality(Callers) \in Nat /\ Cardinality(Evals) \in Nat
        /\ MaxConnections \in Nat /\ ServerKeepConns \in Nat /\ size \in Nat
    BY ConnPoolAssumption, FS_CardinalityType DEF IInv, SliceOK
  <2>3. /\ size + n <= MaxConnections + Cardinality(Callers) - 1
        /\ balanced => size + n <= MaxConnections + Cardinality(Evals) - 1
        /\ balanced => size + g <= ServerKeepConns + Cardinality(Evals) - 1
    BY DEF IInv, Room
  <2> HIDE DEF n, g
  <2> QED  BY <2>1, <2>2, <2>3 DEF LimitsKept
<1> QED  BY <1>1, Invariance, PTL

\* getTaskChannel's index is in range, and what it finds there without a
\* channel is being set up through another EvaluatedClient.
THEOREM PickIsSafe == Spec => []PickFindsChannel
<1>1. IInv => PickFindsChannel
  <2> SUFFICES ASSUME IInv, NEW k \in Callers, NEW e \in Evals, pc[k] = "pick", k \in lock[e]
               PROVE  /\ size > 0 => NextIndex(e) < size
                      /\ \A c \in Pool \ lblChannel : \E l \in Callers \ lock[e] :
                           pc[l] \in {"count", "channel", "panic"} /\ conn[l] = c
    BY DEF PickFindsChannel
  <2>1. size > 0 => NextIndex(e) < size
    <3> DEFINE m == Cardinality({j \in Callers : pc[j] = "count"})
    <3>1. m \in Nat
      BY ConnPoolAssumption, FS_Subset, FS_CardinalityType
    <3>2. size = connCount + m
      BY DEF IInv, CountMatches
    <3>3. size \in Nat /\ connCount \in Int /\ connIndex[e] \in Int
      BY DEF IInv, Types, SliceOK
    <3> HIDE DEF m
    <3> QED  BY <3>1, <3>2, <3>3 DEF NextIndex
  <2>2. balanced /\ \A j \in lock[e] : j = k
    BY DEF IInv, Locks
  <2>3. \A c \in Pool \ lblChannel : \E l \in Callers \ lock[e] :
          pc[l] \in {"count", "channel", "panic"} /\ conn[l] = c
    BY <2>2 DEF IInv, SetUp
  <2> QED  BY <2>1, <2>3
<1> QED  BY <1>1, Invariance, PTL
-----------------------------------------------------------------------------
(* Client.Close: how many connections its range can pass over.             *)

\* The next cell the range looks at: the cell it is at, or the one behind it
\* while the connection in that cell is being closed.
Reached == IF closer.at = "closing" THEN closer.i + 1 ELSE closer.i

\* The connections the range is still to find.  While the array it ranges
\* over is the one in use, the cells behind size hold nothing new.
Ahead == {heap[1][j] : j \in {n \in Reached .. closer.size : Len(heap) = 1 => n <= size}}

\* The connections it will leave, or has left, open.
Behind == {c \in opened \cap Pool : mark[c] = "open"} \ (IF Ranging THEN Ahead ELSE {})

CloserOK ==
  /\ DOMAIN closer = {"at", "size", "i", "v"}
  /\ closer.at \in {"idle", "range", "closing", "done"}
  /\ closer.size \in Nat /\ closer.i \in Nat \ {0}
  /\ closer.at \in {"idle", "done"} => closer.i = 1

\* What was in the pool had been dialled and appended.
OpenedOK ==
  /\ IsFiniteSet(opened)
  /\ \A c \in opened : c \in Conns /\ mark[c] # "none"
  /\ \A k \in Callers : pc[k] = "append" => conn[k] \notin opened

\* A second array is kept only for the range.
OneArray == ~Ranging => Len(heap) = 1

\* The connections that were in the pool come before those added since.
OldFirst ==
  \A l \in 1 .. size : array[l] \in opened => \A j \in 1 .. l : array[j] \in opened

\* Every connection passed over is paid for by one that left the pool.
PaidFor == Cardinality(Behind) <= Cardinality(opened \ Pool)

Sweep == CloserOK /\ OpenedOK /\ OneArray /\ OldFirst /\ PaidFor

\* One set grows by no more than another: not at all ...
LEMMA GrowsLess ==
  ASSUME NEW S, IsFiniteSet(S), NEW B \in SUBSET S, NEW C \in SUBSET S,
         NEW L \in SUBSET S, NEW M \in SUBSET S,
         Cardinality(B) <= Cardinality(L), L \subseteq M, C \subseteq B
  PROVE  Cardinality(C) <= Cardinality(M)
<1>1. /\ IsFiniteSet(B) /\ IsFiniteSet(M)
      /\ Cardinality(B) \in Nat /\ Cardinality(C) \in Nat
      /\ Cardinality(L) \in Nat /\ Cardinality(M) \in Nat
  BY FS_Subset, FS_CardinalityType
<1>2. Cardinality(L) <= Cardinality(M) /\ Cardinality(C) <= Cardinality(B)
  BY <1>1, FS_Subset
<1> QED  BY <1>1, <1>2

\* ... or by one element, when the other grows, too.
LEMMA GrowsByOne ==
  ASSUME NEW S, IsFiniteSet(S), NEW B \in SUBSET S, NEW C \in SUBSET S,
         NEW L \in SUBSET S, NEW M \in SUBSET S, NEW d,
         Cardinality(B) <= Cardinality(L), L \subseteq M, M # L, C \subseteq B \cup {d}
  PROVE  Cardinality(C) <= Cardinality(M)
<1>1. /\ IsFiniteSet(B) /\ IsFiniteSet(C) /\ IsFiniteSet(L) /\ IsFiniteSet(M)
      /\ Cardinality(B) \in Nat /\ Cardinality(C) \in Nat
      /\ Cardinality(L) \in Nat /\ Cardinality(M) \in Nat
  BY FS_Subset, FS_CardinalityType
<1>2. Cardinality(L) <= Cardinality(M) /\ Cardinality(M) # Cardinality(L)
  BY <1>1, FS_Subset
<1>3. IsFiniteSet(B \cup {d})
  BY <1>1, FS_AddElement
<1>4. Cardinality(B \cup {d}) = IF d \in B THEN Cardinality(B) ELSE Cardinality(B) + 1
  BY <1>1, FS_AddElement, Zenon
<1>5. Cardinality(C) <= Cardinality(B \cup {d})
  BY <1>3, FS_Subset
<1>6. Cardinality(B \cup {d}) \in Nat
  BY <1>3, FS_CardinalityType
<1> QED  BY <1>1, <1>2, <1>4, <1>5, <1>6

\* What a step that is not one of the range's does to connections that were
\* in the pool when Client.Close was called.
Aside ==
  /\ UNCHANGED <<closer, opened>>
  /\ \A c \in opened : mark'[c] # "none" /\ (mark'[c] = "open" => mark[c] = "open")
  /\ \A k \in Callers : pc'[k] = "append" => conn'[k] \notin opened

\* Some of the invariant needs no more than that.
LEMMA AsideKeeps ==
  ASSUME Sweep, Aside
  PROVE  CloserOK' /\ OpenedOK' /\ Ranging' = Ranging /\ Reached' = Reached
BY DEF Sweep, Aside, CloserOK, OpenedOK, Ranging, Reached

\* The rest follows by counting.
LEMMA AsidePays ==
  ASSUME Sweep, Aside, opened \ Pool \subseteq opened \ Pool',
         \/ Behind' \subseteq Behind
         \/ \E c, d : Behind' \subseteq Behind \cup {d} /\ c \in opened /\ c \in Pool /\ c \notin Pool'
  PROVE  PaidFor'
<1>1. opened' = opened /\ IsFiniteSet(opened) /\ Cardinality(Behind) <= Cardinality(opened \ Pool)
  BY DEF Aside, Sweep, OpenedOK, PaidFor
<1>2. Behind \subseteq opened /\ Behind' \subseteq opened
  BY <1>1 DEF Behind
<1>3. /\ Behind \in SUBSET opened /\ Behind' \in SUBSET opened
      /\ opened \ Pool \in SUBSET opened /\ opened \ Pool' \in SUBSET opened
  BY <1>2
<1>4. CASE Behind' \subseteq Behind
  <2>1. Cardinality(Behind') <= Cardinality(opened \ Pool')
    BY <1>1, <1>3, <1>4, GrowsLess
  <2> QED  BY <1>1, <2>1 DEF PaidFor
<1>5. CASE \E c, d : /\ Behind' \subseteq Behind \cup {d}
                     /\ c \in opened /\ c \in Pool /\ c \notin Pool'
  <2>1. PICK c, d : /\ Behind' \subseteq Behind \cup {d}
                    /\ c \in opened /\ c \in Pool /\ c \notin Pool'
    BY <1>5
  <2>2. opened \ Pool' # opened \ Pool /\ Behind' \subseteq Behind \cup {d}
    BY <2>1
  <2>3. Cardinality(Behind') <= Cardinality(opened \ Pool')
    <3> DEFINE B == Behind
               C == Behind'
               L == opened \ Pool
               M == opened \ Pool'
    <3>1. /\ B \in SUBSET opened /\ C \in SUBSET opened
          /\ L \in SUBSET opened /\ M \in SUBSET opened
      BY <1>3
    <3>2. IsFiniteSet(opened) /\ Cardinality(B) <= Cardinality(L)
      BY <1>1
    <3>3. L \subseteq M /\ M # L /\ C \subseteq B \cup {d}
      BY <2>2
    <3> HIDE DEF B, C, L, M
    <3>4. Cardinality(C) <= Cardinality(M)
      BY <3>1, <3>2, <3>3, GrowsByOne
    <3> QED  BY <3>4 DEF C, M
  <2> QED  BY <1>1, <2>3 DEF PaidFor
<1> QED  BY <1>4, <1>5

\* Steps that leave the pool alone.
LEMMA StillSweeps ==
  ASSUME Sweep, Aside, UNCHANGED <<heap, size>>
  PROVE  Sweep'
<1>1. CloserOK' /\ OpenedOK' /\ Ranging' = Ranging /\ Reached' = Reached
  BY AsideKeeps
<1>2. array' = array /\ Pool' = Pool /\ Ahead' = Ahead
  BY <1>1 DEF array, Pool, connections, Ahead, Aside
<1>3. OneArray' /\ OldFirst'
  BY <1>1, <1>2 DEF Sweep, OneArray, OldFirst, Aside
<1>4. Behind' \subseteq Behind
  BY <1>1, <1>2 DEF Behind, Aside
<1>5. PaidFor'
  BY <1>2, <1>4, AsidePays
<1> QED  BY <1>1, <1>3, <1>5 DEF Sweep

\* append leaves the array the range goes over alone, but for a cell behind
\* the others.
LEMMA AppendedFirst ==
  ASSUME SliceOK, OneArray, NEW c \in Conns, Appended(c)
  PROVE  \/ Len(heap') # 1 /\ Ranging /\ heap'[1] = heap[1]
         \/ Len(heap') = 1 /\ Len(heap) = 1
<1>1. /\ heap \in Seq(Seq(Cells)) /\ Len(heap) \in Nat /\ Len(heap) > 0
      /\ array \in Seq(Cells) /\ size \in Nat /\ size <= Len(array)
  BY DEF SliceOK, array
<1>2. CASE size < Len(array)
  <2> DEFINE B == [array EXCEPT ![size + 1] = c]
  <2>1. heap' = [heap EXCEPT ![Len(heap)] = B]
    BY <1>2 DEF Appended, array
  <2> HIDE DEF B
  <2>2. Len(heap') = Len(heap) /\ (Len(heap) > 1 => heap'[1] = heap[1])
    BY <1>1, <2>1
  <2> QED  BY <1>1, <2>2 DEF OneArray
<1>3. CASE ~(size < Len(array))
  <2> DEFINE n == IF size = 0 THEN 1 ELSE 2 * size
             B == [i \in 1 .. n |-> IF i <= size THEN array[i]
                                    ELSE IF i = size + 1 THEN c ELSE NoConn]
  <2>1. heap' = Append(IF Ranging THEN <<heap[1]>> ELSE <<>>, B)
    BY <1>3 DEF Appended
  <2> HIDE DEF n, B
  <2>2. CASE Ranging
    <3>1. heap' = Append(<<heap[1]>>, B)
      BY <2>1, <2>2, Zenon
    <3>2. <<heap[1]>> \in Seq({heap[1], B}) /\ Len(<<heap[1]>>) = 1
      OBVIOUS
    <3>3. Len(heap') = 2 /\ heap'[1] = heap[1]
      BY <3>1, <3>2
    <3> QED  BY <2>2, <3>3
  <2>3. CASE ~Ranging
    <3>1. heap' = Append(<<>>, B)
      BY <2>1, <2>3, Zenon
    <3>2. Len(heap') = 1
      BY <3>1
    <3> QED  BY <1>1, <2>3, <3>2 DEF OneArray
  <2> QED  BY <2>2, <2>3
<1> QED  BY <1>2, <1>3

\* A connection that is appended is none of those that were in the pool.
LEMMA AppendSweeps ==
  ASSUME SliceOK, Distinct, Sweep, Aside, NEW c \in Conns \ Pool, c \notin opened, Appended(c)
  PROVE  Sweep'
<1>1. CloserOK' /\ OpenedOK' /\ Ranging' = Ranging /\ Reached' = Reached
  BY AsideKeeps
<1>2. /\ size \in Nat /\ size' = size + 1 /\ array'[size + 1] = c
      /\ \A i \in 1 .. size : array'[i] = array[i]
  BY AppendedCells DEF SliceOK
<1>3. Pool' = Pool \cup {c}
  BY AppendedPool
<1>4. UNCHANGED <<closer, opened>>
  BY DEF Aside
<1>5. \/ Len(heap') # 1 /\ Ranging /\ heap'[1] = heap[1]
      \/ Len(heap') = 1 /\ Len(heap) = 1
  BY AppendedFirst DEF Sweep
<1>6. OneArray'
  BY <1>1, <1>5 DEF OneArray
<1>7. OldFirst'
  <2> SUFFICES ASSUME NEW l \in 1 .. size', array'[l] \in opened, NEW j \in 1 .. l
               PROVE  array'[j] \in opened
    BY <1>4 DEF OldFirst
  <2>1. l \in 1 .. size /\ j \in 1 .. size
    BY <1>2
  <2>2. array[l] \in opened
    BY <1>2, <2>1
  <2>3. array[j] \in opened
    BY <2>1, <2>2 DEF Sweep, OldFirst
  <2> QED  BY <1>2, <2>1, <2>3
<1>8. Ranging => Ahead \subseteq Ahead'
  <2> SUFFICES ASSUME NEW n \in Reached .. closer.size, Len(heap) = 1 => n <= size
               PROVE  heap[1][n] \in Ahead'
    BY DEF Ahead
  <2>1. n \in Nat \ {0} /\ n \in Reached' .. closer'.size
    BY <1>1, <1>4 DEF Sweep, CloserOK, Reached
  <2>2. CASE Len(heap') # 1 /\ heap'[1] = heap[1]
    BY <2>1, <2>2 DEF Ahead
  <2>3. CASE Len(heap') = 1 /\ Len(heap) = 1
    <3>1. heap[1] = array /\ heap'[1] = array'
      BY <2>3 DEF array
    <3>2. n \in 1 .. size /\ n <= size'
      BY <1>2, <2>1, <2>3
    <3>3. heap'[1][n] = heap[1][n]
      BY <1>2, <3>1, <3>2
    <3>4. heap'[1][n] \in Ahead'
      BY <2>1, <3>2 DEF Ahead
    <3> QED  BY <3>3, <3>4
  <2> QED  BY <1>5, <2>2, <2>3
<1>9. Behind' \subseteq Behind
  <2>1. opened' \cap Pool' = opened \cap Pool
    BY <1>3, <1>4
  <2>2. \A d \in opened : mark'[d] = "open" => mark[d] = "open"
    BY DEF Aside
  <2> QED  BY <1>1, <1>8, <2>1, <2>2 DEF Behind
<1>10. PaidFor'
  BY <1>3, <1>9, AsidePays
<1> QED  BY <1>1, <1>6, <1>7, <1>10 DEF Sweep

\* removeConnection leaves the array of a range that is not the one in use
\* alone.
LEMMA RemovedFirst ==
  ASSUME SliceOK, NEW c \in Pool, Removed(c)
  PROVE  Len(heap') = Len(heap) /\ (Len(heap) # 1 => heap'[1] = heap[1])
<1> DEFINE B == [j \in 1 .. Len(array) |->
                   IF j \in (CHOOSE l \in 1 .. size : array[l] = c) .. size - 1
                   THEN array[j + 1] ELSE array[j]]
<1>1. heap' = [heap EXCEPT ![Len(heap)] = B]
  BY DEF Removed
<1> HIDE DEF B
<1>2. heap \in Seq(Seq(Cells)) /\ Len(heap) \in Nat /\ Len(heap) > 0
  BY DEF SliceOK
<1> QED  BY <1>1, <1>2

\* Removing a connection makes the range pass over the one in the next cell
\* if it has got past the removed one, and over no other; if that one had been
\* in the pool, so had the removed one, which came before it.
LEMMA RemoveSweeps ==
  ASSUME SliceOK, Distinct, Sweep, Aside, NEW c \in Pool, Removed(c)
  PROVE  Sweep'
<1>1. CloserOK' /\ OpenedOK' /\ Ranging' = Ranging /\ Reached' = Reached
  BY AsideKeeps
<1>2. PICK i \in 1 .. size :
        /\ array[i] = c
        /\ \A j \in 1 .. size - 1 :
             array'[j] = IF j < i THEN array[j] ELSE array[j + 1]
  BY RemovedCells
<1>3. size \in Nat /\ size' = size - 1
  BY RemovedCells DEF SliceOK
<1>4. Pool' = Pool \ {c}
  BY RemovedPool
<1>5. UNCHANGED <<closer, opened>>
  BY DEF Aside
<1>6. Len(heap') = Len(heap) /\ (Len(heap) # 1 => heap'[1] = heap[1])
  BY RemovedFirst
<1>7. OneArray'
  BY <1>1, <1>6 DEF Sweep, OneArray
<1>8. OldFirst'
  <2> SUFFICES ASSUME NEW l \in 1 .. size', array'[l] \in opened, NEW j \in 1 .. l
               PROVE  array'[j] \in opened
    BY <1>5 DEF OldFirst
  <2>1. \A m \in 1 .. size : array[m] \in opened => \A n \in 1 .. m : array[n] \in opened
    BY DEF Sweep, OldFirst
  <2>2. l \in 1 .. size - 1 /\ j \in 1 .. size - 1 /\ l \in Int /\ j \in Int /\ j <= l
    BY <1>3
  <2>3. /\ array'[l] = IF l < i THEN array[l] ELSE array[l + 1]
        /\ array'[j] = IF j < i THEN array[j] ELSE array[j + 1]
    BY <1>2, <2>2
  <2>4. PICK m \in 1 .. size : array[m] \in opened /\ array'[j] \in {array[n] : n \in 1 .. m}
    <3>1. CASE l < i
      <4>1. j < i
        BY <1>3, <2>2, <3>1
      <4> QED  BY <1>3, <2>2, <2>3, <3>1, <4>1
    <3>2. CASE ~(l < i)
      <4>1. l + 1 \in 1 .. size /\ array[l + 1] \in opened
        BY <1>3, <2>2, <2>3, <3>2
      <4>2. j \in 1 .. l + 1 /\ j + 1 \in 1 .. l + 1
        BY <2>2
      <4> QED  BY <2>3, <4>1, <4>2
    <3> QED  BY <3>1, <3>2
  <2> QED  BY <2>1, <2>4
<1> DEFINE d == array[Reached]
<1>r. Reached \in Nat \ {0} /\ closer.size \in Nat
  BY DEF Sweep, CloserOK, Reached
<1>9. ASSUME Ranging, NEW n \in Reached .. closer.size, Len(heap) = 1 => n <= size,
             heap[1][n] # c, ~(Len(heap) = 1 /\ n = Reached /\ i < Reached)
      PROVE  heap[1][n] \in Ahead'
  <2>1. n \in Nat \ {0} /\ n \in Reached' .. closer'.size
    BY <1>1, <1>5, <1>9, <1>r
  <2>2. CASE Len(heap) # 1
    BY <1>6, <2>1, <2>2 DEF Ahead
  <2>3. CASE Len(heap) = 1
    <3>1. heap[1] = array /\ heap'[1] = array' /\ Len(heap') = 1
      BY <1>6, <2>3 DEF array
    <3>2. n \in 1 .. size /\ n # i
      BY <1>2, <1>3, <1>9, <2>1, <2>3, <3>1
    <3>3. CASE n < i
      <4>1. n \in 1 .. size - 1 /\ array'[n] = array[n]
        BY <1>2, <1>3, <3>2, <3>3
      <4>2. array'[n] \in Ahead'
        BY <1>3, <2>1, <3>1, <4>1 DEF Ahead
      <4> QED  BY <3>1, <4>1, <4>2
    <3>4. CASE n > i
      <4>1. n - 1 \in 1 .. size - 1 /\ array'[n - 1] = array[(n - 1) + 1]
        BY <1>2, <1>3, <3>2, <3>4
      <4>2. n # Reached
        BY <1>9, <2>3, <3>4
      <4>3. n - 1 \in Reached' .. closer'.size /\ n - 1 <= size'
        BY <1>1, <1>3, <1>5, <1>r, <1>9, <3>2, <4>2
      <4>4. array'[n - 1] \in Ahead'
        BY <3>1, <4>3 DEF Ahead
      <4> QED  BY <2>1, <3>1, <4>1, <4>4
    <3> QED  BY <1>3, <3>2, <3>3, <3>4
  <2> QED  BY <2>2, <2>3
<1>m. \A e \in opened : mark'[e] = "open" => mark[e] = "open"
  BY DEF Aside
<1>10. CASE ~Ranging
  <2>1. Behind' \subseteq Behind
    BY <1>1, <1>4, <1>5, <1>10, <1>m DEF Behind
  <2> QED  BY <1>1, <1>4, <1>7, <1>8, <2>1, AsidePays DEF Sweep
<1>11. CASE Ranging /\ ~(Len(heap) = 1 /\ i < Reached /\ Reached <= size /\ d \in opened)
  <2>1. ASSUME NEW e \in opened, e \in Pool', mark'[e] = "open", e \notin Ahead' PROVE e \in Behind
    <3>1. e \in Pool /\ e # c /\ mark[e] = "open"
      BY <1>4, <1>m, <2>1
    <3>2. e \notin Ahead
      <4> SUFFICES ASSUME NEW n \in Reached .. closer.size, Len(heap) = 1 => n <= size,
                          e = heap[1][n]
                   PROVE  FALSE
        BY DEF Ahead
      <4>1. Len(heap) = 1 /\ n = Reached /\ i < Reached
        BY <1>9, <1>11, <2>1, <3>1
      <4>2. heap[1] = array
        BY <4>1 DEF array
      <4> QED  BY <1>11, <2>1, <4>1, <4>2
    <3> QED  BY <3>1, <3>2 DEF Behind
  <2>2. Behind' \subseteq Behind
    BY <1>1, <1>5, <1>11, <2>1 DEF Behind
  <2> QED  BY <1>1, <1>4, <1>7, <1>8, <2>2, AsidePays DEF Sweep
<1>12. CASE Ranging /\ Len(heap) = 1 /\ i < Reached /\ Reached <= size /\ d \in opened
  <2>1. c \in opened
    <3>1. Reached \in 1 .. size /\ i \in 1 .. Reached
      BY <1>3, <1>r, <1>12
    <3> QED  BY <1>2, <1>12, <3>1 DEF Sweep, OldFirst
  <2>2. ASSUME NEW e \in opened, e \in Pool', mark'[e] = "open", e \notin Ahead'
        PROVE  e \in Behind \cup {d}
    <3>1. e \in Pool /\ e # c /\ mark[e] = "open"
      BY <1>4, <1>m, <2>2
    <3>2. ASSUME e # d PROVE e \notin Ahead
      <4> SUFFICES ASSUME NEW n \in Reached .. closer.size, Len(heap) = 1 => n <= size,
                          e = heap[1][n]
                   PROVE  FALSE
        BY DEF Ahead
      <4>1. n = Reached
        BY <1>9, <1>12, <2>2, <3>1
      <4>2. heap[1] = array
        BY <1>12 DEF array
      <4> QED  BY <3>2, <4>1, <4>2
    <3> QED  BY <3>1, <3>2 DEF Behind
  <2>3. Behind' \subseteq Behind \cup {d}
    BY <1>1, <1>5, <1>12, <2>2 DEF Behind
  <2>4. \E x, y : Behind' \subseteq Behind \cup {y} /\ x \in opened /\ x \in Pool /\ x \notin Pool'
    BY <1>4, <2>1, <2>3
  <2>5. PaidFor'
    BY <1>4, <2>4, AsidePays
  <2> QED  BY <1>1, <1>7, <1>8, <2>5 DEF Sweep
<1> QED  BY <1>10, <1>11, <1>12

\* The range itself: its begin ...
LEMMA CloseSweeps ==
  ASSUME IInv, Sweep, Close
  PROVE  Sweep'
<1>0. /\ SliceOK /\ Types /\ Own /\ Listed /\ closer.at \in {"idle", "done"}
      /\ CloserOK /\ OneArray
      /\ closer' = [closer EXCEPT !.at = "range", !.size = size]
      /\ opened' = Pool /\ UNCHANGED <<heap, size, mark, pc, conn>>
  BY DEF IInv, Sweep, Close, poolVars, connVars, callVars
<1>1. size \in Nat /\ Pool = {array[j] : j \in 1 .. size} /\ Pool \subseteq Conns
  BY <1>0, PoolCells DEF SliceOK
<1>2. UNCHANGED <<array, Pool>>
  BY <1>0 DEF array, Pool, connections
<1>3. /\ CloserOK' /\ Ranging' /\ Reached' = 1 /\ closer'.size = size
  BY <1>0, <1>1 DEF CloserOK, Ranging, Reached
<1>4. Len(heap) = 1 /\ array = heap[1]
  BY <1>0 DEF OneArray, Ranging, array
<1>5. IsFiniteSet(Pool)
  <2> DEFINE f == [j \in 1 .. size |-> array[j]]
  <2>1. IsFiniteSet(1 .. size)
    BY <1>1, FS_Interval
  <2>2. f \in Surjection(1 .. size, Pool)
    BY <1>1 DEF Surjection
  <2> HIDE DEF f
  <2> QED  BY <2>1, <2>2, FS_Surjection
<1>6. OpenedOK'
  BY <1>0, <1>1, <1>5 DEF OpenedOK, Own, Listed
<1>7. OneArray' /\ OldFirst'
  BY <1>0, <1>1, <1>2, <1>3 DEF OneArray, OldFirst
<1>8. Pool \subseteq Ahead'
  <2> SUFFICES ASSUME NEW j \in 1 .. size PROVE array[j] \in Ahead'
    BY <1>1
  <2>1. j \in Reached' .. closer'.size /\ j <= size' /\ array[j] = heap'[1][j]
    BY <1>0, <1>1, <1>3, <1>4
  <2> QED  BY <2>1 DEF Ahead
<1>9. Behind' = {}
  BY <1>0, <1>2, <1>3, <1>8 DEF Behind
<1>10. PaidFor'
  <2>1. opened' \ Pool' = {}
    BY <1>0, <1>2
  <2> QED  BY <1>9, <2>1, FS_EmptySet DEF PaidFor
<1> QED  BY <1>3, <1>6, <1>7, <1>10 DEF Sweep

\* ... a connection it closes or passes, for one that is not open any more ...
LEMMA CloseNextSweeps ==
  ASSUME IInv, Sweep, CloseNext \/ CloseReturns
  PROVE  Sweep'
<1>0. /\ SliceOK /\ Types /\ CloserOK /\ OpenedOK /\ OneArray /\ OldFirst
      /\ UNCHANGED <<heap, size, opened, pc, conn>>
  BY DEF IInv, Sweep, CloseNext, CloseReturns, poolVars, connVars, callVars
<1>1. UNCHANGED <<array, Pool>>
  BY <1>0 DEF array, Pool, connections
<1>2. \A c \in opened : mark'[c] # "none" /\ (mark'[c] = "open" => mark[c] = "open")
  BY <1>0 DEF CloseNext, CloseReturns, connVars, OpenedOK, Types
<1>3. /\ CloserOK' /\ Ranging /\ Ranging' /\ closer'.size = closer.size
      /\ \/ Reached' = Reached
         \/ Reached' = Reached + 1 /\ \A c \in opened : mark'[c] = "open" => c # heap[1][Reached]
  <2>1. CASE CloseReturns
    BY <1>0, <2>1 DEF CloseReturns, CloserOK, Ranging, Reached
  <2>2. CASE CloseNext /\ mark[heap[1][closer.i]] = "open"
    <3>1. /\ closer.at = "range" /\ mark' = [mark EXCEPT ![heap[1][closer.i]] = "marked"]
          /\ closer' = [closer EXCEPT !.at = "closing", !.v = heap[1][closer.i]]
      BY <2>2 DEF CloseNext
    <3>2. CloserOK' /\ Ranging /\ Ranging' /\ closer'.size = closer.size
      BY <1>0, <3>1 DEF CloserOK, Ranging
    <3>3. Reached = closer.i /\ Reached' = Reached + 1
      BY <1>0, <3>1 DEF CloserOK, Reached
    <3>4. \A c \in opened : mark'[c] = "open" => c # heap[1][Reached]
      BY <1>0, <3>1, <3>3 DEF OpenedOK, Types
    <3> QED  BY <3>2, <3>3, <3>4
  <2>3. CASE CloseNext /\ mark[heap[1][closer.i]] # "open"
    <3>1. /\ closer.at = "range" /\ UNCHANGED mark
          /\ closer' = [closer EXCEPT !.i = @ + 1]
      BY <2>3 DEF CloseNext
    <3>2. CloserOK' /\ Ranging /\ Ranging' /\ closer'.size = closer.size
      BY <1>0, <3>1 DEF CloserOK, Ranging
    <3>3. Reached = closer.i /\ Reached' = Reached + 1
      BY <1>0, <3>1 DEF CloserOK, Reached
    <3> QED  BY <2>3, <3>1, <3>2, <3>3
  <2> QED  BY <2>1, <2>2, <2>3
<1>4. OpenedOK' /\ OneArray' /\ OldFirst'
  BY <1>0, <1>1, <1>2, <1>3 DEF OpenedOK, OneArray, OldFirst
<1>5. ASSUME NEW c \in opened, mark'[c] = "open", c \in Ahead PROVE c \in Ahead'
  <2>1. PICK n \in Reached .. closer.size : (Len(heap) = 1 => n <= size) /\ c = heap[1][n]
    BY <1>5 DEF Ahead
  <2>2. Reached \in Nat
    BY <1>0 DEF CloserOK, Reached
  <2>3. n \in Reached' .. closer'.size
    BY <1>3, <1>5, <2>1, <2>2
  <2> QED  BY <1>0, <2>1, <2>3 DEF Ahead
<1>6. Behind' \subseteq Behind
  BY <1>0, <1>1, <1>2, <1>3, <1>5 DEF Behind
<1>7. PaidFor'
  <2>1. /\ IsFiniteSet(opened) /\ Behind \in SUBSET opened /\ Behind' \in SUBSET opened
        /\ opened \ Pool \in SUBSET opened /\ Cardinality(Behind) <= Cardinality(opened \ Pool)
    BY <1>0, <1>6 DEF Sweep, OpenedOK, PaidFor, Behind
  <2>2. Cardinality(Behind') <= Cardinality(opened \ Pool)
    BY <1>6, <2>1, GrowsLess
  <2> QED  BY <1>0, <1>1, <2>2 DEF PaidFor
<1> QED  BY <1>3, <1>4, <1>7 DEF Sweep

\* ... and its end, when nothing is ahead.
LEMMA CloseDoneSweeps ==
  ASSUME IInv, Sweep, CloseDone
  PROVE  Sweep'
<1>0. /\ SliceOK /\ CloserOK /\ OpenedOK /\ OldFirst /\ PaidFor
      /\ closer.at = "range" /\ closer.i > closer.size
      /\ closer' = [closer EXCEPT !.at = "done", !.size = 0, !.i = 1]
      /\ heap' = <<array>> /\ UNCHANGED <<size, opened, mark, pc, conn>>
  BY DEF IInv, Sweep, CloseDone, connVars, callVars
<1>1. Len(heap') = 1 /\ UNCHANGED array
  <2>1. Len(heap') = 1 /\ heap'[1] = array
    BY <1>0
  <2> QED  BY <2>1 DEF array
<1>2. UNCHANGED Pool
  BY <1>0, <1>1 DEF Pool, connections
<1>3. CloserOK' /\ Ranging /\ ~Ranging'
  BY <1>0 DEF CloserOK, Ranging
<1>4. OpenedOK' /\ OneArray' /\ OldFirst'
  BY <1>0, <1>1 DEF OpenedOK, OneArray, OldFirst
<1>5. Ahead = {}
  <2>1. Reached .. closer.size = {}
    BY <1>0 DEF CloserOK, Reached
  <2> QED  BY <2>1 DEF Ahead
<1>6. Behind' = Behind
  BY <1>0, <1>2, <1>3, <1>5 DEF Behind
<1>7. PaidFor'
  BY <1>0, <1>2, <1>6 DEF PaidFor
<1> QED  BY <1>3, <1>4, <1>7 DEF Sweep

\* The steps of callers and connections are aside.
LEMMA OtherSteps ==
  ASSUME IInv, Sweep,
         \/ \E k \in Callers : \/ GetFreeConnection(k) \/ GetTaskChannel(k) \/ PickConnection(k)
                               \/ NewConnection(k) \/ NewChannel(k)
         \/ \E c \in Conns : \/ Fail(c) \/ CloseRemove(c) \/ CloseChannels(c)
                             \/ ChannelClose(c)
         \/ UNCHANGED vars
  PROVE  /\ Aside
         /\ \/ UNCHANGED <<heap, size>>
            \/ \E c \in Conns \ Pool : c \notin opened /\ Appended(c)
            \/ \E c \in Pool : Removed(c)
<1>0. /\ PInv /\ SliceOK /\ Types /\ Own /\ OpenedOK
      /\ mark \in [Conns -> Marks] /\ pc \in [Callers -> Steps] /\ conn \in [Callers -> Cells]
  BY DEF IInv, PInv, Types, Sweep
<1>o. /\ \A c \in opened : c \in Conns /\ mark[c] # "none"
      /\ \A k \in Callers : pc[k] = "append" => conn[k] \notin opened
  BY <1>0 DEF OpenedOK
<1>1. CASE \/ \E c \in Conns : Fail(c) \/ CloseChannels(c) \/ ChannelClose(c)
           \/ UNCHANGED vars
  <2>1. UNCHANGED <<heap, size, closer, opened, pc, conn>>
    BY <1>1 DEF Fail, CloseChannels, ChannelClose, vars, poolVars, callVars, closeVars
  <2>2. Ages
    BY <1>0, <1>1, QuietSteps DEF Quiet
  <2> QED  BY <1>o, <2>1, <2>2 DEF Ages, Aside
<1>2. ASSUME NEW c \in Conns, CloseRemove(c)
      PROVE  Aside /\ (UNCHANGED <<heap, size>> \/ (c \in Pool /\ Removed(c)))
  <2>1. /\ UNCHANGED <<closer, opened, pc, conn>> /\ mark' = [mark EXCEPT ![c] = "removed"]
        /\ Removed(c)
    BY <1>2 DEF CloseRemove, callVars, closeVars
  <2>2. Aside
    BY <1>0, <1>o, <2>1 DEF Aside
  <2> QED  BY <2>1, <2>2 DEF Removed, poolVars
<1>3. ASSUME NEW k \in Callers,
             \/ CheckLimit(k) \/ DialFails(k) \/ NoChannel0(k) \/ NewChannelDone(k)
             \/ NewChannelFails(k) /\ ~(balanced /\ conn[k] \in Pool)
             \/ GetFreeConnection(k) \/ GetTaskChannel(k) \/ PickConnection(k)
      PROVE  Aside /\ UNCHANGED <<heap, size>>
  <2>1. UNCHANGED <<closer, opened>>
    BY <1>3 DEF CheckLimit, DialFails, NoChannel0, NewChannelDone, NewChannelFails,
                GetFreeConnection, GetTaskChannel, PickConnection, closeVars
  <2>2. PICK at \in Steps, c \in Cells : Simple(k, at, c)
    BY <1>0, <1>3, SimpleSteps
  <2>3. /\ UNCHANGED <<heap, size, mark>> /\ at # "append" /\ pc'[k] = at
        /\ \A j \in Callers \ {k} : pc'[j] = pc[j] /\ conn'[j] = conn[j]
    BY <2>2 DEF Simple, Moves
  <2> QED  BY <1>o, <2>1, <2>3 DEF Aside
<1>4. ASSUME NEW k \in Callers, NEW c \in Conns, Dial(k, c)
      PROVE  Aside /\ UNCHANGED <<heap, size>>
  <2>1. /\ UNCHANGED <<heap, size, closer, opened>> /\ mark[c] = "none"
        /\ mark' = [mark EXCEPT ![c] = "open"] /\ conn' = [conn EXCEPT ![k] = c]
        /\ pc' = [pc EXCEPT ![k] = "append"]
    BY <1>4 DEF Dial, Goto, poolVars, closeVars
  <2>2. c \notin opened
    BY <1>o, <2>1
  <2> QED  BY <1>0, <1>o, <2>1, <2>2 DEF Aside
<1>5. ASSUME NEW k \in Callers, AppendConn(k)
      PROVE  Aside /\ \E c \in Conns \ Pool : c \notin opened /\ Appended(c)
  <2>1. /\ UNCHANGED <<closer, opened, mark, conn>> /\ pc[k] = "append"
        /\ pc' = [pc EXCEPT ![k] = "count"] /\ Appended(conn[k])
    BY <1>5 DEF AppendConn, Goto, connVars, closeVars
  <2>2. conn[k] \in Conns \ Pool /\ conn[k] \notin opened
    BY <1>0, <1>o, <2>1 DEF Own
  <2>3. Aside
    BY <1>0, <1>o, <2>1 DEF Aside
  <2> QED  BY <2>1, <2>2, <2>3
<1>6. ASSUME NEW k \in Callers, CountConn(k) PROVE Aside /\ UNCHANGED <<heap, size>>
  <2>1. /\ UNCHANGED <<heap, size, closer, opened, mark, conn>>
        /\ pc' = [pc EXCEPT ![k] = "channel"]
    BY <1>6 DEF CountConn, Goto, connVars, closeVars
  <2> QED  BY <1>0, <1>o, <2>1 DEF Aside
<1>7. ASSUME NEW k \in Callers, NewChannelFails(k), balanced, conn[k] \in Pool
      PROVE  Aside /\ Removed(conn[k])
  <2>1. /\ UNCHANGED <<closer, opened, mark, conn>>
        /\ pc' = [pc EXCEPT ![k] = "close"] /\ Removed(conn[k])
    BY <1>7 DEF NewChannelFails, Goto, connVars, closeVars
  <2> QED  BY <1>0, <1>o, <2>1 DEF Aside
<1>8. ASSUME NEW k \in Callers, CloseRemoved(k) PROVE Aside /\ UNCHANGED <<heap, size>>
  <2>1. /\ UNCHANGED <<heap, size, closer, opened>>
        /\ mark' = [mark EXCEPT ![conn[k]] = IF @ = "open" THEN "marked" ELSE @]
        /\ pc' = [pc EXCEPT ![k] = "idle"] /\ conn' = [conn EXCEPT ![k] = NoConn]
    BY <1>8 DEF CloseRemoved, Return, Goto, poolVars, closeVars
  <2>2. \A c \in Conns : mark'[c] = mark[c] \/ mark'[c] = "marked"
    BY <1>0, <2>1
  <2>3. \A j \in Callers : pc'[j] = "append" => pc[j] = "append" /\ conn'[j] = conn[j]
    BY <1>0, <2>1
  <2> QED  BY <1>o, <2>1, <2>2, <2>3 DEF Aside
<1> QED
  BY <1>1, <1>2, <1>3, <1>4, <1>5, <1>6, <1>7, <1>8 DEF NewConnection, NewChannel

\* How far ClosesAll can be missed: Client.Close leaves at most half of the
\* connections there were when it was called open and in the pool.
ClosesHalf ==
  closer.at = "done" =>
    2 * Cardinality({c \in opened \cap Pool : mark[c] = "open"}) <= Cardinality(opened)

\* Client.Close leaves at most half of the connections open, for any number
\* of connections and whatever is added or fails while it ranges: ClosesHalf.
THEOREM CloseMissesAtMostHalf == Spec => []ClosesHalf
<1>1. Init => Sweep
  <2> SUFFICES ASSUME Init PROVE Sweep
    OBVIOUS
  <2> USE DEF Init
  <2>1. CloserOK /\ OpenedOK /\ OneArray /\ OldFirst
    BY FS_EmptySet DEF CloserOK, OpenedOK, OneArray, OldFirst
  <2>2. Behind = {} /\ opened \ Pool = {}
    BY DEF Behind
  <2>3. PaidFor
    BY <2>2, FS_EmptySet DEF PaidFor
  <2> QED  BY <2>1, <2>3 DEF Sweep
<1>2. IInv /\ Sweep /\ [Next]_vars => Sweep'
  <2> SUFFICES ASSUME IInv, Sweep, [Next]_vars PROVE Sweep'
    OBVIOUS
  <2>1. CASE Close \/ CloseNext \/ CloseReturns \/ CloseDone
    BY <2>1, CloseSweeps, CloseNextSweeps, CloseDoneSweeps
  <2>2. CASE \/ \E k \in Callers : \/ GetFreeConnection(k) \/ GetTaskChannel(k)
                                   \/ PickConnection(k) \/ NewConnection(k) \/ NewChannel(k)
             \/ \E c \in Conns : \/ Fail(c) \/ CloseRemove(c) \/ CloseChannels(c)
                                 \/ ChannelClose(c)
             \/ UNCHANGED vars
    <3>1. SliceOK /\ Distinct
      BY DEF IInv
    <3>2. /\ Aside
          /\ \/ UNCHANGED <<heap, size>>
             \/ \E c \in Conns \ Pool : c \notin opened /\ Appended(c)
             \/ \E c \in Pool : Removed(c)
      BY <2>2, OtherSteps
    <3> QED  BY <3>1, <3>2, StillSweeps, AppendSweeps, RemoveSweeps
  <2> QED  BY <2>1, <2>2 DEF Next
<1>3. Sweep => ClosesHalf
  <2> SUFFICES ASSUME Sweep, closer.at = "done"
               PROVE  2 * Cardinality({c \in opened \cap Pool : mark[c] = "open"})
                        <= Cardinality(opened)
    BY DEF ClosesHalf
  <2> DEFINE B == {c \in opened \cap Pool : mark[c] = "open"}
             L == opened \ Pool
  <2>1. B = Behind /\ Cardinality(Behind) <= Cardinality(L)
    BY DEF Sweep, PaidFor, Behind, Ranging
  <2>2. IsFiniteSet(opened) /\ B \subseteq opened /\ L \subseteq opened /\ B \cap L = {}
    BY DEF Sweep, OpenedOK
  <2>3. IsFiniteSet(B) /\ IsFiniteSet(L) /\ B \cup L \in SUBSET opened
    BY <2>2, FS_Subset
  <2> HIDE DEF B, L
  <2>4. Cardinality(B \cup L) = Cardinality(B) + Cardinality(L) - Cardinality(B \cap L)
    BY <2>3, FS_Union
  <2>5. Cardinality(B \cap L) = 0 /\ Cardinality(B \cup L) <= Cardinality(opened)
    BY <2>2, <2>3, FS_EmptySet, FS_Subset
  <2>6. Cardinality(B) \in Nat /\ Cardinality(L) \in Nat /\ Cardinality(opened) \in Nat
    BY <2>2, <2>3, FS_CardinalityType
  <2>7. Cardinality(B) <= Cardinality(L)
    BY <2>1
  <2>8. 2 * Cardinality(B) <= Cardinality(opened)
    BY <2>4, <2>5, <2>6, <2>7
  <2> QED  BY <2>8 DEF B
<1> QED  BY <1>1, <1>2, <1>3, Invariance, PTL DEF Spec
=============================================================================
