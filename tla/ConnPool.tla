------------------------------ MODULE ConnPool ------------------------------
(***************************************************************************)
(* The connections of one Client (client.go): newConnection,               *)
(* removeConnection, getFreeConnection and Close, and what lbclient.go     *)
(* builds on them, EvaluatedClient.getTaskChannel.  A Client is used       *)
(* either by NewChannel or by the EvaluatedClients of one server address,  *)
(* as many as its weight: balanced says by which.                          *)
(*                                                                         *)
(* m.connections is a Go slice: the first size cells of the last array in  *)
(* heap.  removeConnection shifts the cells of that array in place, and    *)
(* Client.Close ranges, without a lock, over the array that was there when *)
(* it began: the first one in heap.                                        *)
(*                                                                         *)
(* A connection is dialled once.  Its channels are only counted; opening   *)
(* one (module Channels) is one step, which succeeds or fails.             *)
(***************************************************************************)
EXTENDS Integers, Sequences, FiniteSets

CONSTANTS
  Conns,              \* the connections that can be dialled
  NoConn,             \* nil
  Callers,            \* goroutines that call NewChannel or getTaskChannel
  Evals,              \* the EvaluatedClients that share the Client
  MaxConnections,     \* ClientConfig.MaxConnections
  MaxChannelsPerConn, \* ClientConfig.MaxChannelsPerConn, after NewClient
  ServerKeepConns     \* LoadBalanceClient.serverKeepConns

ASSUME ConnPoolAssumption ==
  /\ NoConn \notin Conns
  /\ IsFiniteSet(Callers) /\ Callers # {}
  /\ IsFiniteSet(Evals) /\ Evals # {}
  /\ MaxConnections \in Nat \ {0}
  /\ MaxChannelsPerConn \in Nat \ {0}
  /\ ServerKeepConns \in Nat \ {0}

VARIABLES
  balanced,      \* who uses the Client
  heap, size,    \* the arrays in use by m.connections, and its length
  connCount,     \* m.connCount
  mark,          \* how far Close of each connection has got
  channels,      \* len(Channels) of each connection
  lblChannel,    \* the connections that have CtxLblClientChannel
  pc, conn,      \* where each caller is, and the connection it has
  lock,          \* who holds getChannelLock of each EvaluatedClient
  connIndex,     \* connIndex of each EvaluatedClient
  closer,        \* Client.Close: how many cells it ranges over, the cell it
                 \* is at, the connection it is closing
  early,         \* history: connections removed before they were added
  opened         \* history: the pool when Client.Close was called

poolVars == <<heap, size, connCount>>
connVars == <<mark, channels, lblChannel>>
callVars == <<pc, conn, lock, connIndex>>
closeVars == <<closer, opened>>
vars == <<balanced, poolVars, connVars, callVars, closeVars, early>>

Init ==
  /\ balanced \in BOOLEAN
  /\ heap = << <<>> >> /\ size = 0
  /\ connCount = 0
  /\ mark = [c \in Conns |-> "none"]
  /\ channels = [c \in Conns |-> 0]
  /\ lblChannel = {}
  /\ pc = [k \in Callers |-> "idle"]
  /\ conn = [k \in Callers |-> NoConn]
  /\ lock = [e \in Evals |-> {}]
  /\ connIndex = [e \in Evals |-> 0]
  /\ closer = [at |-> "idle", size |-> 0, i |-> 1, v |-> NoConn]
  /\ early = {}
  /\ opened = {}
-----------------------------------------------------------------------------
(* The slice.                                                              *)

array == heap[Len(heap)]

\* m.connections.
connections == SubSeq(array, 1, size)

Pool == {connections[i] : i \in 1 .. size}

\* Client.Close is under way.
Ranging == closer.at \in {"range", "closing"}

\* append: in place while the array has room, else in a new one of twice
\* the size.  Only Client.Close may still be using the old one.
Appended(c) ==
  /\ size' = size + 1
  /\ heap' = IF size < Len(array)
             THEN [heap EXCEPT ![Len(heap)][size + 1] = c]
             ELSE Append(IF Ranging THEN <<heap[1]>> ELSE <<>>,
                    [i \in 1 .. IF size = 0 THEN 1 ELSE 2 * size |->
                       IF i <= size THEN array[i]
                       ELSE IF i = size + 1 THEN c ELSE NoConn])

\* Fault: one connection too many is shifted over.
RemovedTwo(c) ==
  IF c \in Pool
  THEN LET i == CHOOSE j \in 1 .. size : array[j] = c
       IN  /\ size' = size - 1
           /\ heap' = [heap EXCEPT ![Len(heap)] =
                         [j \in 1 .. Len(array) |->
                            IF j \in i .. size - 2 THEN array[j + 2]
                                                   ELSE array[j]]]
           /\ connCount' = connCount - 1
  ELSE UNCHANGED poolVars

\* removeConnection, under connLock: the cells behind the connection move
\* one place down in the same array; the last cell keeps its value.
Removed(c) ==
  IF c \in Pool
  THEN LET i == CHOOSE j \in 1 .. size : array[j] = c
       IN  /\ size' = size - 1
           /\ heap' = [heap EXCEPT ![Len(heap)] =
                         [j \in 1 .. Len(array) |->
                            IF j \in i .. size - 1 THEN array[j + 1]
                                                   ELSE array[j]]]
           /\ connCount' = connCount - 1
  ELSE UNCHANGED poolVars
-----------------------------------------------------------------------------
(* Connection.Close.                                                       *)

\* A nil pointer or an index out of range ends the program.
Running == \A k \in Callers : pc[k] # "panic"

\* The loops of a connection, or a request on it, fail: closedMark.
Fail(c) ==
  /\ Running
  /\ mark[c] = "open"
  /\ mark' = [mark EXCEPT ![c] = "marked"]
  /\ UNCHANGED <<balanced, poolVars, channels, lblChannel, callVars, closeVars,
                 early>>

\* Close takes the connection out of the client's pool ...
CloseRemove(c) ==
  /\ Running
  /\ mark[c] = "marked"
  /\ mark' = [mark EXCEPT ![c] = "removed"]
  /\ Removed(c)
  /\ early' = IF \E k \in Callers : conn[k] = c /\ pc[k] = "append"
              THEN early \cup {c} ELSE early
  /\ UNCHANGED <<balanced, channels, lblChannel, callVars, closeVars>>

\* ... and closes its channels, channel 0 among them.
CloseChannels(c) ==
  /\ Running
  /\ mark[c] = "removed"
  /\ mark' = [mark EXCEPT ![c] = "closed"]
  /\ channels' = [channels EXCEPT ![c] = 0]
  /\ UNCHANGED <<balanced, poolVars, lblChannel, callVars, closeVars, early>>

\* ClientChannel.Close of any channel but 0.  (EvaluatedClient.DoRequest goes
\* on to close the connection: that is Fail.)
ChannelClose(c) ==
  /\ Running
  /\ ~balanced
  /\ channels[c] > 1
  /\ channels' = [channels EXCEPT ![c] = @ - 1]
  /\ UNCHANGED <<balanced, poolVars, mark, lblChannel, callVars, closeVars,
                 early>>
-----------------------------------------------------------------------------
(* Client.newConnection and Client.newChannel.                             *)

Goto(k, at) == pc' = [pc EXCEPT ![k] = at]

\* The call is over, also for getChannelLock's deferred Unlock.
Return(k) ==
  /\ Goto(k, "idle")
  /\ conn' = [conn EXCEPT ![k] = NoConn]
  /\ lock' = [e \in Evals |-> lock[e] \ {k}]

\* The limit is checked under connLock, which is then given up.
CheckLimit(k) ==
  /\ Running
  /\ pc[k] = "check"
  /\ IF size >= MaxConnections THEN Return(k)
     ELSE Goto(k, "dial") /\ UNCHANGED <<conn, lock>>
  /\ UNCHANGED <<balanced, poolVars, connVars, connIndex, closeVars, early>>

\* The dial fails, or NewConnection makes channel 0 and starts the loops.
DialFails(k) ==
  /\ Running
  /\ pc[k] = "dial"
  /\ Return(k)
  /\ UNCHANGED <<balanced, poolVars, connVars, connIndex, closeVars, early>>

Dial(k, c) ==
  /\ Running
  /\ pc[k] = "dial"
  /\ mark[c] = "none"
  /\ Goto(k, "append")
  /\ conn' = [conn EXCEPT ![k] = c]
  /\ mark' = [mark EXCEPT ![c] = "open"]
  /\ channels' = [channels EXCEPT ![c] = 1]
  /\ UNCHANGED <<balanced, poolVars, lblChannel, lock, connIndex, closeVars,
                 early>>

\* The connection enters the pool, whatever became of it meanwhile ...
AppendConn(k) ==
  /\ Running
  /\ pc[k] = "append"
  /\ Goto(k, "count")
  /\ Appended(conn[k])
  /\ UNCHANGED <<balanced, connCount, connVars, conn, lock, connIndex, closeVars,
                 early>>

\* Fault: the connection is not counted.
CountConnNot(k) ==
  /\ Running
  /\ pc[k] = "count"
  /\ Goto(k, "channel")
  /\ UNCHANGED <<balanced, poolVars, connVars, conn, lock, connIndex,
                 closeVars, early>>

\* ... and is counted after connLock is given up.
CountConn(k) ==
  /\ Running
  /\ pc[k] = "count"
  /\ Goto(k, "channel")
  /\ connCount' = connCount + 1
  /\ UNCHANGED <<balanced, heap, size, connVars, conn, lock, connIndex,
                 closeVars, early>>

\* newChannel dereferences Channels[0], which Connection.Close removed.
NoChannel0(k) ==
  /\ Running
  /\ pc[k] = "channel"
  /\ channels[conn[k]] = 0
  /\ Goto(k, "panic")
  /\ UNCHANGED <<balanced, poolVars, connVars, conn, lock, connIndex, closeVars,
                 early>>

\* The server answers and the channel is there; getTaskChannel notes it.
NewChannelDone(k) ==
  /\ Running
  /\ pc[k] = "channel"
  /\ channels[conn[k]] > 0
  /\ Return(k)
  /\ channels' = [channels EXCEPT ![conn[k]] = @ + 1]
  /\ lblChannel' = IF balanced THEN lblChannel \cup {conn[k]} ELSE lblChannel
  /\ UNCHANGED <<balanced, poolVars, mark, connIndex, closeVars, early>>

\* No answer: NewChannel returns an error and leaves the connection, while
\* getTaskChannel removes it from the pool.
NewChannelFails(k) ==
  /\ Running
  /\ pc[k] = "channel"
  /\ channels[conn[k]] > 0
  /\ IF balanced /\ conn[k] \in Pool
     THEN Removed(conn[k]) /\ Goto(k, "close") /\ UNCHANGED <<conn, lock>>
     ELSE Return(k) /\ UNCHANGED poolVars
  /\ UNCHANGED <<balanced, connVars, connIndex, closeVars, early>>

\* A connection it did remove removeConnection closes, too.
CloseRemoved(k) ==
  /\ Running
  /\ pc[k] = "close"
  /\ mark' = [mark EXCEPT ![conn[k]] = IF @ = "open" THEN "marked" ELSE @]
  /\ Return(k)
  /\ UNCHANGED <<balanced, poolVars, channels, lblChannel, connIndex, closeVars,
                 early>>
-----------------------------------------------------------------------------
(* Client.NewChannel.                                                      *)

Free == {i \in 1 .. size : channels[array[i]] < MaxChannelsPerConn}

\* getFreeConnection: the first connection with room, else a new one.
GetFreeConnection(k) ==
  /\ Running
  /\ ~balanced
  /\ pc[k] = "idle"
  /\ IF Free # {}
     THEN LET i == CHOOSE j \in Free : \A l \in Free : j <= l
          IN  Goto(k, "channel") /\ conn' = [conn EXCEPT ![k] = array[i]]
     ELSE Goto(k, "check") /\ UNCHANGED conn
  /\ UNCHANGED <<balanced, poolVars, connVars, lock, connIndex, closeVars, early>>
-----------------------------------------------------------------------------
(* EvaluatedClient.getTaskChannel.                                         *)

\* A new connection until there are serverKeepConns, or one of those.
GetTaskChannel(k) ==
  /\ Running
  /\ balanced
  /\ pc[k] = "idle"
  /\ \E e \in Evals : lock[e] = {} /\ lock' = [lock EXCEPT ![e] = {k}]
  /\ Goto(k, IF connCount < ServerKeepConns THEN "check" ELSE "pick")
  /\ UNCHANGED <<balanced, poolVars, connVars, conn, connIndex, closeVars, early>>

\* Fault: the index is compared with connCount before it moves on.
NextIndexLate(e) ==
  IF connIndex[e] >= connCount THEN 0 ELSE connIndex[e] + 1

\* connIndex++, back to 0 at connCount.
NextIndex(e) ==
  IF connIndex[e] + 1 >= connCount THEN 0 ELSE connIndex[e] + 1

\* Under connLock: round robin over the connections.  connIndex counts
\* from 0.
PickConnection(k) ==
  /\ Running
  /\ pc[k] = "pick"
  /\ \E e \in Evals :
       /\ k \in lock[e]
       /\ connIndex' = [connIndex EXCEPT ![e] = NextIndex(e)]
       /\ IF NextIndex(e) < size THEN Return(k)
          ELSE Goto(k, "panic") /\ UNCHANGED <<conn, lock>>
  /\ UNCHANGED <<balanced, poolVars, connVars, closeVars, early>>
-----------------------------------------------------------------------------
(* Client.Close.                                                           *)

\* The range takes the slice once, array and length.  It may be called again:
\* CloseAll does so for a Client that has several EvaluatedClients.
Close ==
  /\ Running
  /\ closer.at \in {"idle", "done"}
  /\ closer' = [closer EXCEPT !.at = "range", !.size = size]
  /\ opened' = Pool
  /\ UNCHANGED <<balanced, poolVars, connVars, callVars, early>>

\* The connection in the next cell is closed; one that another goroutine
\* has begun to close is passed over.
CloseNext ==
  /\ Running
  /\ closer.at = "range"
  /\ closer.i <= closer.size
  /\ LET v == heap[1][closer.i]
     IN  IF mark[v] = "open"
         THEN /\ mark' = [mark EXCEPT ![v] = "marked"]
              /\ closer' = [closer EXCEPT !.at = "closing", !.v = v]
         ELSE /\ closer' = [closer EXCEPT !.i = @ + 1]
              /\ UNCHANGED mark
  /\ UNCHANGED <<balanced, poolVars, channels, lblChannel, callVars, opened,
                 early>>

\* CloseRemove and CloseChannels have been taken for it.
CloseReturns ==
  /\ Running
  /\ closer.at = "closing"
  /\ mark[closer.v] = "closed"
  /\ closer' = [closer EXCEPT !.at = "range", !.i = @ + 1, !.v = NoConn]
  /\ UNCHANGED <<balanced, poolVars, connVars, callVars, opened, early>>

CloseDone ==
  /\ Running
  /\ closer.at = "range"
  /\ closer.i > closer.size
  /\ closer' = [closer EXCEPT !.at = "done", !.size = 0, !.i = 1]
  /\ heap' = <<array>>
  /\ UNCHANGED <<balanced, size, connCount, connVars, callVars, opened, early>>
-----------------------------------------------------------------------------
NewConnection(k) ==
  CheckLimit(k) \/ DialFails(k) \/ (\E c \in Conns : Dial(k, c))
    \/ AppendConn(k) \/ CountConn(k)

NewChannel(k) ==
  NoChannel0(k) \/ NewChannelDone(k) \/ NewChannelFails(k) \/ CloseRemoved(k)

Next ==
  \/ \E k \in Callers :
       \/ GetFreeConnection(k) \/ GetTaskChannel(k) \/ PickConnection(k)
       \/ NewConnection(k) \/ NewChannel(k)
  \/ \E c \in Conns : \/ Fail(c) \/ CloseRemove(c) \/ CloseChannels(c)
                      \/ ChannelClose(c)
  \/ Close \/ CloseNext \/ CloseReturns \/ CloseDone

Spec == Init /\ [][Next]_vars
-----------------------------------------------------------------------------
(* Properties.                                                             *)

\* The callers that have a connection of their own at a step of newConnection
\* or, after newChannel failed, of getTaskChannel.
Between(step, c) == \E k \in Callers : pc[k] = step /\ conn[k] = c

\* The pool is what it should be although connections fail at any point of
\* newConnection and the array is shifted in place: no connection is in it
\* twice; a connection that is not closed is in it, or about to be; a
\* connection that has been removed is not, unless it failed so early that
\* removeConnection came before the append.
PoolExact ==
  /\ \A i, j \in 1 .. size : connections[i] = connections[j] => i = j
  /\ \A c \in Conns : mark[c] = "open" =>
       c \in Pool \/ Between("append", c) \/ Between("close", c)
  /\ \A c \in Pool : mark[c] \in {"open", "marked"} \/ c \in early

\* connCount, which changes partly outside connLock, is the length of
\* connections but for the callers that have yet to add their connection.
CountMatches ==
  size = connCount + Cardinality({k \in Callers : pc[k] = "count"})

\* A Client has at most MaxConnections connections: client.go, on ClientConfig.
\* It may have more: newConnection checks the limit, gives up connLock, dials,
\* and appends the connection whatever came meanwhile.
WithinMaximum == size <= MaxConnections

\* When getTaskChannel goes round the connections, its index, made from
\* connCount, is in range unless there is no connection left, and a
\* connection without a channel ("connection have no lbl-client-channel") is
\* one that a call through another EvaluatedClient is setting up.
PickFindsChannel ==
  \A k \in Callers, e \in Evals : (pc[k] = "pick" /\ k \in lock[e]) =>
    /\ size > 0 => NextIndex(e) < size
    /\ \A c \in Pool \ lblChannel : \E l \in Callers \ lock[e] :
         pc[l] \in {"count", "channel", "panic"} /\ conn[l] = c

\* CloseAll closes all connections to the server: its comment in lbclient.go.
\* With one EvaluatedClient it is one Client.Close.  It does not: the range
\* goes over an array in which removeConnection moves the next connection into
\* the cell it has just done, so of three connections the second stays open.
ClosesAll ==
  (balanced /\ closer.at = "done") => \A c \in opened \cap Pool : mark[c] # "open"
=============================================================================
