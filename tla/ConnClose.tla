------------------------------ MODULE ConnClose ------------------------------
(***************************************************************************)
(* The end of a Connection (protocol.go), step by step: Connection.Close   *)
(* and Channel.Close against the read loop, the write loop, the handle     *)
(* loops, a caller of DoRequest and a newChannel that comes late.          *)
(*                                                                         *)
(* Close marks the connection first and lets go of everything afterwards,  *)
(* one thing after the other: what the others see in between depends on    *)
(* which field they read and when.  A select evaluates its channels once,  *)
(* when it is entered: closeNotify is then the channel or, after Close has *)
(* set the field to nil, a channel that never becomes ready.  Received     *)
(* packets are counted, not told apart, and the packets to write come from *)
(* callers at any time (module Exchange has both queues).                  *)
(***************************************************************************)
EXTENDS Integers, FiniteSets

CONSTANTS
  Chans,     \* the channels
  Before,    \* the channels that are there from the start
  QueueLen,  \* capacity of receivedQueue
  None

ASSUME CloseAssumption ==
  /\ Before \subseteq Chans /\ None \notin Chans
  /\ None \notin {"concurrent map access", "nil tcpConn", "nil err"}
  /\ QueueLen \in Nat \ {0}

VARIABLES
  close,    \* how far Connection.Close is
  at,       \* the channel it is closing
  chan,     \* how far each channel and its Close are
  late,     \* history: channels entered after the range had begun
  loop,     \* where each channel's handle loop is
  queued,   \* the length of each receivedQueue
  rd,       \* where the read loop is
  target,   \* the channel it has a packet for
  wr,       \* where the write loop is
  crashed   \* the panic that ended the program, or None

connVars == <<close, at>>
chanVars == <<chan, late>>
loopVars == <<loop, queued>>
readVars == <<rd, target>>
vars == <<connVars, chanVars, loopVars, readVars, wr, crashed>>

Init ==
  /\ close = "no" /\ at = None
  /\ chan = [k \in Chans |-> IF k \in Before THEN "open" ELSE "new"]
  /\ late = {}
  /\ loop = [k \in Chans |-> IF k \in Before THEN "wait" ELSE "none"]
  /\ queued = [k \in Chans |-> 0]
  /\ rd = "read" /\ target = None
  /\ wr = "wait"
  /\ crashed = None

Running == crashed = None

Closed == close # "no"
\* m.Channels
Channels == {k \in Chans : chan[k] \in {"open", "marked"}}
\* channel.err # nil, and closeNotify closed; the field is nil.
HasErr(k) == chan[k] \in {"forget", "closed"}
ChanForgotten(k) == chan[k] = "closed"
\* closeNotify of the connection is closed; the field is nil.
Notified == close \in {"forget", "drain", "nil", "done"}
Forgotten == close \in {"drain", "nil", "done"}
\* tcpConn.Close has been called.
Shut == close \in {"nil", "done"}

\* The send on a channel's receivedQueue does not block.
HasRoom(n) == n < QueueLen
-----------------------------------------------------------------------------
(* Channel.Close.                                                          *)

\* The closedMark: only the first call goes on.
MarkChan(k) == chan' = [chan EXCEPT ![k] = IF @ = "open" THEN "marked" ELSE @]

\* Connection.Close ranges over Channels without the lock: a delete or an
\* insert of somebody else meanwhile may end the program.
Race(k) ==
  IF close = "range" /\ at # k THEN crashed' \in {None, "concurrent map access"}
                               ELSE UNCHANGED crashed

\* Fault: Connection.Close holds ChannelsLock during the range.
ChanCloseLocked(k) ==
  /\ Running
  /\ \/ chan[k] = "marked" /\ close # "range" /\ chan' = [chan EXCEPT ![k] = "err"]
     \/ chan[k] = "err" /\ chan' = [chan EXCEPT ![k] = "forget"]
     \/ chan[k] = "forget" /\ chan' = [chan EXCEPT ![k] = "closed"]
  /\ UNCHANGED <<connVars, late, loopVars, readVars, wr, crashed>>

\* removeChannel (with ChannelsLock); err and close(closeNotify);
\* closeNotify = nil.
ChanClose(k) ==
  /\ Running
  /\ \/ chan[k] = "marked" /\ chan' = [chan EXCEPT ![k] = "err"] /\ Race(k)
     \/ /\ chan[k] = "err" /\ chan' = [chan EXCEPT ![k] = "forget"]
        /\ UNCHANGED crashed
     \/ /\ chan[k] = "forget" /\ chan' = [chan EXCEPT ![k] = "closed"]
        /\ UNCHANGED crashed
  /\ UNCHANGED <<connVars, late, loopVars, readVars, wr>>

\* The application closes a channel.
AppClosesChan(k) ==
  /\ Running
  /\ chan[k] = "open"
  /\ MarkChan(k)
  /\ UNCHANGED <<connVars, late, loopVars, readVars, wr, crashed>>

\* newChannel enters a channel and starts its loop; it does not ask whether
\* the connection is closed.
NewChannel(k) ==
  /\ Running
  /\ chan[k] = "new"
  /\ chan' = [chan EXCEPT ![k] = "open"]
  /\ loop' = [loop EXCEPT ![k] = "top"]
  /\ late' = IF close \in {"no", "remove"} THEN late ELSE late \cup {k}
  /\ Race(k)
  /\ UNCHANGED <<connVars, queued, readVars, wr>>
-----------------------------------------------------------------------------
(* Connection.Close.  The loop that calls it does nothing else afterwards.   *)

\* The closedMark: only the first call goes on.
MarkConn == close' = IF Closed THEN close ELSE "remove"

\* Client.Close, a failed task.
AppCloses ==
  /\ Running
  /\ ~Closed /\ MarkConn
  /\ UNCHANGED <<at, chanVars, loopVars, readVars, wr, crashed>>

\* removeConnection or removeConn, then the range begins.
CloseRemove ==
  /\ Running
  /\ close = "remove" /\ close' = "range"
  /\ UNCHANGED <<at, chanVars, loopVars, readVars, wr, crashed>>

\* The range comes to k, in any order and perhaps to a late one.  Close does
\* nothing on a channel that is marked.
RangeNext(k) ==
  /\ Running
  /\ close = "range" /\ at = None
  /\ chan[k] = "open"
  /\ at' = k
  /\ MarkChan(k)
  /\ UNCHANGED <<close, late, loopVars, readVars, wr, crashed>>

RangeReturn ==
  /\ Running
  /\ at # None /\ chan[at] = "closed"
  /\ at' = None
  /\ UNCHANGED <<close, chanVars, loopVars, readVars, wr, crashed>>

\* It ends when it has come to everything that was there and still is;
\* close(closeNotify) follows.
RangeEnd ==
  /\ Running
  /\ close = "range" /\ at = None
  /\ \A k \in Chans \ late : chan[k] # "open"
  /\ close' = "forget"
  /\ UNCHANGED <<at, chanVars, loopVars, readVars, wr, crashed>>

\* closeNotify = nil; the drain of the write queue and, deferred,
\* tcpConn.Close; tcpConn = nil.
CloseRest ==
  /\ Running
  /\ \/ close = "forget" /\ close' = "drain"
     \/ close = "drain" /\ close' = "nil"
     \/ close = "nil" /\ close' = "done"
  /\ UNCHANGED <<at, chanVars, loopVars, readVars, wr, crashed>>

Close == CloseRemove \/ (\E k \in Chans : RangeNext(k)) \/ RangeReturn \/ RangeEnd
           \/ CloseRest
-----------------------------------------------------------------------------
(* clientReadLoop and serverReadLoop.                                      *)

\* A packet for k comes, whose channel is looked up first.
Read(k) ==
  /\ Running
  /\ rd = "read" /\ ~Shut
  /\ k \in Channels
  /\ rd' = "push" /\ target' = k
  /\ UNCHANGED <<connVars, chanVars, loopVars, wr, crashed>>

\* The blocking send on receivedQueue, then the check at the loop's top.
ReadPush ==
  /\ Running
  /\ rd = "push" /\ HasRoom(queued[target])
  /\ queued' = [queued EXCEPT ![target] = @ + 1]
  /\ rd' = IF Closed THEN "ended" ELSE "read"
  /\ target' = None
  /\ UNCHANGED <<connVars, chanVars, loop, wr, crashed>>

\* The read fails, or what is read is refused: an id without a channel, a
\* wrong status or length, the close command.  The loop closes the connection.
ReadFails ==
  /\ Running
  /\ rd = "read"
  /\ MarkConn /\ rd' = "ended"
  /\ UNCHANGED <<at, chanVars, loopVars, target, wr, crashed>>
-----------------------------------------------------------------------------
(* writeLoop.                                                              *)

\* The select is entered: with nil for closeNotify it is deaf to Close.
WriteSelect == wr' = IF Forgotten THEN "deaf" ELSE "wait"

\* A packet of some caller: Closed is checked before it is written.
WriteTake ==
  /\ wr \in {"wait", "deaf"}
  /\ wr' = IF Closed THEN "ended" ELSE "use"
  /\ UNCHANGED <<close, crashed>>

WriteNotified ==
  /\ wr = "wait" /\ Notified
  /\ wr' = "ended"
  /\ UNCHANGED <<close, crashed>>

\* SetWriteDeadline and WritePacket, both on the field tcpConn, which may be
\* nil by now; a write may fail, and fails on a socket that is shut.
WriteUse ==
  /\ wr = "use"
  /\ \/ close = "done" /\ crashed' = "nil tcpConn" /\ UNCHANGED <<close, wr>>
     \/ ~Shut /\ WriteSelect /\ UNCHANGED <<close, crashed>>
     \/ close # "done" /\ MarkConn /\ wr' = "ended" /\ UNCHANGED crashed

WriteEnd ==
  /\ Running
  /\ WriteNotified \/ WriteUse
  /\ UNCHANGED <<at, chanVars, loopVars, readVars>>

WriteNext ==
  /\ Running
  /\ WriteTake
  /\ UNCHANGED <<at, chanVars, loopVars, readVars>>
-----------------------------------------------------------------------------
(* handleServerLoop and handleClientLoop of channel k.                     *)

LoopSelect(k) ==
  loop' = [loop EXCEPT ![k] = IF ChanForgotten(k) THEN "deaf" ELSE "wait"]

\* The loop is in its select, and not in a Close of its own.
Selecting(k) == loop[k] = "wait" \/ (loop[k] = "deaf" /\ ChanForgotten(k))

\* The ticker: once a second a look at the connection, and the select again,
\* which may miss a closeNotify that has been closed and set to nil.
LoopTick(k) ==
  /\ Selecting(k)
  /\ IF Closed THEN loop' = [loop EXCEPT ![k] = "ended"] ELSE LoopSelect(k)
  /\ UNCHANGED <<queued, chan>>

LoopNotified(k) ==
  /\ loop[k] = "wait" /\ HasErr(k)
  /\ loop' = [loop EXCEPT ![k] = "ended"]
  /\ UNCHANGED <<queued, chan>>

LoopTake(k) ==
  /\ Selecting(k) /\ queued[k] > 0
  /\ queued' = [queued EXCEPT ![k] = @ - 1]
  /\ loop' = [loop EXCEPT ![k] = "handle"]
  /\ UNCHANGED chan

\* Fault: the loop waits for its channel's caller to go away.
LoopHandleBlocks(k) ==
  /\ loop[k] = "handle" /\ HasErr(k)
  /\ LoopSelect(k)
  /\ UNCHANGED <<queued, chan>>

\* The packet is handled.  The loop goes on; or there is no request for it,
\* and it closes the channel and returns; or its answer finds the connection
\* closed: SendPacket closes the channel, and the loop goes on after that.
LoopHandle(k) ==
  /\ loop[k] = "handle"
  /\ \/ LoopSelect(k) /\ UNCHANGED chan
     \/ loop' = [loop EXCEPT ![k] = "ended"] /\ MarkChan(k)
     \/ /\ Closed /\ chan[k] = "open"
        /\ loop' = [loop EXCEPT ![k] = "deaf"] /\ MarkChan(k)
  /\ UNCHANGED queued

Loop(k) ==
  /\ Running
  /\ \/ loop[k] = "top" /\ LoopSelect(k) /\ UNCHANGED <<queued, chan>>
     \/ LoopTick(k) \/ LoopNotified(k) \/ LoopTake(k) \/ LoopHandle(k)
  /\ UNCHANGED <<connVars, late, readVars, wr, crashed>>
-----------------------------------------------------------------------------
(* A caller of DoRequest or DoStreamRequest.                               *)

\* err is nil and the connection closed: the error message has err.Error(),
\* which is a panic.  (A caller that passes both checks sends a packet, or
\* finds the connection closed and closes the channel like AppClosesChan.)
CallOnClosed(k) ==
  /\ Running
  /\ chan[k] # "new" /\ ~HasErr(k) /\ Closed
  /\ crashed' = "nil err"
  /\ UNCHANGED <<connVars, chanVars, loopVars, readVars, wr>>
-----------------------------------------------------------------------------
Next ==
  \/ AppCloses \/ Close \/ ReadPush \/ ReadFails \/ WriteNext \/ WriteEnd
  \/ \E k \in Chans : \/ ChanClose(k) \/ AppClosesChan(k) \/ NewChannel(k)
                      \/ Read(k) \/ Loop(k) \/ CallOnClosed(k)

Spec == Init /\ [][Next]_vars

\* Every goroutine that can go on goes on; a read fails once the socket is
\* shut.  No packet has to come and nobody has to call.
FairSpec ==
  /\ Spec
  /\ WF_vars(Close) /\ WF_vars(WriteEnd)
  /\ WF_vars(ReadPush) /\ WF_vars(Shut /\ ReadFails)
  /\ \A k \in Chans : WF_vars(ChanClose(k)) /\ WF_vars(Loop(k))
-----------------------------------------------------------------------------
(* Properties.                                                             *)

\* Everything ends with the connection: Connection.Close comes to its end,
\* where the socket is closed, whatever the channels, queues and loops do; so
\* do the handle loops, also one that reads closeNotify as nil and one started
\* after Close, by the ticker.  Two loops may be left for ever: a write loop
\* that entered its select after closeNotify was set to nil, and a read loop
\* that waits for room in the queue of a channel without a handle loop.
ClosesDown ==
  Closed ~> \/ ~Running
            \/ /\ close = "done"
               /\ \A k \in Chans : loop[k] \in {"none", "ended"}
               /\ wr \in {"deaf", "ended"}
               /\ rd = "ended" \/ (rd = "push" /\ loop[target] = "ended")

\* The read loop that waits for room in a channel's queue gets on, or that
\* channel's handle loop has ended and will never make room.
ReaderGetsOn ==
  rd = "push" ~> (rd # "push" \/ loop[target] = "ended" \/ ~Running)
=============================================================================
