------------------------------- MODULE Measure -------------------------------
(***************************************************************************)
(* Measure (statis.go), the requests of the last five minutes: a ring of   *)
(* slots, one for a second, that the goroutine tickTack advances and       *)
(* clears without a lock, while Add, which only shares a read lock with    *)
(* other Adds, counts requests in the slot it found.                       *)
(*                                                                         *)
(* A counter is the set of the Adds it counted: its value is the size of   *)
(* the set.  FiveMinuteDuration goes with FiveMinuteRequests, and the      *)
(* ranges of a TimeCount are not told apart.  tickTack compares seconds    *)
(* within the minute, so that it misses all but one of the seconds during  *)
(* which it did not run, or all of them.                                   *)
(*                                                                         *)
(* String shares the read lock with Adds and adds up slot after slot while *)
(* they count and tickTack clears; one call of it, at any time, is         *)
(* modelled.  Json only reads.                                             *)
(***************************************************************************)
EXTENDS Integers

CONSTANTS
  Adds,      \* the calls of Add
  LastSlot,  \* the last slot: 300
  Minute,    \* the seconds of a minute: 60
  MaxClock   \* bound on the time

ASSUME MeasureAssumption ==
  /\ LastSlot \in Nat /\ LastSlot > 1
  /\ Minute \in Nat /\ Minute > 1
  /\ MaxClock \in Nat

VARIABLES
  clock,               \* the time in seconds
  tm,                  \* tickTack: the second of the minute it saw last
  tick,                \* where tickTack is
  currentSecond,       \* m.currentSecond
  fiveMinuteRequests,  \* m.FiveMinuteRequests
  fiveMinuteTimeCount, \* m.FiveMinuteTimeCount
  add,                 \* where each Add is
  idx,                 \* the slot it has read
  began,               \* history: the time at which it read it
  slow,                \* history: Adds that took longer than the ring
  stalled,             \* history: a second passed that tickTack did not see
  string,              \* where String is
  slot,                \* its idx
  round,               \* its i
  req5,                \* what it added to req5 in each of its rounds
  calledAt,               \* history: the time at which it began
  due                  \* history: the Adds that were done by then

timeVars == <<clock, stalled>>
tickVars == <<tm, tick, currentSecond>>
addVars == <<add, idx, began, slow>>
stringVars == <<string, slot, round, req5, calledAt, due>>
measureVars ==
  <<timeVars, tickVars, addVars, fiveMinuteRequests, fiveMinuteTimeCount,
    stringVars>>

Slots == 0 .. LastSlot

\* The rounds of String's loop: one fewer than there are slots.
StringRounds == 0 .. LastSlot - 1

MeasureInit ==
  /\ clock = 0 /\ stalled = FALSE
  /\ tm = 0 /\ tick = "wait" /\ currentSecond = 0
  /\ fiveMinuteRequests = [s \in Slots |-> {}]
  /\ fiveMinuteTimeCount = [s \in Slots |-> {}]
  /\ add = [a \in Adds |-> "new"]
  /\ idx = [a \in Adds |-> 0] /\ began = [a \in Adds |-> 0]
  /\ slow = {}
  /\ string = "new" /\ slot = 0 /\ round = 0 /\ req5 = [i \in StringRounds |-> {}]
  /\ calledAt = 0 /\ due = {}

Elapse ==
  /\ clock < MaxClock
  /\ clock' = clock + 1
  /\ stalled' = (stalled \/ tick # "wait" \/ tm # clock % Minute)
  /\ UNCHANGED <<tickVars, addVars, fiveMinuteRequests, fiveMinuteTimeCount,
                 stringVars>>
-----------------------------------------------------------------------------
(* tickTack.                                                               *)

NextSlot(i) == IF i + 1 > LastSlot THEN 0 ELSE i + 1

\* Fault: the slot that is about to be used is cleared, not the next one.
ClearedNow == currentSecond
\* The slot that the second after this one will use.
Cleared == NextSlot(currentSecond)

\* The ticker: one step of the ring, however many seconds have passed.
Tick ==
  /\ tick = "wait" /\ clock % Minute # tm
  /\ currentSecond' = NextSlot(currentSecond)
  /\ tm' = clock % Minute
  /\ tick' = "requests"
  /\ UNCHANGED <<timeVars, addVars, fiveMinuteRequests, fiveMinuteTimeCount,
                 stringVars>>

\* FiveMinuteRequests and FiveMinuteDuration of the next slot.
TickRequests ==
  /\ tick = "requests" /\ tick' = "timecount"
  /\ fiveMinuteRequests' = [fiveMinuteRequests EXCEPT ![Cleared] = {}]
  /\ UNCHANGED <<timeVars, tm, currentSecond, addVars, fiveMinuteTimeCount,
                 stringVars>>

\* Fault: Clear is left out.
TickTimeCountKept ==
  /\ tick = "timecount" /\ tick' = "wait"
  /\ UNCHANGED <<timeVars, tm, currentSecond, addVars, fiveMinuteRequests,
                 fiveMinuteTimeCount, stringVars>>

\* TimeCount.Clear, and the loop waits for the ticker.
TickTimeCount ==
  /\ tick = "timecount" /\ tick' = "wait"
  /\ fiveMinuteTimeCount' = [fiveMinuteTimeCount EXCEPT ![Cleared] = {}]
  /\ UNCHANGED <<timeVars, tm, currentSecond, addVars, fiveMinuteRequests,
                 stringVars>>
-----------------------------------------------------------------------------
(* Add.                                                                    *)

AddBegin(a) ==
  /\ add[a] = "new"
  /\ add' = [add EXCEPT ![a] = "requests"]
  /\ idx' = [idx EXCEPT ![a] = currentSecond]
  /\ began' = [began EXCEPT ![a] = clock]
  /\ UNCHANGED <<timeVars, tickVars, slow, fiveMinuteRequests,
                 fiveMinuteTimeCount, stringVars>>

\* Every slot is used again after Last + 1 ticks and cleared one before.
SlowNow(a) == IF clock - began[a] >= LastSlot - 1 THEN slow \cup {a} ELSE slow

AddRequests(a) ==
  /\ add[a] = "requests"
  /\ add' = [add EXCEPT ![a] = "timecount"]
  /\ fiveMinuteRequests' = [fiveMinuteRequests EXCEPT ![idx[a]] = @ \cup {a}]
  /\ slow' = SlowNow(a)
  /\ UNCHANGED <<timeVars, tickVars, idx, began, fiveMinuteTimeCount, stringVars>>

\* TimeCount.Record, and the return.
AddTimeCount(a) ==
  /\ add[a] = "timecount"
  /\ add' = [add EXCEPT ![a] = "done"]
  /\ fiveMinuteTimeCount' = [fiveMinuteTimeCount EXCEPT ![idx[a]] = @ \cup {a}]
  /\ slow' = SlowNow(a)
  /\ UNCHANGED <<timeVars, tickVars, idx, began, fiveMinuteRequests, stringVars>>
-----------------------------------------------------------------------------
(* String.                                                                 *)

StringBegin ==
  /\ string = "new" /\ string' = "sum"
  /\ slot' = currentSecond
  /\ calledAt' = clock
  /\ due' = {a \in Adds : add[a] = "done"}
  /\ UNCHANGED <<timeVars, tickVars, addVars, fiveMinuteRequests,
                 fiveMinuteTimeCount, round, req5>>

\* Fault: it wraps another slot too early.
NextReadEarly(i) == IF i + 1 >= LastSlot - 1 THEN 0 ELSE i + 1
\* It wraps one slot before tickTack does.
NextRead(i) == IF i + 1 >= LastSlot THEN 0 ELSE i + 1

\* One round of the loop; the last one ends it.
StringRound ==
  /\ string = "sum"
  /\ req5' = [req5 EXCEPT ![round] = fiveMinuteRequests[slot]]
  /\ slot' = NextRead(slot)
  /\ round' = round + 1
  /\ string' = IF round' = LastSlot THEN "done" ELSE "sum"
  /\ UNCHANGED <<timeVars, tickVars, addVars, fiveMinuteRequests,
                 fiveMinuteTimeCount, calledAt, due>>
-----------------------------------------------------------------------------
MeasureNext ==
  \/ Elapse \/ Tick \/ TickRequests \/ TickTimeCount
  \/ \E a \in Adds : AddBegin(a) \/ AddRequests(a) \/ AddTimeCount(a)
  \/ StringBegin \/ StringRound

MeasureSpec == MeasureInit /\ [][MeasureNext]_measureVars
-----------------------------------------------------------------------------
(* Properties.                                                             *)

\* A request stays in the ring for five minutes, less two seconds, whatever
\* slots tickTack clears and however Add and tickTack interleave; and, as long
\* as tickTack sees every second, not longer than five minutes.  An Add that
\* takes that long itself is excepted.
WindowKept ==
  /\ \A a \in Adds :
       (add[a] \in {"timecount", "done"} /\ clock - began[a] < LastSlot - 1) =>
         a \in fiveMinuteRequests[idx[a]]
  /\ ~stalled => \A s \in Slots : \A a \in fiveMinuteRequests[s] \ slow :
                   clock - began[a] <= LastSlot

\* Requests and time counts are cleared and counted at different times, and
\* still Json, which waits for all Adds, finds the same requests in both, but
\* in the slot that tickTack is clearing.
JsonAgrees ==
  \A a \in Adds \ slow : add[a] = "done" =>
    \A s \in Slots : (tick = "wait" \/ s # Cleared) =>
      (a \in fiveMinuteRequests[s] <=> a \in fiveMinuteTimeCount[s])

\* Although tickTack clears slots and Adds count in them while String adds them
\* up, it counts no request twice, and, as long as tickTack sees every second,
\* none that began more than five minutes before String.
CountedOnce ==
  /\ \A i, j \in StringRounds : i # j => req5[i] \cap req5[j] = {}
  /\ ~stalled => \A i \in StringRounds : \A a \in req5[i] \ slow :
                   calledAt - began[a] <= LastSlot

\* What the comment of FiveMinuteRequests ("the number of requests of the last
\* five minutes") and String's text ("5 minute requests") say: a request that
\* was done when String began, and is in the window still when it has added up
\* all slots, is counted, if tickTack has seen every second.
CountsWindow ==
  string = "done" /\ ~stalled =>
    \A a \in due : clock - began[a] < LastSlot - 1 => \E i \in StringRounds : a \in req5[i]
=============================================================================
