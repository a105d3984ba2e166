------------------------------- MODULE Service -------------------------------
(***************************************************************************)
(* What a ClientChannel promises to the program that uses it, with nothing *)
(* of how it is done: requests are answered one after the other in the     *)
(* order in which they were asked, a path handler sees each response with  *)
(* the request it answers, and DoRequest returns a response only after     *)
(* that.  The promise ends with the first packet that is lost; what        *)
(* DoRequest returns is promised until the first call gives up.            *)
(*                                                                         *)
(* Module Exchange implements it.                                          *)
(***************************************************************************)
EXTENDS Integers, Sequences

CONSTANTS
  Requests,  \* the calls, each made once
  None       \* no response

VARIABLES
  outstanding,  \* the requests that are not answered, the oldest first
  handled,      \* the response given to the path handler for each request
  returned,     \* the response each DoRequest returned
  lost,         \* a packet was lost
  late,         \* a call gave up waiting
  closed        \* the channel or the connection was closed

vars == <<outstanding, handled, returned, lost, late, closed>>

Init ==
  /\ outstanding = <<>>
  /\ handled = [r \in Requests |-> None]
  /\ returned = [r \in Requests |-> None]
  /\ lost = FALSE /\ late = FALSE /\ closed = FALSE

Ask(r) ==
  /\ outstanding' = Append(outstanding, r)
  /\ UNCHANGED <<handled, returned, lost, late, closed>>

\* A request that could not be sent is taken back: only the newest, and only
\* once the channel is closed.
Withdraw ==
  /\ closed
  /\ outstanding # <<>>
  /\ outstanding' = SubSeq(outstanding, 1, Len(outstanding) - 1)
  /\ UNCHANGED <<handled, returned, lost, late, closed>>

\* The oldest request is answered, by its own response unless one was lost.
Answer(response) ==
  /\ outstanding # <<>>
  /\ lost \/ response = Head(outstanding)
  /\ outstanding' = Tail(outstanding)
  /\ handled' = [handled EXCEPT ![Head(outstanding)] = response]
  /\ UNCHANGED <<returned, lost, late, closed>>

\* DoRequest returns: its own response, which the path handler has seen.
Return(r, response) ==
  /\ returned[r] = None
  /\ lost \/ late \/ (response = r /\ handled[r] = r)
  /\ returned' = [returned EXCEPT ![r] = response]
  /\ UNCHANGED <<outstanding, handled, lost, late, closed>>

Lose   == lost' = TRUE /\ UNCHANGED <<outstanding, handled, returned, late, closed>>
GiveUp == late' = TRUE /\ UNCHANGED <<outstanding, handled, returned, lost, closed>>
Close  == closed' = TRUE /\ UNCHANGED <<outstanding, handled, returned, lost, late>>

Next ==
  \/ \E r \in Requests : Ask(r) \/ Answer(r) \/ \E s \in Requests : Return(r, s)
  \/ Withdraw \/ Lose \/ GiveUp \/ Close

Spec == Init /\ [][Next]_vars
=============================================================================
