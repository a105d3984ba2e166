----------------------------- MODULE LoadBalance -----------------------------
(***************************************************************************)
(* LoadBalanceClient (lbclient.go): how DoRequest and DoRequest2 choose a  *)
(* backend, and what they note about it afterwards.  A backend is an       *)
(* EvaluatedClient; how it gets a connection is in ConnPool, here          *)
(* getTaskChannel succeeds or fails.  The list of backends is the one that *)
(* NewLoadBalanceClient makes, with the default health check.              *)
(*                                                                         *)
(* A program uses DoRequest or DoRequest2: api says which.  The loop over  *)
(* the backends in a choice is one step after the one that reads           *)
(* roundrobinIndex.  The two increments of pendingRequests that DoRequest2 *)
(* and EvaluatedClient.DoRequest make are one, and so are the decrements.  *)
(***************************************************************************)
EXTENDS Integers, Sequences, FiniteSets, SequencesExt, FiniteSetsExt

CONSTANTS
  Clients,      \* m.activeClients, the list of backends
  Callers,      \* goroutines that call DoRequest or DoRequest2
  NoBackend,    \* nil
  PauseErrors,  \* a backend with more errors in a row is paused: 5
  MaxFails      \* bound: health checks that fail before one must pass

Backends == ToSet(Clients)

ASSUME LoadBalanceAssumption ==
  /\ IsInjective(Clients) /\ Clients # <<>>
  /\ NoBackend \notin Backends
  /\ PauseErrors \in Nat /\ MaxFails \in Nat

VARIABLES
  api,              \* "DoRequest" or "DoRequest2"
  method,           \* m.method
  roundrobinIndex,  \* m.roundrobinIndex
  paused,           \* the backends that are paused
  recent,           \* the backends with lastRequest in the last 5 seconds,
                    \* the oldest first
  errors,           \* requestErrorCount
  pending,          \* pendingRequests
  fails,            \* healthCheckFailCount
  pc, on, seen, ok  \* the callers: step, backend, value read, result

backendVars == <<paused, recent, errors, pending, fails>>
callVars == <<pc, on, seen, ok>>
vars == <<api, method, roundrobinIndex, backendVars, callVars>>

Init ==
  /\ api \in {"DoRequest", "DoRequest2"}
  /\ method = "minpending"
  /\ roundrobinIndex = 0
  /\ paused = {} /\ recent = <<>>
  /\ errors = [b \in Backends |-> 0]
  /\ pending = [b \in Backends |-> 0]
  /\ fails = [b \in Backends |-> 0]
  /\ pc = [k \in Callers |-> "idle"]
  /\ on = [k \in Callers |-> NoBackend]
  /\ seen = [k \in Callers |-> 0]
  /\ ok = [k \in Callers |-> TRUE]
-----------------------------------------------------------------------------
(* The choice of a backend, under clientsLock for reading.                 *)

\* SetMethod: DoRequest does not look at it.
SetMethod(m) ==
  /\ api = "DoRequest2"
  /\ method' = m
  /\ UNCHANGED <<api, roundrobinIndex, backendVars, callVars>>

Goto(k, at) == pc' = [pc EXCEPT ![k] = at]

\* PendingRequests: failed health checks count, too.
PendingRequests(b) == pending[b] + fails[b]

\* A call begins by reading roundrobinIndex.
Load(k) ==
  /\ pc[k] = "idle"
  /\ Goto(k, "choosing")
  /\ seen' = [seen EXCEPT ![k] = roundrobinIndex]
  /\ UNCHANGED <<api, method, roundrobinIndex, backendVars, on, ok>>

\* The places of the list in the order in which a loop that starts at place i
\* (counted from 0) visits them.
From(i) ==
  [n \in 1 .. Len(Clients) |-> ((i + n - 1) % Len(Clients)) + 1]

\* Of places in visiting order the first with the fewest pending requests.
Least(places) ==
  LET Load0(n) == PendingRequests(Clients[places[n]])
      least == Min({Load0(n) : n \in DOMAIN places})
  IN  Min({n \in DOMAIN places : Load0(n) = least})

\* getTaskClient: not paused, or without a request for 5 seconds.
Eligible(b) == b \notin paused \/ b \notin ToSet(recent)

\* Fault: the loop starts at the backend chosen last.
StartStays(i) == IF i >= Len(Clients) THEN 0 ELSE i

\* Where getTaskClient's loop starts: one further, or back at 0.
Start(i) == IF i + 1 >= Len(Clients) THEN 0 ELSE i + 1

\* getTaskClient: round from there to the first eligible backend with
\* nothing pending, else the eligible one with least.  roundrobinIndex is
\* where the loop ended.
GetTaskClient(k, b) ==
  LET places == From(Start(seen[k]))
      open == SelectSeq(places, LAMBDA p : Eligible(Clients[p]))
      idle == {n \in DOMAIN places :
                 /\ Eligible(Clients[places[n]])
                 /\ PendingRequests(Clients[places[n]]) = 0}
  IN  /\ open # <<>>
      /\ b = Clients[open[Least(open)]]
      /\ roundrobinIndex' = (IF idle # {} THEN places[Min(idle)]
                             ELSE places[Len(places)]) - 1

NoTaskClient == \A b \in Backends : ~Eligible(b)

\* roundrobinIndex + 1, which DoRequest2 only looks at modulo the length.
Bumped == (roundrobinIndex + 1) % Len(Clients)

\* selectBackend.  Random, IpHash, URIParam and JsonExp may yield any backend.
SelectBackend(k, b) ==
  LET places == From(seen[k])
  IN  \/ /\ method = "roundrobin"
         /\ b = Clients[places[1]]
         /\ roundrobinIndex' = Bumped
      \/ /\ method = "minpending"
         /\ b = Clients[places[Least(places)]]
         /\ roundrobinIndex' = Bumped
      \/ /\ method = "any"
         /\ b \in Backends
         /\ UNCHANGED roundrobinIndex

\* A backend is chosen ...
Choose(k, b) ==
  /\ pc[k] = "choosing"
  /\ IF api = "DoRequest" THEN GetTaskClient(k, b) ELSE SelectBackend(k, b)
  /\ Goto(k, "chosen")
  /\ on' = [on EXCEPT ![k] = b]
  /\ seen' = [seen EXCEPT ![k] = 0]
  /\ UNCHANGED <<api, method, backendVars, ok>>

\* ... or none: no alived client, no valid URI, no expression, no such alias.
ChooseNone(k) ==
  /\ pc[k] = "choosing"
  /\ IF api = "DoRequest"
     THEN /\ NoTaskClient
          /\ roundrobinIndex' = From(Start(seen[k]))[Len(Clients)] - 1
     ELSE method = "any" /\ UNCHANGED roundrobinIndex
  /\ Goto(k, "idle")
  /\ seen' = [seen EXCEPT ![k] = 0]
  /\ UNCHANGED <<api, method, backendVars, on, ok>>
-----------------------------------------------------------------------------
(* The request, and what is noted about the backend.                       *)

\* DoRequest2 counts a request twice.
Weight == IF api = "DoRequest" THEN 1 ELSE 2

Begin(k) ==
  /\ pc[k] = "chosen"
  /\ Goto(k, "channel")
  /\ pending' = [pending EXCEPT ![on[k]] = @ + Weight]
  /\ UNCHANGED <<api, method, roundrobinIndex, paused, recent, errors,
                 fails, on, seen, ok>>

\* The deferred decrement and the result.
End(k, result) ==
  /\ Goto(k, "ended")
  /\ ok' = [ok EXCEPT ![k] = result]
  /\ pending' = [pending EXCEPT ![on[k]] = @ - Weight]

\* The bound on health checks: no more requests fail on a backend.
MayFail(b) == api = "DoRequest2" => fails[b] < MaxFails

\* Fault: the decrement is left out when there is no channel.
NoChannelKeepsPending(k) ==
  /\ pc[k] = "channel"
  /\ MayFail(on[k])
  /\ Goto(k, "ended")
  /\ ok' = [ok EXCEPT ![k] = FALSE]
  /\ paused' = paused \cup {on[k]}
  /\ UNCHANGED <<api, method, roundrobinIndex, recent, errors, pending, fails,
                 on, seen>>

\* getTaskChannel fails: paused, but lastRequest is left as it was.
NoChannel(k) ==
  /\ pc[k] = "channel"
  /\ MayFail(on[k])
  /\ End(k, FALSE)
  /\ paused' = paused \cup {on[k]}
  /\ UNCHANGED <<api, method, roundrobinIndex, recent, errors, fails,
                 on, seen>>

\* A channel: no longer paused, lastRequest is now.
GotChannel(k) ==
  /\ pc[k] = "channel"
  /\ Goto(k, "request")
  /\ paused' = paused \ {on[k]}
  /\ recent' = Append(SelectSeq(recent, LAMBDA b : b # on[k]), on[k])
  /\ UNCHANGED <<api, method, roundrobinIndex, errors, pending, fails,
                 on, seen, ok>>

Answered(k, result) ==
  /\ pc[k] = "request"
  /\ result \/ MayFail(on[k])
  /\ End(k, result)
  /\ UNCHANGED <<api, method, roundrobinIndex, paused, recent, errors,
                 fails, on, seen>>

\* Five seconds after the oldest lastRequest.
Elapse ==
  /\ recent # <<>>
  /\ recent' = Tail(recent)
  /\ UNCHANGED <<api, method, roundrobinIndex, paused, errors, pending,
                 fails, callVars>>

Done(k) ==
  /\ Goto(k, "idle")
  /\ on' = [on EXCEPT ![k] = NoBackend]
  /\ seen' = [seen EXCEPT ![k] = 0]
  /\ ok' = [ok EXCEPT ![k] = TRUE]

\* DoRequest after an answer: the errors in a row are forgotten.
NoteSuccess(k) ==
  /\ api = "DoRequest"
  /\ pc[k] = "ended" /\ ok[k]
  /\ errors' = [errors EXCEPT ![on[k]] = 0]
  /\ paused' = paused \ {on[k]}
  /\ Done(k)
  /\ UNCHANGED <<api, method, roundrobinIndex, recent, pending, fails>>

\* What is read to be counted up (requestErrorCount) or halved
\* (healthCheckFailCount) and written in a later step.
ReadCount(k) ==
  /\ pc[k] = "ended"
  /\ ok[k] = (api = "DoRequest2")
  /\ Goto(k, "read")
  /\ seen' = [seen EXCEPT ![k] = IF api = "DoRequest" THEN errors[on[k]]
                                                      ELSE fails[on[k]]]
  /\ UNCHANGED <<api, method, roundrobinIndex, backendVars, on, ok>>

\* DoRequest after an error.  Beyond PauseErrors the count does not matter.
NoteError(k) ==
  /\ api = "DoRequest"
  /\ pc[k] = "read"
  /\ errors' = [errors EXCEPT ![on[k]] = Min({seen[k] + 1, PauseErrors + 1})]
  /\ paused' = IF errors'[on[k]] > PauseErrors THEN paused \cup {on[k]}
                                               ELSE paused
  /\ Done(k)
  /\ UNCHANGED <<api, method, roundrobinIndex, recent, pending, fails>>

\* DoRequest2 after a failed health check, an atomic increment ...
NoteUnhealthy(k) ==
  /\ api = "DoRequest2"
  /\ pc[k] = "ended" /\ ~ok[k]
  /\ fails' = [fails EXCEPT ![on[k]] = @ + 1]
  /\ Done(k)
  /\ UNCHANGED <<api, method, roundrobinIndex, paused, recent, errors,
                 pending>>

\* ... and after a passed one.
NoteHealthy(k) ==
  /\ api = "DoRequest2"
  /\ pc[k] = "read"
  /\ fails' = [fails EXCEPT ![on[k]] = seen[k] \div 2]
  /\ Done(k)
  /\ UNCHANGED <<api, method, roundrobinIndex, paused, recent, errors,
                 pending>>
-----------------------------------------------------------------------------
Methods == {"roundrobin", "minpending", "any"}

\* A call from the choice on.
Proceed(k) ==
  \/ \E b \in Backends : Choose(k, b)
  \/ ChooseNone(k) \/ Begin(k) \/ NoChannel(k) \/ GotChannel(k)
  \/ \E result \in BOOLEAN : Answered(k, result)
  \/ NoteSuccess(k) \/ ReadCount(k) \/ NoteError(k)
  \/ NoteUnhealthy(k) \/ NoteHealthy(k)

Next ==
  \/ \E m \in Methods : SetMethod(m)
  \/ \E k \in Callers : Load(k) \/ Proceed(k)
  \/ Elapse

Spec == Init /\ [][Next]_vars

\* A call that has begun goes on, and time passes.
Fairness == (\A k \in Callers : WF_vars(Proceed(k))) /\ WF_vars(Elapse)
FairSpec == Spec /\ Fairness
-----------------------------------------------------------------------------
(* Properties.                                                             *)

\* pendingRequests, which steers the choice, counts exactly the requests under
\* way on a backend, on the paths where they fail, too: it does not drift.
PendingExact ==
  \A b \in Backends :
    pending[b] = Weight * Cardinality({k \in Callers :
                   on[k] = b /\ pc[k] \in {"channel", "request"}})

\* A call chooses backend b, or any.
ServedBy(b) == \E k \in Callers : Choose(k, b)
Served == \E b \in Backends : ServedBy(b)

\* DoRequest goes round the backends: as long as it chooses backends it
\* chooses each one again and again, paused in between or not, whatever other
\* calls add to pendingRequests and to the index meanwhile.
DoRequestGoesRound ==
  \A b \in Backends :
    (api = "DoRequest" /\ []<><<Served>>_vars) => []<><<ServedBy(b)>>_vars

\* What the comment on NewLoadBalanceClient says: the work is dealt out to the
\* servers in turn.  With DoRequest2 and its default method a backend that
\* failed one health check counts as loaded, is not chosen while another is
\* idle, and so never passes a check that would halve the count, even when no
\* backend fails any more.
WorkGoesRound ==
  \A b \in Backends :
    (/\ [](method = "minpending")
     /\ <>[][\A k \in Callers : ~NoteUnhealthy(k)]_vars
     /\ []<><<Served>>_vars) => []<><<ServedBy(b)>>_vars
=============================================================================
