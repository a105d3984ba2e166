------------------------- MODULE LoadBalanceProofs -------------------------
(***************************************************************************)
(* Proofs about LoadBalance, for any list of backends and any set of       *)
(* callers; about Registry, where the list of backends is made; and about  *)
(* HttpAdapter, whose requests load balancing clients serve.  The three    *)
(* have no variables or constants in common.                               *)
(***************************************************************************)
EXTENDS LoadBalance, Registry, HttpAdapter, FiniteSetTheorems, SequenceTheorems,
        WellFoundedInduction, TLAPS

\* The callers with a request under way on backend b.
Busy(b) == {k \in Callers : on[k] = b /\ pc[k] \in {"channel", "request"}}

\* What the proofs need of the types: a caller past the choice has a backend.
Types ==
  /\ api \in {"DoRequest", "DoRequest2"}
  /\ pc \in [Callers -> {"idle", "choosing", "chosen", "channel", "request", "ended", "read"}]
  /\ on \in [Callers -> Backends \cup {NoBackend}]
  /\ \A k \in Callers : pc[k] \in {"chosen", "channel", "request", "ended", "read"} =>
                          on[k] \in Backends
  /\ pending \in [Backends -> Int]

\* Only finitely many calls have begun at any time.
FinitelyBusy == \A b \in Backends : IsFiniteSet(Busy(b))

IInv == Types /\ FinitelyBusy /\ PendingExact

\* The steps that leave alone who is busy with what.
LEMMA KeepsBusy ==
  ASSUME IInv, NEW k \in Callers,
         \A j \in Callers \ {k} : on'[j] = on[j] /\ pc'[j] = pc[j],
         \/ on'[k] = on[k] /\ pc[k] \in {"channel", "request"} /\ pc'[k] \in {"channel", "request"}
         \/ pc[k] \notin {"channel", "request"} /\ pc'[k] \notin {"channel", "request"},
         UNCHANGED <<api, pending>>
  PROVE  FinitelyBusy' /\ PendingExact'
<1>1. \A b \in Backends : Busy(b)' = Busy(b)
  BY DEF Busy
<1>2. Weight' = Weight
  BY DEF Weight
<1>3. FinitelyBusy'
  BY <1>1 DEF IInv, FinitelyBusy
<1>4. PendingExact'
  BY <1>1, <1>2 DEF IInv, PendingExact, Busy
<1> QED  BY <1>3, <1>4

\* It is enough to look at the backend whose requests change.
LEMMA Recounted ==
  ASSUME IInv, NEW a \in Backends, Weight' = Weight,
         \A b \in Backends \ {a} : Busy(b)' = Busy(b) /\ pending'[b] = pending[b],
         IsFiniteSet(Busy(a)'), pending'[a] = Weight * Cardinality(Busy(a)')
  PROVE  FinitelyBusy' /\ PendingExact'
<1>1. \A b \in Backends : IsFiniteSet(Busy(b)')
  BY DEF IInv, FinitelyBusy
<1>2. \A b \in Backends : pending'[b] = Weight * Cardinality(Busy(b)')
  <2>1. \A b \in Backends : pending[b] = Weight * Cardinality(Busy(b))
    BY DEF IInv, PendingExact, Busy
  <2> QED  BY <2>1
<1>3. FinitelyBusy'
  BY <1>1 DEF FinitelyBusy
<1>4. PendingExact'
  BY <1>2 DEF PendingExact, Busy
<1> QED  BY <1>3, <1>4

\* A request that begins, or ends, is counted where it is.
LEMMA CountsBusy ==
  ASSUME IInv, NEW k \in Callers, on[k] \in Backends, UNCHANGED <<api, on>>,
         \A j \in Callers \ {k} : pc'[j] = pc[j],
         \/ /\ pc[k] = "chosen" /\ pc'[k] = "channel"
            /\ pending' = [pending EXCEPT ![on[k]] = @ + Weight]
         \/ /\ pc[k] \in {"channel", "request"} /\ pc'[k] = "ended"
            /\ pending' = [pending EXCEPT ![on[k]] = @ - Weight]
  PROVE  FinitelyBusy' /\ PendingExact'
<1> DEFINE a == on[k]
           B == Busy(a)
<1>a. a \in Backends
  OBVIOUS
<1>v. Weight' = Weight
  BY DEF Weight
<1>t. Weight \in Int /\ pending \in [Backends -> Int]
  BY DEF IInv, Types, Weight
<1>b. IsFiniteSet(B) /\ pending[a] = Weight * Cardinality(B)
  BY DEF IInv, FinitelyBusy, PendingExact, Busy
<1>c. Cardinality(B) \in Nat
  BY <1>b, FS_CardinalityType
<1>1. \A b \in Backends \ {a} : Busy(b)' = Busy(b) /\ pending'[b] = pending[b]
  <2>1. \A b \in Backends \ {a} : Busy(b)' = Busy(b)
    BY DEF Busy
  <2>2. \A b \in Backends \ {a} : pending'[b] = pending[b]
    BY <1>t
  <2> QED  BY <2>1, <2>2
<1>w. \A w \in Int, n \in Int : w * (n + 1) = w * n + w /\ w * (n - 1) = w * n - w
  OBVIOUS
<1>2. CASE pc[k] = "chosen"
  <2>1. k \notin B /\ B' = B \cup {k}
    <3>1. pc'[k] = "channel" /\ UNCHANGED on
      BY <1>2
    <3>2. \A j \in Callers \ {k} : pc'[j] = pc[j]
      OBVIOUS
    <3> QED  BY <1>2, <3>1, <3>2 DEF Busy
  <2>2. pending'[a] = pending[a] + Weight
    <3>1. pending' = [pending EXCEPT ![a] = @ + Weight]
      BY <1>2
    <3> QED  BY <1>a, <1>t, <3>1
  <2> HIDE DEF B
  <2>3. IsFiniteSet(B \cup {k}) /\ Cardinality(B \cup {k}) = Cardinality(B) + 1
    BY <1>b, <2>1, FS_AddElement
  <2>4. IsFiniteSet(B') /\ Cardinality(B') = Cardinality(B) + 1
    BY <2>1, <2>3
  <2>5. pending'[a] = Weight * Cardinality(B')
    BY <1>t, <1>b, <1>c, <1>w, <2>2, <2>4
  <2> QED  BY <1>a, <1>v, <1>1, <2>4, <2>5, Recounted DEF B
<1>3. CASE pc[k] # "chosen"
  <2>1. B' = B \ {k} /\ k \in B
    BY <1>3 DEF Busy
  <2>2. pending'[a] = pending[a] - Weight
    BY <1>t, <1>3
  <2> HIDE DEF B
  <2>3. IsFiniteSet(B \ {k}) /\ Cardinality(B \ {k}) = Cardinality(B) - 1
    BY <1>b, <2>1, FS_RemoveElement
  <2>4. IsFiniteSet(B') /\ Cardinality(B') = Cardinality(B) - 1
    BY <2>1, <2>3
  <2>5. pending'[a] = Weight * Cardinality(B')
    BY <1>t, <1>b, <1>c, <1>w, <2>2, <2>4
  <2> QED  BY <1>a, <1>v, <1>1, <2>4, <2>5, Recounted DEF B
<1> QED  BY <1>2, <1>3

\* Every step keeps IInv.
LEMMA InvariantStep == IInv /\ [Next]_vars => IInv'
<1> SUFFICES ASSUME IInv, [Next]_vars PROVE IInv'
  OBVIOUS
<1>t. Types
  BY DEF IInv
<1>w. Weight \in Int
  BY <1>t DEF Weight, Types
<1>1. CASE (\E m \in Methods : SetMethod(m)) \/ Elapse \/ UNCHANGED vars
  <2>1. UNCHANGED <<api, pc, on, pending>>
    BY <1>1 DEF SetMethod, Elapse, vars, backendVars, callVars
  <2>2. Types'
    BY <1>t, <2>1 DEF Types
  <2>3. FinitelyBusy' /\ PendingExact'
    BY <2>1 DEF IInv, FinitelyBusy, PendingExact, Busy, Weight
  <2> QED  BY <2>2, <2>3 DEF IInv
<1>2. ASSUME NEW k \in Callers, Load(k) \/ ChooseNone(k) \/ ReadCount(k) \/ GotChannel(k)
      PROVE  IInv'
  <2>1. /\ UNCHANGED <<api, on, pending>>
        /\ \/ pc[k] \in {"idle", "choosing"} /\ pc' = [pc EXCEPT ![k] = "choosing"]
           \/ pc[k] = "choosing" /\ pc' = [pc EXCEPT ![k] = "idle"]
           \/ pc[k] = "ended" /\ pc' = [pc EXCEPT ![k] = "read"]
           \/ pc[k] = "channel" /\ pc' = [pc EXCEPT ![k] = "request"]
    BY <1>2 DEF Load, ChooseNone, ReadCount, GotChannel, Goto, backendVars
  <2>2. Types'
    BY <1>t, <2>1 DEF Types
  <2>3. FinitelyBusy' /\ PendingExact'
    BY <1>t, <2>1, KeepsBusy DEF Types
  <2> QED  BY <2>2, <2>3 DEF IInv
<1>3. ASSUME NEW k \in Callers, NEW b \in Backends, Choose(k, b) PROVE IInv'
  <2>1. /\ UNCHANGED <<api, pending>> /\ on' = [on EXCEPT ![k] = b]
        /\ pc[k] = "choosing" /\ pc' = [pc EXCEPT ![k] = "chosen"]
    BY <1>3 DEF Choose, Goto, backendVars
  <2>2. Types'
    BY <1>t, <2>1 DEF Types
  <2>3. FinitelyBusy' /\ PendingExact'
    BY <1>t, <2>1, KeepsBusy DEF Types
  <2> QED  BY <2>2, <2>3 DEF IInv
<1>4. ASSUME NEW k \in Callers,
             NoteSuccess(k) \/ NoteError(k) \/ NoteUnhealthy(k) \/ NoteHealthy(k)
      PROVE  IInv'
  <2>1. /\ UNCHANGED <<api, pending>> /\ on' = [on EXCEPT ![k] = NoBackend]
        /\ pc[k] \in {"ended", "read"} /\ pc' = [pc EXCEPT ![k] = "idle"]
    BY <1>4 DEF NoteSuccess, NoteError, NoteUnhealthy, NoteHealthy, Done, Goto
  <2>2. Types'
    BY <1>t, <2>1 DEF Types
  <2>3. FinitelyBusy' /\ PendingExact'
    BY <1>t, <2>1, KeepsBusy DEF Types
  <2> QED  BY <2>2, <2>3 DEF IInv
<1>5. ASSUME NEW k \in Callers, Begin(k) PROVE IInv'
  <2>1. /\ UNCHANGED <<api, on>>
        /\ pc[k] = "chosen" /\ pc' = [pc EXCEPT ![k] = "channel"]
        /\ pending' = [pending EXCEPT ![on[k]] = @ + Weight]
    BY <1>5 DEF Begin, Goto
  <2>2. on[k] \in Backends
    BY <1>t, <2>1 DEF Types
  <2>3. Types'
    BY <1>t, <1>w, <2>1, <2>2 DEF Types
  <2>4. FinitelyBusy' /\ PendingExact'
    BY <1>t, <2>1, <2>2, CountsBusy DEF Types
  <2> QED  BY <2>3, <2>4 DEF IInv
<1>6. ASSUME NEW k \in Callers,
             NoChannel(k) \/ \E result \in BOOLEAN : Answered(k, result)
      PROVE  IInv'
  <2>1. /\ UNCHANGED <<api, on>>
        /\ pc[k] \in {"channel", "request"} /\ pc' = [pc EXCEPT ![k] = "ended"]
        /\ pending' = [pending EXCEPT ![on[k]] = @ - Weight]
    BY <1>6 DEF NoChannel, Answered, End, Goto
  <2>2. on[k] \in Backends
    BY <1>t, <2>1 DEF Types
  <2>3. Types'
    BY <1>t, <1>w, <2>1, <2>2 DEF Types
  <2>4. FinitelyBusy' /\ PendingExact'
    BY <1>t, <2>1, <2>2, CountsBusy DEF Types
  <2> QED  BY <2>3, <2>4 DEF IInv
<1> QED  BY <1>1, <1>2, <1>3, <1>4, <1>5, <1>6 DEF Next, Proceed

\* pendingRequests, by which DoRequest and DoRequest2 choose a backend, counts
\* exactly the requests under way on it: the deferred decrements make up for
\* every increment, however the requests end.
THEOREM PendingIsExact == Spec => []PendingExact
<1>1. Init => IInv
  <2> SUFFICES ASSUME Init PROVE IInv
    OBVIOUS
  <2>1. Types
    BY DEF Init, Types
  <2>2. \A b \in Backends : Busy(b) = {}
    BY DEF Init, Busy
  <2>3. FinitelyBusy
    BY <2>2, FS_EmptySet DEF FinitelyBusy
  <2>4. Weight \in Int /\ \A w \in Int : w * 0 = 0
    BY <2>1 DEF Types, Weight
  <2>5. PendingExact
    BY <2>2, <2>4, FS_EmptySet DEF Init, PendingExact, Busy
  <2> QED  BY <2>1, <2>3, <2>5 DEF IInv
<1>2. IInv => PendingExact
  BY DEF IInv
<1> QED  BY <1>1, <1>2, InvariantStep, PTL DEF Spec
-----------------------------------------------------------------------------
(* The registry of backends: AddBackend and RemoveBackend.                 *)

\* A set of numbers that is not empty has a least one.
LEMMA LeastNumber ==
  ASSUME NEW T \in SUBSET Nat, T # {}
  PROVE  \E m \in T : \A k \in T : m <= k
<1>1. PICK m \in T : \A k \in T : ~(<<k, m>> \in OpToRel(<, Nat))
  BY NatLessThanWellFounded, WFMin
<1>2. \A k \in T : ~(k < m)
  BY <1>1 DEF OpToRel
<1> QED  BY <1>2

\* f[i] is where the loop of RemoveBackend(a), started on the list s, is after
\* i rounds: the function that Rounds chooses.
RoundStep(r, i, a) ==
  IF r.bad \/ r.cells[i].alias # a THEN r
  ELSE IF OutOfRange(i, r.len) THEN [r EXCEPT !.bad = TRUE]
  ELSE [r EXCEPT !.cells = Removed(r.cells, r.len, i), !.len = @ - 1]
IsRounds(f, n, s, a) ==
  f = [i \in 0 .. n |-> IF i = 0 THEN [cells |-> s, len |-> Len(s), bad |-> FALSE]
                        ELSE RoundStep(f[i - 1], i, a)]

\* There is such a function.
LEMMA RoundsExist ==
  ASSUME NEW n \in Nat, NEW s, NEW a
  PROVE  \E f : IsRounds(f, n, s, a)
<1> DEFINE T == {k \in Nat : ~ \E f : IsRounds(f, k, s, a)}
           start == [cells |-> s, len |-> Len(s), bad |-> FALSE]
<1> SUFFICES T = {}
  OBVIOUS
<1> SUFFICES ASSUME T # {} PROVE FALSE
  OBVIOUS
<1>1. PICK m \in T : \A k \in T : m <= k
  BY LeastNumber
<1>2. m \in Nat /\ ~ \E f : IsRounds(f, m, s, a)
  BY <1>1
<1>3. m # 0
  <2> SUFFICES ASSUME m = 0 PROVE FALSE
    OBVIOUS
  <2> DEFINE f == [i \in 0 .. m |-> start]
  <2>1. \A i \in 0 .. m : i = 0 /\ f[i] = start
    OBVIOUS
  <2>2. IsRounds(f, m, s, a)
    BY <2>1 DEF IsRounds
  <2> QED  BY <1>2, <2>2
<1>4. m - 1 \in Nat /\ m - 1 \notin T
  BY <1>1, <1>2, <1>3
<1>5. PICK g : IsRounds(g, m - 1, s, a)
  BY <1>4
<1> DEFINE f == [i \in 0 .. m |-> IF i = m THEN RoundStep(g[m - 1], m, a) ELSE g[i]]
<1>6. \A i \in 0 .. m - 1 : g[i] = IF i = 0 THEN start ELSE RoundStep(g[i - 1], i, a)
  BY <1>5 DEF IsRounds
<1>7. ASSUME NEW i \in 0 .. m
      PROVE  f[i] = IF i = 0 THEN start ELSE RoundStep(f[i - 1], i, a)
  <2>1. CASE i = m
    <3>1. m - 1 \in 0 .. m /\ m - 1 # m
      BY <1>2, <1>3
    <3>2. f[i - 1] = g[m - 1]
      BY <2>1, <3>1
    <3> QED  BY <1>3, <2>1, <3>2
  <2>2. CASE i # m /\ i # 0
    <3>1. i \in 0 .. m - 1 /\ i - 1 \in 0 .. m /\ i - 1 # m
      BY <1>2, <2>2
    <3>2. f[i] = g[i] /\ f[i - 1] = g[i - 1]
      BY <2>2, <3>1
    <3> QED  BY <1>6, <2>2, <3>1, <3>2
  <2>3. CASE i # m /\ i = 0
    <3>1. i \in 0 .. m - 1
      BY <1>2, <2>3
    <3> QED  BY <1>6, <2>3, <3>1
  <2> QED  BY <2>1, <2>2, <2>3
<1>8. f = [i \in 0 .. m |-> f[i]]
  OBVIOUS
<1> HIDE DEF f
<1>9. IsRounds(f, m, s, a)
  BY <1>7, <1>8, Zenon DEF IsRounds
<1> QED  BY <1>2, <1>9

\* What is known of the loop after i rounds, with s the list as it was.  Entries
\* are moved down and only those of alias a are lost; the places given up hold
\* copies of the last entry, unless that has the alias.
Shifts(s, r, a) ==
  \E moved \in [1 .. r.len -> 0 .. Len(s) - r.len] :
    /\ \A j, k \in 1 .. r.len : j < k => moved[j] <= moved[k]
    /\ \A j \in 1 .. r.len : r.cells[j] = s[j + moved[j]]
    /\ \A i \in 1 .. Len(s) : s[i].alias # a => \E j \in 1 .. r.len : i = j + moved[j]
LoopTypes(s, r) ==
  /\ DOMAIN r = {"cells", "len", "bad"}
  /\ r.cells = [j \in 1 .. Len(s) |-> r.cells[j]]
  /\ r.len \in 0 .. Len(s) /\ r.bad \in BOOLEAN
LastKept(s, r, a) ==
  Len(s) > 0 =>
    /\ r.cells[Len(s)] = s[Len(s)]
    /\ s[Len(s)].alias # a => \A j \in 1 .. Len(s) : j >= r.len => r.cells[j] = s[Len(s)]
Untouched(s, r, i, a) ==
  /\ r.cells = s /\ r.len = Len(s) /\ ~r.bad /\ \A j \in 1 .. i : s[j].alias # a
AnyFound(s, r, i, a) ==
  \/ Untouched(s, r, i, a)
  \/ r.len < Len(s) /\ \E j \in 1 .. i : s[j].alias = a
Twice(s, a) == s[Len(s)].alias = a /\ \E j \in 1 .. Len(s) - 1 : s[j].alias = a
BadIfTwice(s, r, i, a) ==
  /\ r.bad => Twice(s, a) /\ r.len < Len(s)
  /\ i = Len(s) /\ Twice(s, a) => r.bad
AllFound(s, r, i, a) ==
  (\A j, k \in 1 .. Len(s) : s[j].alias = a /\ s[k].alias = a => j = k) =>
    \/ Untouched(s, r, i, a)
    \/ \A j \in 1 .. Len(s) : j <= r.len \/ j > i => r.cells[j].alias # a
LoopInv(s, r, i, a) ==
  /\ LoopTypes(s, r) /\ Shifts(s, r, a) /\ LastKept(s, r, a)
  /\ AnyFound(s, r, i, a) /\ BadIfTwice(s, r, i, a) /\ AllFound(s, r, i, a)

\* The updates of the loop's state.
LEMMA RoundUpdates ==
  ASSUME NEW d, NEW r, DOMAIN r = {"cells", "len", "bad"}
  PROVE  /\ LET q == [r EXCEPT !.bad = TRUE]
            IN  DOMAIN q = DOMAIN r /\ q.cells = r.cells /\ q.len = r.len /\ q.bad = TRUE
         /\ LET q == [r EXCEPT !.cells = d, !.len = @ - 1]
            IN  DOMAIN q = DOMAIN r /\ q.cells = d /\ q.len = r.len - 1 /\ q.bad = r.bad
OBVIOUS

\* A round in which nothing is done.
LEMMA SkipRound ==
  ASSUME NEW s, Len(s) \in Nat, NEW a, NEW i \in 1 .. Len(s), NEW r, LoopInv(s, r, i - 1, a),
         r.bad \/ r.cells[i].alias # a
  PROVE  LoopInv(s, r, i, a)
<1>1. LoopTypes(s, r) /\ Shifts(s, r, a) /\ LastKept(s, r, a)
  BY DEF LoopInv
<1>2. AnyFound(s, r, i - 1, a) /\ BadIfTwice(s, r, i - 1, a) /\ AllFound(s, r, i - 1, a)
  BY DEF LoopInv
<1>3. Untouched(s, r, i - 1, a) => Untouched(s, r, i, a)
  <2> SUFFICES ASSUME Untouched(s, r, i - 1, a) PROVE Untouched(s, r, i, a)
    OBVIOUS
  <2>1. s[i].alias # a
    BY DEF Untouched
  <2>2. \A j \in 1 .. i : j = i \/ j \in 1 .. i - 1
    OBVIOUS
  <2> QED  BY <2>1, <2>2 DEF Untouched
<1>4. AnyFound(s, r, i, a)
  BY <1>2, <1>3 DEF AnyFound
<1>5. AllFound(s, r, i, a)
  BY <1>2, <1>3 DEF AllFound
<1>6. ASSUME i = Len(s), Twice(s, a) PROVE r.bad
  <2>1. r.cells[i] = s[i] /\ s[i].alias = a
    BY <1>1, <1>6 DEF LastKept, Twice
  <2> QED  BY <2>1
<1>7. BadIfTwice(s, r, i, a)
  BY <1>2, <1>6 DEF BadIfTwice
<1> QED  BY <1>1, <1>4, <1>5, <1>7 DEF LoopInv

\* A round that slices out of range.
LEMMA BadRound ==
  ASSUME NEW s, Len(s) \in Nat, NEW a, NEW i \in 1 .. Len(s), NEW r, LoopInv(s, r, i - 1, a),
         ~r.bad, r.cells[i].alias = a, i > r.len
  PROVE  LoopInv(s, [r EXCEPT !.bad = TRUE], i, a)
<1> DEFINE q == [r EXCEPT !.bad = TRUE]
<1>1. LoopTypes(s, r) /\ Shifts(s, r, a) /\ LastKept(s, r, a)
  BY DEF LoopInv
<1>2. AnyFound(s, r, i - 1, a) /\ AllFound(s, r, i - 1, a)
  BY DEF LoopInv
<1>4. q.cells = r.cells /\ q.len = r.len /\ q.bad = TRUE
  BY <1>1, RoundUpdates DEF LoopTypes
<1>5. DOMAIN q = DOMAIN r
  BY <1>1, RoundUpdates DEF LoopTypes
<1> HIDE DEF q
<1>6. LoopTypes(s, q)
  BY <1>1, <1>4, <1>5 DEF LoopTypes
<1>7. Shifts(s, q, a)
  <2> DEFINE c == r.cells
             l == r.len
  <2>1. PICK moved \in [1 .. l -> 0 .. Len(s) - l] :
          /\ \A j, k \in 1 .. l : j < k => moved[j] <= moved[k]
          /\ \A j \in 1 .. l : c[j] = s[j + moved[j]]
          /\ \A x \in 1 .. Len(s) : s[x].alias # a => \E j \in 1 .. l : x = j + moved[j]
    BY <1>1 DEF Shifts
  <2>2. q.cells = c /\ q.len = l
    BY <1>4
  <2> HIDE DEF c, l
  <2> QED  BY <2>1, <2>2 DEF Shifts
<1>8. LastKept(s, q, a)
  BY <1>1, <1>4 DEF LastKept
<1>9. r.len \in 0 .. Len(s) /\ r.len < Len(s)
  BY <1>1 DEF LoopTypes
<1>10. PICK j \in 1 .. i - 1 : s[j].alias = a
  BY <1>2, <1>9 DEF AnyFound, Untouched
<1>11. s[Len(s)].alias = a
  BY <1>1, <1>9 DEF LastKept
<1>12. Twice(s, a)
  BY <1>10, <1>11 DEF Twice
<1>13. AnyFound(s, q, i, a)
  BY <1>4, <1>9, <1>10 DEF AnyFound
<1>14. BadIfTwice(s, q, i, a)
  BY <1>4, <1>9, <1>12 DEF BadIfTwice
<1>15. AllFound(s, q, i, a)
  <2>1. j \in 1 .. Len(s) /\ Len(s) \in 1 .. Len(s) /\ j # Len(s)
    BY <1>10
  <2> QED  BY <1>10, <1>11, <2>1 DEF AllFound
<1> QED  BY <1>6, <1>7, <1>8, <1>13, <1>14, <1>15 DEF LoopInv, q

\* A round that takes an entry out.
LEMMA RemoveRoundKeeps ==
  ASSUME NEW s, Len(s) \in Nat, NEW a, NEW i \in 1 .. Len(s), NEW r, LoopInv(s, r, i - 1, a),
         ~r.bad, r.cells[i].alias = a, i <= r.len
  PROVE  LoopInv(s, [r EXCEPT !.cells = Removed(r.cells, r.len, i), !.len = @ - 1], i, a)
<1> DEFINE q == [r EXCEPT !.cells = Removed(r.cells, r.len, i), !.len = @ - 1]
           n == Len(s)
<1>1. LoopTypes(s, r) /\ Shifts(s, r, a) /\ LastKept(s, r, a)
  BY DEF LoopInv
<1>2. AnyFound(s, r, i - 1, a) /\ AllFound(s, r, i - 1, a)
  BY DEF LoopInv
<1>3. r.cells = [j \in 1 .. n |-> r.cells[j]] /\ r.len \in 1 .. n
  BY <1>1 DEF LoopTypes
<1>4. DOMAIN r = {"cells", "len", "bad"}
  BY <1>1 DEF LoopTypes
<1>5. q.cells = Removed(r.cells, r.len, i) /\ q.len = r.len - 1 /\ q.bad = r.bad
  BY <1>4, RoundUpdates
<1>6. DOMAIN q = {"cells", "len", "bad"}
  BY <1>4, RoundUpdates
<1>7. DOMAIN r.cells = 1 .. n
  BY <1>3
<1>8. /\ q.cells = [j \in 1 .. n |-> q.cells[j]]
      /\ \A j \in 1 .. n : q.cells[j] = IF j \in i .. r.len - 1 THEN r.cells[j + 1] ELSE r.cells[j]
  BY <1>5, <1>7 DEF Removed
<1> HIDE DEF q
<1>9. LoopTypes(s, q)
  <2>1. q.len \in 0 .. n
    BY <1>3, <1>5
  <2>2. q.bad \in BOOLEAN
    BY <1>1, <1>5, Zenon DEF LoopTypes
  <2> QED  BY <1>6, <1>8, <2>1, <2>2, Zenon DEF LoopTypes
<1>10. Shifts(s, q, a)
  <2>1. PICK moved \in [1 .. r.len -> 0 .. n - r.len] :
          /\ \A j, k \in 1 .. r.len : j < k => moved[j] <= moved[k]
          /\ \A j \in 1 .. r.len : r.cells[j] = s[j + moved[j]]
          /\ \A x \in 1 .. n : s[x].alias # a => \E j \in 1 .. r.len : x = j + moved[j]
    BY <1>1 DEF Shifts
  <2> DEFINE new == [j \in 1 .. q.len |-> IF j < i THEN moved[j] ELSE moved[j + 1] + 1]
  <2>2. \A j \in 1 .. q.len : /\ j < i => new[j] = moved[j]
                              /\ j >= i => j + 1 \in 1 .. r.len /\ new[j] = moved[j + 1] + 1
    BY <1>3, <1>5
  <2>3. \A j \in 1 .. r.len : moved[j] \in 0 .. n - r.len
    BY <2>1
  <2>4. \A j \in 1 .. r.len : moved[j] \in Nat /\ moved[j] <= n - r.len
    BY <1>3, <2>3
  <2>10. new \in [1 .. q.len -> 0 .. n - q.len]
    <3>1. ASSUME NEW j \in 1 .. q.len PROVE new[j] \in 0 .. n - q.len
      <4>1. CASE j < i
        <5>1. j \in 1 .. r.len
          BY <1>3, <1>5
        <5>2. new[j] = moved[j]
          BY <2>2, <4>1
        <5> QED  BY <1>3, <1>5, <2>4, <5>1, <5>2
      <4>2. CASE j >= i
        <5>1. j + 1 \in 1 .. r.len /\ new[j] = moved[j + 1] + 1
          BY <2>2, <4>2
        <5> DEFINE x == moved[j + 1]
                   l == r.len
                   k == q.len
        <5>2. x \in Nat /\ x <= n - l /\ new[j] = x + 1
          BY <2>4, <5>1
        <5>3. l \in 1 .. n /\ k = l - 1
          BY <1>3, <1>5
        <5> HIDE DEF x, l, k
        <5>4. x + 1 \in 0 .. n - k
          BY <5>2, <5>3
        <5> QED  BY <5>2, <5>4 DEF k
      <4> QED  BY <4>1, <4>2
    <3> QED  BY <3>1
  <2> HIDE DEF new
  <2>5. ASSUME NEW j \in 1 .. q.len, NEW k \in 1 .. q.len, j < k PROVE new[j] <= new[k]
    <3>1. CASE k < i
      <4>1. j \in 1 .. r.len /\ k \in 1 .. r.len /\ j < i
        BY <1>3, <1>5, <2>5, <3>1
      <4>2. moved[j] <= moved[k]
        BY <2>1, <2>5, <4>1
      <4>3. new[j] = moved[j] /\ new[k] = moved[k]
        BY <2>2, <3>1, <4>1
      <4> QED  BY <4>2, <4>3
    <3>2. CASE j < i /\ i <= k
      <4>1. j \in 1 .. r.len /\ k + 1 \in 1 .. r.len /\ j < k + 1
        BY <1>3, <1>5, <2>5
      <4>2. moved[j] <= moved[k + 1]
        BY <2>1, <4>1
      <4> QED  BY <2>2, <2>4, <3>2, <4>1, <4>2
    <3>3. CASE i <= j
      <4>1. j + 1 \in 1 .. r.len /\ k + 1 \in 1 .. r.len /\ j + 1 < k + 1 /\ i <= k
        BY <1>3, <1>5, <2>5, <3>3
      <4>2. moved[j + 1] <= moved[k + 1]
        BY <2>1, <4>1
      <4> QED  BY <2>2, <2>4, <3>3, <4>1, <4>2
    <3> QED  BY <3>1, <3>2, <3>3
  <2>6. ASSUME NEW j \in 1 .. q.len PROVE q.cells[j] = s[j + new[j]]
    <3>1. CASE j < i
      <4>1. j \in 1 .. n /\ j \in 1 .. r.len /\ j \notin i .. r.len - 1
        BY <1>3, <1>5, <3>1
      <4> QED  BY <1>8, <2>1, <2>2, <3>1, <4>1
    <3>2. CASE j >= i
      <4>1. j \in 1 .. n /\ j + 1 \in 1 .. r.len /\ j \in i .. r.len - 1
        BY <1>3, <1>5, <3>2
      <4>2. (j + 1) + moved[j + 1] = j + new[j]
        <5>1. new[j] = moved[j + 1] + 1
          BY <2>2, <3>2
        <5> DEFINE x == moved[j + 1]
        <5>2. x \in Nat /\ new[j] = x + 1
          BY <2>4, <4>1, <5>1
        <5> HIDE DEF x
        <5>3. (j + 1) + x = j + (x + 1)
          BY <5>2
        <5> QED  BY <5>2, <5>3 DEF x
      <4>3. q.cells[j] = r.cells[j + 1] /\ r.cells[j + 1] = s[(j + 1) + moved[j + 1]]
        BY <1>8, <2>1, <4>1
      <4> QED  BY <4>2, <4>3
    <3> QED  BY <3>1, <3>2
  <2>7. ASSUME NEW x \in 1 .. n, s[x].alias # a PROVE \E j \in 1 .. q.len : x = j + new[j]
    <3>1. PICK j \in 1 .. r.len : x = j + moved[j]
      BY <2>1, <2>7
    <3>2. r.cells[j] = s[x]
      BY <2>1, <3>1
    <3>3. j # i
      BY <2>7, <3>2
    <3>4. CASE j < i
      <4>1. j \in 1 .. q.len
        BY <1>3, <1>5, <3>4
      <4> QED  BY <2>2, <3>1, <3>4, <4>1
    <3>5. CASE j > i
      <4>1. j - 1 \in 1 .. q.len /\ j - 1 >= i /\ (j - 1) + 1 = j
        BY <1>3, <1>5, <3>5
      <4>2. new[j - 1] = moved[j] + 1
        BY <2>2, <4>1
      <4>3. x = (j - 1) + new[j - 1]
        BY <2>4, <3>1, <4>2
      <4> QED  BY <4>1, <4>3
    <3> QED  BY <3>3, <3>4, <3>5
  <2> QED  BY <2>5, <2>6, <2>7, <2>10 DEF Shifts
<1>11. LastKept(s, q, a)
  <2>1. q.cells[n] = s[n]
    BY <1>1, <1>3, <1>8 DEF LastKept
  <2>2. ASSUME s[n].alias # a, NEW j \in 1 .. n, j >= q.len PROVE q.cells[j] = s[n]
    <3>1. \A k \in 1 .. n : k >= r.len => r.cells[k] = s[n]
      BY <1>1, <2>2 DEF LastKept
    <3>2. i < r.len
      <4>1. r.cells[r.len] = s[n]
        BY <1>3, <3>1
      <4> QED  BY <1>3, <2>2, <4>1
    <3>3. CASE j = r.len - 1
      <4>1. j \in i .. r.len - 1 /\ j + 1 = r.len
        BY <1>3, <3>2, <3>3
      <4> QED  BY <1>3, <1>8, <3>1, <4>1
    <3>4. CASE j >= r.len
      <4>1. j \notin i .. r.len - 1
        BY <1>3, <3>4
      <4> QED  BY <1>8, <3>1, <3>4, <4>1
    <3> QED  BY <1>3, <1>5, <2>2, <3>3, <3>4
  <2> QED  BY <2>1, <2>2 DEF LastKept
<1>12. \E j \in 1 .. i : s[j].alias = a
  <2>1. CASE Untouched(s, r, i - 1, a)
    BY <2>1 DEF Untouched
  <2>2. CASE \E j \in 1 .. i - 1 : s[j].alias = a
    BY <2>2
  <2> QED  BY <1>2, <2>1, <2>2 DEF AnyFound
<1>13. AnyFound(s, q, i, a)
  BY <1>3, <1>5, <1>12 DEF AnyFound
<1>14. BadIfTwice(s, q, i, a)
  <2> SUFFICES ASSUME i = n, Twice(s, a) PROVE FALSE
    BY <1>5 DEF BadIfTwice
  <2>1. r.len = n
    BY <1>3
  <2>2. Untouched(s, r, i - 1, a)
    BY <1>2, <1>3, <2>1 DEF AnyFound
  <2> QED  BY <2>2 DEF Untouched, Twice
<1>15. AllFound(s, q, i, a)
  <2> SUFFICES ASSUME \A j, k \in 1 .. n : s[j].alias = a /\ s[k].alias = a => j = k
               PROVE  \A j \in 1 .. n : j <= q.len \/ j > i => q.cells[j].alias # a
    BY DEF AllFound
  <2>1. Untouched(s, r, i - 1, a)
    BY <1>2 DEF AllFound
  <2>2. r.cells = s /\ r.len = n /\ s[i].alias = a
    BY <2>1 DEF Untouched
  <2>3. \A k \in 1 .. n : k # i => s[k].alias # a
    BY <2>2
  <2>4. ASSUME NEW j \in 1 .. n, j <= q.len \/ j > i PROVE q.cells[j].alias # a
    <3>1. CASE j \in i .. r.len - 1
      <4>1. j + 1 \in 1 .. n /\ j + 1 # i
        BY <2>2, <3>1
      <4> QED  BY <1>8, <2>2, <2>3, <3>1, <4>1
    <3>2. CASE j \notin i .. r.len - 1
      <4>1. j # i
        BY <1>5, <2>2, <2>4, <3>2
      <4> QED  BY <1>8, <2>2, <2>3, <3>2, <4>1
    <3> QED  BY <3>1, <3>2
  <2> QED  BY <2>4
<1> QED  BY <1>9, <1>10, <1>11, <1>13, <1>14, <1>15 DEF LoopInv, q

\* The loop to its end.
LEMMA LoopEnd ==
  ASSUME NEW a, Len(activeClients) \in Nat,
         activeClients = [j \in 1 .. Len(activeClients) |-> activeClients[j]]
  PROVE  LoopInv(activeClients, Rounds(a), Len(activeClients), a)
<1> DEFINE n == Len(activeClients)
           f == CHOOSE g : IsRounds(g, n, activeClients, a)
           start == [cells |-> activeClients, len |-> n, bad |-> FALSE]
<1>1. Rounds(a) = f[n]
  BY DEF Rounds, IsRounds, RoundStep
<1>2. IsRounds(f, n, activeClients, a)
  BY RoundsExist
<1> HIDE DEF f
<1>3. \A i \in 0 .. n : f[i] = IF i = 0 THEN start ELSE RoundStep(f[i - 1], i, a)
  BY <1>2 DEF IsRounds
<1>4. LoopInv(activeClients, start, 0, a)
  <2>1. start.cells = activeClients /\ start.len = n /\ start.bad = FALSE
    OBVIOUS
  <2>2. DOMAIN start = {"cells", "len", "bad"}
    OBVIOUS
  <2> HIDE DEF start
  <2>3. LoopTypes(activeClients, start)
    <3>1. start.len \in 0 .. n /\ start.cells = [j \in 1 .. n |-> start.cells[j]]
      BY <2>1
    <3> QED  BY <2>1, <2>2, <3>1, Zenon DEF LoopTypes
  <2>4. Shifts(activeClients, start, a)
    <3> DEFINE moved == [j \in 1 .. n |-> 0]
    <3>1. moved \in [1 .. start.len -> 0 .. n - start.len] /\ \A j \in 1 .. n : moved[j] = 0
      BY <2>1
    <3> HIDE DEF moved
    <3> QED  BY <2>1, <3>1 DEF Shifts
  <2>5. LastKept(activeClients, start, a)
    BY <2>1 DEF LastKept
  <2>6. Untouched(activeClients, start, 0, a)
    BY <2>1 DEF Untouched
  <2>7. BadIfTwice(activeClients, start, 0, a)
    BY <2>1 DEF BadIfTwice, Twice
  <2> QED  BY <2>3, <2>4, <2>5, <2>6, <2>7 DEF LoopInv, AnyFound, AllFound
<1>5. ASSUME NEW i \in 1 .. n, LoopInv(activeClients, f[i - 1], i - 1, a)
      PROVE  LoopInv(activeClients, f[i], i, a)
  <2> DEFINE r == f[i - 1]
  <2>1. f[i] = RoundStep(r, i, a)
    BY <1>3
  <2>2. r.len \in Nat
    BY <1>5 DEF LoopInv, LoopTypes
  <2> HIDE DEF r
  <2>3. LoopInv(activeClients, r, i - 1, a)
    BY <1>5 DEF r
  <2>4. CASE r.bad \/ r.cells[i].alias # a
    <3>1. f[i] = r
      BY <2>1, <2>4 DEF RoundStep
    <3> QED  BY <2>3, <2>4, <3>1, SkipRound
  <2>5. CASE ~r.bad /\ r.cells[i].alias = a /\ i > r.len
    <3>1. f[i] = [r EXCEPT !.bad = TRUE]
      BY <2>1, <2>5 DEF RoundStep, OutOfRange
    <3>2. LoopInv(activeClients, [r EXCEPT !.bad = TRUE], i, a)
      BY <2>3, <2>5, BadRound
    <3> QED  BY <3>1, <3>2
  <2>6. CASE ~r.bad /\ r.cells[i].alias = a /\ i <= r.len
    <3> DEFINE q == [r EXCEPT !.cells = Removed(r.cells, r.len, i), !.len = @ - 1]
    <3>1. ~(i > r.len)
      BY <2>2, <2>6
    <3>2. f[i] = q
      BY <2>1, <2>6, <3>1 DEF RoundStep, OutOfRange
    <3>3. LoopInv(activeClients, q, i, a)
      BY <2>3, <2>6, RemoveRoundKeeps
    <3> QED  BY <3>2, <3>3
  <2> QED  BY <2>2, <2>4, <2>5, <2>6
<1> DEFINE T == {i \in 0 .. n : ~LoopInv(activeClients, f[i], i, a)}
<1>6. T = {}
  <2> SUFFICES ASSUME T # {} PROVE FALSE
    OBVIOUS
  <2>1. T \in SUBSET Nat
    OBVIOUS
  <2>2. PICK m \in T : \A k \in T : m <= k
    BY <2>1, LeastNumber
  <2>3. m \in 0 .. n /\ ~LoopInv(activeClients, f[m], m, a)
    BY <2>2
  <2>4. m # 0
    <3>1. 0 \in 0 .. n
      OBVIOUS
    <3> HIDE DEF start
    <3>2. f[0] = start
      BY <1>3, <3>1
    <3> QED  BY <1>4, <2>3, <3>2
  <2>5. m \in 1 .. n /\ m - 1 \in 0 .. n /\ m - 1 \notin T
    BY <2>2, <2>3, <2>4
  <2>6. LoopInv(activeClients, f[m - 1], m - 1, a)
    BY <2>5
  <2> QED  BY <1>5, <2>3, <2>5, <2>6
<1>7. n \in 0 .. n
  OBVIOUS
<1> QED  BY <1>1, <1>6, <1>7

\* What the entries of the list are.
Entries == [backend : Added \cup {Nil},
            alias : Names \cup {Servers[((k - 1) % Len(Servers)) + 1].alias : k \in Int}]

\* f[k] is the list after k turns of NewLoadBalanceClient's loops: the function
\* that InitialList chooses.
Turn(c, k) ==
  IF Servers[((k - 1) % Len(Servers)) + 1].weight > (k - 1) \div Len(Servers)
    THEN Append(c, [backend |-> Nil, alias |-> Servers[((k - 1) % Len(Servers)) + 1].alias])
    ELSE c
IsTurns(f, n) == f = [k \in 0 .. n |-> IF k = 0 THEN <<>> ELSE Turn(f[k - 1], k)]

\* There is such a function.
LEMMA TurnsExist ==
  ASSUME NEW n \in Nat
  PROVE  \E f : IsTurns(f, n)
<1> DEFINE T == {k \in Nat : ~ \E f : IsTurns(f, k)}
<1> SUFFICES T = {}
  OBVIOUS
<1> SUFFICES ASSUME T # {} PROVE FALSE
  OBVIOUS
<1>1. PICK m \in T : \A k \in T : m <= k
  BY LeastNumber
<1>2. m \in Nat /\ ~ \E f : IsTurns(f, m)
  BY <1>1
<1>3. m # 0
  <2> SUFFICES ASSUME m = 0 PROVE FALSE
    OBVIOUS
  <2> DEFINE f == [i \in 0 .. m |-> <<>>]
  <2>1. \A i \in 0 .. m : i = 0 /\ f[i] = <<>>
    OBVIOUS
  <2>2. IsTurns(f, m)
    BY <2>1 DEF IsTurns
  <2> QED  BY <1>2, <2>2
<1>4. m - 1 \in Nat /\ m - 1 \notin T
  BY <1>1, <1>2, <1>3
<1>5. PICK g : IsTurns(g, m - 1)
  BY <1>4
<1> DEFINE f == [i \in 0 .. m |-> IF i = m THEN Turn(g[m - 1], m) ELSE g[i]]
<1>6. \A i \in 0 .. m - 1 : g[i] = IF i = 0 THEN <<>> ELSE Turn(g[i - 1], i)
  BY <1>5 DEF IsTurns
<1>7. ASSUME NEW i \in 0 .. m
      PROVE  f[i] = IF i = 0 THEN <<>> ELSE Turn(f[i - 1], i)
  <2>1. CASE i = m
    <3>1. m - 1 \in 0 .. m /\ m - 1 # m
      BY <1>2, <1>3
    <3>2. f[i - 1] = g[m - 1]
      BY <2>1, <3>1
    <3> QED  BY <1>3, <2>1, <3>2
  <2>2. CASE i # m /\ i # 0
    <3>1. i \in 0 .. m - 1 /\ i - 1 \in 0 .. m /\ i - 1 # m
      BY <1>2, <2>2
    <3>2. f[i] = g[i] /\ f[i - 1] = g[i - 1]
      BY <2>2, <3>1
    <3> QED  BY <1>6, <2>2, <3>1, <3>2
  <2>3. CASE i # m /\ i = 0
    <3>1. i \in 0 .. m - 1
      BY <1>2, <2>3
    <3> QED  BY <1>6, <2>3, <3>1
  <2> QED  BY <2>1, <2>2, <2>3
<1>8. f = [i \in 0 .. m |-> f[i]]
  OBVIOUS
<1> HIDE DEF f
<1>9. IsTurns(f, m)
  BY <1>7, <1>8, Zenon DEF IsTurns
<1> QED  BY <1>2, <1>9

\* NewLoadBalanceClient makes a list of entries without a backend of AddBackend.
LEMMA InitialEntries ==
  ASSUME Len(Servers) \in Nat
  PROVE  /\ InitialList \in Seq(Entries)
         /\ \A i \in 1 .. Len(InitialList) : InitialList[i].backend = Nil
<1> DEFINE n == 100 * Len(Servers)
           f == CHOOSE g : IsTurns(g, n)
           Plain == {e \in Entries : e.backend = Nil}
<1>1. InitialList = f[n]
  BY DEF InitialList, IsTurns, Turn
<1>2. n \in Nat
  OBVIOUS
<1> HIDE DEF n
<1>3. IsTurns(f, n)
  BY <1>2, TurnsExist
<1> HIDE DEF f
<1>4. \A k \in 0 .. n : f[k] = IF k = 0 THEN <<>> ELSE Turn(f[k - 1], k)
  BY <1>3 DEF IsTurns
<1>5. ASSUME NEW k \in 1 .. n, f[k - 1] \in Seq(Plain) PROVE f[k] \in Seq(Plain)
  <2> DEFINE e == [backend |-> Nil, alias |-> Servers[((k - 1) % Len(Servers)) + 1].alias]
  <2>1. e \in Plain
    BY DEF Entries
  <2> HIDE DEF e, Plain
  <2>2. f[k] = Turn(f[k - 1], k)
    <3>1. k \in 0 .. n /\ k # 0
      BY <1>2
    <3> QED  BY <1>4, <3>1, Zenon
  <2>3. f[k] = Append(f[k - 1], e) \/ f[k] = f[k - 1]
    BY <2>2, Zenon DEF Turn, e
  <2>4. Append(f[k - 1], e) \in Seq(Plain)
    BY <1>5, <2>1
  <2> QED  BY <1>5, <2>3, <2>4
<1> HIDE DEF Plain
<1> DEFINE T == {k \in 0 .. n : f[k] \notin Seq(Plain)}
<1>6. T = {}
  <2> SUFFICES ASSUME T # {} PROVE FALSE
    OBVIOUS
  <2>1. T \in SUBSET Nat
    BY <1>2
  <2>2. PICK m \in T : \A k \in T : m <= k
    BY <2>1, LeastNumber
  <2>3. m \in 0 .. n /\ f[m] \notin Seq(Plain)
    BY <2>2
  <2>4. m # 0
    <3>1. 0 \in 0 .. n /\ <<>> \in Seq(Plain)
      BY <1>2
    <3> QED  BY <1>4, <2>3, <3>1
  <2>5. m \in 1 .. n /\ m - 1 \in 0 .. n /\ m - 1 \notin T
    BY <1>2, <2>2, <2>3, <2>4
  <2> QED  BY <1>5, <2>3, <2>5
<1>7. f[n] \in Seq(Plain)
  BY <1>2, <1>6
<1> DEFINE l == f[n]
<1> HIDE DEF l
<1>8. l \in Seq(Plain)
  BY <1>7 DEF l
<1>9. \A i \in 1 .. Len(l) : l[i] \in Plain
  BY <1>8
<1>10. \A i \in 1 .. Len(l) : l[i] \in Entries /\ l[i].backend = Nil
  BY <1>9 DEF Plain
<1>11. Plain \subseteq Entries
  BY DEF Plain
<1>12. l \in Seq(Entries)
  BY <1>8, <1>11
<1> QED  BY <1>1, <1>10, <1>12 DEF l

\* An alias is doubled if two places have it.
LEMMA DoubledMeans ==
  ASSUME NEW s \in Seq(Entries), NEW a \in Names
  PROVE  a \in Doubled(s) <=>
           \E i, j \in 1 .. Len(s) : i # j /\ s[i].alias = a /\ s[j].alias = a
<1> DEFINE W == With(s, a)
<1>1. Len(s) \in Nat /\ W = {i \in 1 .. Len(s) : s[i].alias = a}
  BY DEF With
<1>2. a \in Doubled(s) <=> Cardinality(W) > 1
  <2>1. Cardinality(W) = Cardinality(W)
    BY Zenon DEF Cardinality, Cardinality
  <2>2. a \in Doubled(s) <=> Cardinality(W) > 1
    BY DEF Doubled
  <2> QED  BY <2>1, <2>2, Zenon
<1> HIDE DEF W
<1>3. IsFiniteSet(W) /\ Cardinality(W) \in Nat
  <2>1. IsFiniteSet(1 .. Len(s))
    BY <1>1, FS_Interval
  <2>2. W \in SUBSET (1 .. Len(s))
    BY <1>1
  <2>3. IsFiniteSet(W)
    BY <2>1, <2>2, FS_Subset
  <2> QED  BY <2>3, FS_CardinalityType
<1>4. ASSUME NEW i \in W, NEW j \in W, i # j PROVE Cardinality(W) > 1
  <2>1. /\ IsFiniteSet(W \ {i}) /\ Cardinality(W \ {i}) = Cardinality(W) - 1
    BY <1>3, FS_RemoveElement
  <2>2. W \ {i} # {}
    BY <1>4
  <2>3. Cardinality(W \ {i}) \in Nat /\ Cardinality(W \ {i}) # 0
    BY <2>1, <2>2, FS_EmptySet, FS_CardinalityType
  <2> QED  BY <1>3, <2>1, <2>3
<1>5. ASSUME \A i, j \in W : i = j PROVE ~(Cardinality(W) > 1)
  <2>1. CASE W = {}
    <3>1. Cardinality(W) = 0
      BY <2>1, FS_EmptySet
    <3> QED  BY <3>1
  <2>2. CASE W # {}
    <3>1. PICK i : W = {i}
      BY <1>5, <2>2
    <3>2. Cardinality(W) = 1
      BY <3>1, FS_Singleton
    <3> QED  BY <3>2
  <2> QED  BY <2>1, <2>2
<1> QED  BY <1>1, <1>2, <1>4, <1>5

\* The list that the loop leaves.
LEMMA NewList ==
  ASSUME NEW s \in Seq(Entries), NEW r, NEW a, LoopTypes(s, r), Shifts(s, r, a)
  PROVE  LET t == SubSeq(r.cells, 1, r.len)
         IN  t \in Seq(Entries) /\ Len(t) = r.len /\ \A j \in 1 .. r.len : t[j] = r.cells[j]
<1> DEFINE l == r.len
           c == r.cells
<1>1. Len(s) \in Nat /\ l \in 0 .. Len(s)
  BY DEF LoopTypes
<1>2. PICK moved \in [1 .. l -> 0 .. Len(s) - l] : \A j \in 1 .. l : c[j] = s[j + moved[j]]
  BY DEF Shifts
<1> HIDE DEF l, c
<1>3. ASSUME NEW j \in 1 .. l PROVE c[j] \in Entries
  <2>1. moved[j] \in 0 .. Len(s) - l
    BY <1>2
  <2>2. j + moved[j] \in 1 .. Len(s)
    BY <1>1, <2>1
  <2>3. s[j + moved[j]] \in Entries
    BY <2>2, ElementOfSeq
  <2> QED  BY <1>2, <2>3
<1>4. l \in Int /\ 1 \in Int
  BY <1>1
<1>5. /\ SubSeq(c, 1, l) \in Seq(Entries)
      /\ Len(SubSeq(c, 1, l)) = IF 1 <= l THEN l - 1 + 1 ELSE 0
      /\ \A i \in 1 .. l - 1 + 1 : SubSeq(c, 1, l)[i] = c[1 + i - 1]
  BY <1>3, <1>4, SubSeqProperties
<1>6. Len(SubSeq(c, 1, l)) = l
  BY <1>1, <1>5
<1>7. ASSUME NEW j \in 1 .. l PROVE SubSeq(c, 1, l)[j] = c[j]
  <2>1. j \in 1 .. l - 1 + 1 /\ 1 + j - 1 = j
    BY <1>1
  <2> QED  BY <1>5, <2>1
<1> QED  BY <1>5, <1>6, <1>7 DEF l, c

\* Unless RemoveBackend panicked: an alias that was never in the list twice is
\* in it at most once, and the map has the backend of that entry.
SinglePlaces(s) ==
  \A a \in Names \ doubled : \A i, j \in 1 .. Len(s) : s[i].alias = a /\ s[j].alias = a => i = j
MapHolds(s, m) ==
  \A a \in Names \ doubled :
    /\ \A i \in 1 .. Len(s) : s[i].alias = a /\ s[i].backend # Nil => m[a] = s[i].backend
    /\ m[a] # Nil => \E i \in 1 .. Len(s) : s[i].alias = a /\ s[i].backend = m[a]
RegTypes ==
  /\ DOMAIN adding = Added /\ DOMAIN given = Added /\ DOMAIN activeClientMap = Names
  /\ \A b \in Added : adding[b] = "checked" => given[b] \in Names
RegInv ==
  /\ RegTypes
  /\ ~panicked => /\ activeClients \in Seq(Entries)
                  /\ SinglePlaces(activeClients) /\ MapHolds(activeClients, activeClientMap)

\* It holds of a new LoadBalanceClient.
LEMMA RegInitial ==
  ASSUME Len(Servers) \in Nat, RegistryInit
  PROVE  RegInv
<1>1. activeClients = InitialList /\ doubled = Doubled(activeClients)
  BY DEF RegistryInit
<1>2. activeClients \in Seq(Entries) /\ \A i \in 1 .. Len(activeClients) : activeClients[i].backend = Nil
  BY <1>1, InitialEntries
<1>3. RegTypes
  BY DEF RegistryInit, RegTypes
<1>4. SinglePlaces(activeClients)
  BY <1>1, <1>2, DoubledMeans DEF SinglePlaces
<1>5. \A a \in Names : activeClientMap[a] = Nil
  BY DEF RegistryInit
<1>6. MapHolds(activeClients, activeClientMap)
  BY <1>2, <1>5 DEF MapHolds
<1> QED  BY <1>2, <1>3, <1>4, <1>6 DEF RegInv

\* AddBackend keeps it: with two entries of one alias that alias is doubled.
LEMMA AddInsertKeeps ==
  ASSUME RegInv, Nil \notin Added, ~panicked, NEW b \in Added, AddInsert(b)
  PROVE  RegInv'
<1> DEFINE a == given[b]
           e == [backend |-> b, alias |-> a]
           n == Len(activeClients)
<1>1. /\ RegTypes /\ activeClients \in Seq(Entries)
      /\ SinglePlaces(activeClients) /\ MapHolds(activeClients, activeClientMap)
  BY DEF RegInv
<1>2. a \in Names
  BY <1>1 DEF RegTypes, AddInsert
<1>3. /\ activeClients' = Append(activeClients, e) /\ doubled' = doubled \cup Doubled(activeClients')
      /\ activeClientMap' = [activeClientMap EXCEPT ![a] = b] /\ UNCHANGED <<given, panicked>>
      /\ adding' = [adding EXCEPT ![b] = "added"]
  BY DEF AddInsert
<1>4. e \in Entries /\ e.backend = b /\ e.alias = a /\ n \in Nat
  BY <1>1, <1>2 DEF Entries
<1>5. /\ activeClientMap'[a] = b /\ b # Nil
      /\ \A c \in Names \ {a} : activeClientMap'[c] = activeClientMap[c]
  BY <1>1, <1>2, <1>3 DEF RegTypes
<1>6. RegTypes'
  BY <1>1, <1>3 DEF RegTypes
<1> HIDE DEF e, a
<1>7. /\ activeClients' \in Seq(Entries) /\ Len(activeClients') = n + 1 /\ activeClients'[n + 1] = e
      /\ \A i \in 1 .. n : activeClients'[i] = activeClients[i]
  BY <1>1, <1>3, <1>4
<1>8. SinglePlaces(activeClients)'
  <2> SUFFICES ASSUME NEW c \in Names \ doubled' PROVE c \notin Doubled(activeClients')
    BY <1>7, DoubledMeans DEF SinglePlaces
  <2> QED  BY <1>3
<1>9. MapHolds(activeClients, activeClientMap)'
  <2> SUFFICES ASSUME NEW c \in Names \ doubled'
               PROVE  /\ \A i \in 1 .. n + 1 : activeClients'[i].alias = c /\ activeClients'[i].backend # Nil =>
                                                 activeClientMap'[c] = activeClients'[i].backend
                      /\ activeClientMap'[c] # Nil =>
                           \E i \in 1 .. n + 1 : /\ activeClients'[i].alias = c
                                                 /\ activeClients'[i].backend = activeClientMap'[c]
    BY <1>7 DEF MapHolds
  <2>1. CASE c = a
    <3>1. n + 1 \in 1 .. n + 1
      BY <1>4
    <3>2. \A i \in 1 .. n + 1 : activeClients'[i].alias = a => i = n + 1
      BY <1>4, <1>7, <1>8, <2>1, <3>1 DEF SinglePlaces
    <3> QED  BY <1>4, <1>5, <1>7, <2>1, <3>1, <3>2
  <2>2. CASE c # a
    <3>1. \A i \in 1 .. n + 1 : activeClients'[i].alias = c => i \in 1 .. n
      BY <1>4, <1>7, <2>2
    <3>2. c \in Names \ doubled /\ activeClientMap'[c] = activeClientMap[c]
      BY <1>3, <1>5, <2>2
    <3>3. \A i \in 1 .. n : i \in 1 .. n + 1
      BY <1>4
    <3> QED  BY <1>1, <1>7, <3>1, <3>2, <3>3 DEF MapHolds
  <2> QED  BY <2>1, <2>2
<1> QED  BY <1>3, <1>6, <1>7, <1>8, <1>9 DEF RegInv

\* What RemoveBackend(a) leaves, unless it panics.
LEMMA RemoveBackendLeaves ==
  ASSUME RegInv, ~panicked, NEW a \in Names, RemoveBackend(a)
  PROVE  /\ panicked' <=> Twice(activeClients, a)
         /\ activeClients' \in Seq(Entries)
         /\ TakenOut(activeClients, activeClients', a)
         /\ (a \notin doubled /\ ~panicked') =>
             \A j \in 1 .. Len(activeClients') : activeClients'[j].alias # a
<1> DEFINE r == Rounds(a)
           n == Len(activeClients)
<1>1. activeClients \in Seq(Entries) /\ SinglePlaces(activeClients)
  BY DEF RegInv
<1>2. n \in Nat /\ activeClients = [j \in 1 .. n |-> activeClients[j]] /\ DOMAIN activeClients = 1 .. n
  BY <1>1
<1>3. LoopInv(activeClients, r, n, a)
  BY <1>2, LoopEnd
<1>4. activeClients' = SubSeq(r.cells, 1, r.len) /\ panicked' = r.bad
  BY DEF RemoveBackend
<1> HIDE DEF r
<1>5. LoopTypes(activeClients, r) /\ Shifts(activeClients, r, a)
  BY <1>3 DEF LoopInv
<1>6. /\ activeClients' \in Seq(Entries) /\ Len(activeClients') = r.len
      /\ \A j \in 1 .. r.len : activeClients'[j] = r.cells[j]
  BY <1>1, <1>4, <1>5, NewList
<1>7. panicked' <=> Twice(activeClients, a)
  BY <1>3, <1>4 DEF LoopInv, BadIfTwice
<1>8. TakenOut(activeClients, activeClients', a)
  <2> DEFINE l == r.len
             c == r.cells
  <2>1. PICK moved \in [1 .. l -> 0 .. n - l] :
          /\ \A j, k \in 1 .. l : j < k => moved[j] <= moved[k]
          /\ \A j \in 1 .. l : c[j] = activeClients[j + moved[j]]
          /\ \A i \in 1 .. n : activeClients[i].alias # a => \E j \in 1 .. l : i = j + moved[j]
    BY <1>5 DEF Shifts
  <2>2. Len(activeClients') = l /\ DOMAIN activeClients' = 1 .. l /\ \A j \in 1 .. l : activeClients'[j] = c[j]
    BY <1>6
  <2> HIDE DEF l, c
  <2>3. \A j \in 1 .. l : activeClients'[j] = activeClients[j + moved[j]]
    BY <2>1, <2>2
  <2> QED  BY <1>2, <2>1, <2>2, <2>3 DEF TakenOut
<1>9. ASSUME a \notin doubled, ~panicked', NEW j \in 1 .. Len(activeClients')
      PROVE  activeClients'[j].alias # a
  <2>1. \A i, k \in 1 .. n : activeClients[i].alias = a /\ activeClients[k].alias = a => i = k
    BY <1>1, <1>9 DEF SinglePlaces
  <2>2. j \in 1 .. r.len /\ r.len \in 0 .. n
    BY <1>5, <1>6 DEF LoopTypes
  <2>3. j \in 1 .. n
    BY <1>2, <2>2
  <2>4. \/ Untouched(activeClients, r, n, a)
        \/ \A i \in 1 .. n : i <= r.len \/ i > n => r.cells[i].alias # a
    BY <1>3, <2>1 DEF LoopInv, AllFound
  <2>5. r.cells[j].alias # a
    BY <2>2, <2>3, <2>4 DEF Untouched
  <2> QED  BY <1>6, <2>2, <2>5
<1> QED  BY <1>6, <1>7, <1>8, <1>9

\* RemoveBackend keeps it: entries of other aliases only move.
LEMMA RemoveBackendKeeps ==
  ASSUME RegInv, ~panicked, NEW a \in Names, RemoveBackend(a)
  PROVE  RegInv'
<1> DEFINE n == Len(activeClients)
           l == Len(activeClients')
<1>1. /\ RegTypes /\ activeClients \in Seq(Entries)
      /\ SinglePlaces(activeClients) /\ MapHolds(activeClients, activeClientMap)
  BY DEF RegInv
<1>2. activeClientMap' = [activeClientMap EXCEPT ![a] = Nil] /\ UNCHANGED <<adding, given, doubled>>
  BY DEF RemoveBackend
<1>3. RegTypes'
  BY <1>1, <1>2 DEF RegTypes
<1>4. activeClientMap'[a] = Nil /\ \A c \in Names \ {a} : activeClientMap'[c] = activeClientMap[c]
  BY <1>1, <1>2 DEF RegTypes
<1> SUFFICES ASSUME ~panicked'
             PROVE  (/\ activeClients \in Seq(Entries)
                     /\ SinglePlaces(activeClients) /\ MapHolds(activeClients, activeClientMap))'
  BY <1>3 DEF RegInv
<1>5. /\ activeClients' \in Seq(Entries) /\ TakenOut(activeClients, activeClients', a)
      /\ a \notin doubled => \A j \in 1 .. l : activeClients'[j].alias # a
  BY RemoveBackendLeaves
<1>6. n \in Nat /\ l \in Nat /\ DOMAIN activeClients = 1 .. n /\ DOMAIN activeClients' = 1 .. l
  BY <1>1, <1>5
<1>7. PICK moved \in [1 .. l -> 0 .. n - l] :
        /\ \A j, k \in 1 .. l : j < k => moved[j] <= moved[k]
        /\ \A j \in 1 .. l : activeClients'[j] = activeClients[j + moved[j]]
        /\ \A i \in 1 .. n : activeClients[i].alias # a => \E j \in 1 .. l : i = j + moved[j]
  BY <1>5, <1>6 DEF TakenOut
<1> HIDE DEF l, n
<1>8. \A j \in 1 .. l : moved[j] \in 0 .. n - l
  BY <1>7
<1>9. \A j \in 1 .. l : moved[j] \in Nat /\ j + moved[j] \in 1 .. n
  BY <1>6, <1>8
<1>10. ASSUME NEW c \in Names \ doubled, NEW j \in 1 .. l, NEW k \in 1 .. l,
              activeClients'[j].alias = c, activeClients'[k].alias = c
       PROVE  j = k
  <2>1. activeClients[j + moved[j]].alias = c /\ activeClients[k + moved[k]].alias = c
    BY <1>7, <1>10
  <2>2. j + moved[j] = k + moved[k]
    BY <1>1, <1>9, <2>1 DEF SinglePlaces, n
  <2>3. (j < k => moved[j] <= moved[k]) /\ (k < j => moved[k] <= moved[j])
    BY <1>7
  <2>4. j \in Nat /\ k \in Nat /\ moved[j] \in Nat /\ moved[k] \in Nat
    BY <1>6, <1>9
  <2> QED  BY <2>2, <2>3, <2>4
<1>11. ASSUME NEW c \in Names \ doubled
       PROVE  /\ \A i \in 1 .. l : activeClients'[i].alias = c /\ activeClients'[i].backend # Nil =>
                                     activeClientMap'[c] = activeClients'[i].backend
              /\ activeClientMap'[c] # Nil =>
                   \E i \in 1 .. l : /\ activeClients'[i].alias = c
                                     /\ activeClients'[i].backend = activeClientMap'[c]
  <2>1. CASE c = a
    BY <1>4, <1>5, <2>1
  <2>2. CASE c # a
    <3>1. activeClientMap'[c] = activeClientMap[c]
      BY <1>4, <2>2
    <3>2. ASSUME NEW i \in 1 .. l, activeClients'[i].alias = c, activeClients'[i].backend # Nil
          PROVE  activeClientMap'[c] = activeClients'[i].backend
      BY <1>1, <1>7, <1>9, <3>1, <3>2 DEF MapHolds, n
    <3>3. ASSUME activeClientMap'[c] # Nil
          PROVE  \E i \in 1 .. l : /\ activeClients'[i].alias = c
                                   /\ activeClients'[i].backend = activeClientMap'[c]
      <4>1. PICK i \in 1 .. n : activeClients[i].alias = c /\ activeClients[i].backend = activeClientMap[c]
        BY <1>1, <3>1, <3>3 DEF MapHolds, n
      <4>2. PICK j \in 1 .. l : i = j + moved[j]
        BY <1>7, <2>2, <4>1
      <4>3. activeClients'[j] = activeClients[i]
        BY <1>7, <4>2
      <4> QED  BY <3>1, <4>1, <4>3
    <3> QED  BY <3>2, <3>3
  <2> QED  BY <2>1, <2>2
<1>12. SinglePlaces(activeClients)'
  BY <1>2, <1>10 DEF SinglePlaces, l
<1>13. MapHolds(activeClients, activeClientMap)'
  BY <1>2, <1>11 DEF MapHolds, l
<1> QED  BY <1>5, <1>12, <1>13

\* Every step keeps RegInv.
LEMMA RegStep ==
  ASSUME RegInv, Nil \notin Added, [RegistryNext]_registryVars
  PROVE  RegInv'
<1>1. CASE UNCHANGED registryVars
  BY <1>1 DEF registryVars, RegInv, RegTypes, SinglePlaces, MapHolds
<1>2. ASSUME NEW b \in Added, NEW a \in Names, AddCheck(b, a) PROVE RegInv'
  <2>1. RegTypes' /\ UNCHANGED <<activeClients, activeClientMap, doubled, panicked>>
    BY <1>2 DEF RegInv, RegTypes, AddCheck
  <2> QED  BY <2>1 DEF RegInv, SinglePlaces, MapHolds
<1>3. ASSUME RegistryNext PROVE RegInv'
  BY <1>2, <1>3, AddInsertKeeps, RemoveBackendKeeps DEF RegistryNext
<1> QED  BY <1>1, <1>3

\* For any server list, any number of AddBackends and however the look at the
\* map and the insertion interleave, activeClientMap has exactly the backends
\* that AddBackend put in activeClients, but for an alias that was in the list
\* twice.
THEOREM MapHasTheList == RegistrySpec => []MapMatchesList
<1>1. RegInv => MapMatchesList
  <2> SUFFICES ASSUME RegInv, ~panicked, NEW a \in Names \ doubled
               PROVE  {activeClients[i].backend : i \in With(activeClients, a)} \ {Nil} =
                        {activeClientMap[a]} \ {Nil}
    BY DEF MapMatchesList
  <2>1. activeClients \in Seq(Entries) /\ MapHolds(activeClients, activeClientMap)
    BY DEF RegInv
  <2>2. With(activeClients, a) = {i \in 1 .. Len(activeClients) : activeClients[i].alias = a}
    BY <2>1 DEF With
  <2> QED  BY <2>1, <2>2 DEF MapHolds
<1>2. RegistryInit => RegInv
  BY RegInitial, RegistryAssumption
<1>3. RegInv /\ [RegistryNext]_registryVars => RegInv'
  BY RegStep, RegistryAssumption
<1> QED  BY <1>1, <1>2, <1>3, PTL DEF RegistrySpec

\* RemoveBackend slices out of range exactly when the alias is in the list twice
\* and last; otherwise it takes out only entries with the alias, leaves the
\* others in their order, and takes out all unless there were two, for lists of
\* any length.
THEOREM RemovesOnlyTheAlias == RegistrySpec => RemovesOnly
<1> DEFINE Removes ==
      \A a \in Names :
       (activeClientMap[a] # Nil /\ activeClientMap'[a] = Nil) =>
         /\ panicked' <=> /\ a \in Doubled(activeClients)
                          /\ Last(activeClients).alias = a
         /\ ~panicked' => /\ TakenOut(activeClients, activeClients', a)
                          /\ a \in doubled \/ With(activeClients', a) = {}
<1>1. ASSUME RegInv, RegistryNext PROVE Removes
  <2> SUFFICES ASSUME NEW a \in Names, activeClientMap[a] # Nil, activeClientMap'[a] = Nil
               PROVE  /\ panicked' <=> a \in Doubled(activeClients) /\ Last(activeClients).alias = a
                      /\ ~panicked' => /\ TakenOut(activeClients, activeClients', a)
                                       /\ a \in doubled \/ With(activeClients', a) = {}
    OBVIOUS
  <2>1. ~panicked /\ RegTypes /\ activeClients \in Seq(Entries)
    BY <1>1 DEF RegistryNext, RegInv
  <2>2. ASSUME NEW b \in Added, AddInsert(b) PROVE FALSE
    BY <2>1, <2>2, RegistryAssumption DEF AddInsert, RegTypes
  <2>3. ASSUME NEW b \in Added, NEW c \in Names, AddCheck(b, c) PROVE FALSE
    BY <2>3 DEF AddCheck
  <2>4. ASSUME NEW c \in Names, RemoveBackend(c) PROVE c = a
    BY <2>1, <2>4 DEF RemoveBackend, RegTypes
  <2>5. RemoveBackend(a)
    BY <1>1, <2>2, <2>3, <2>4 DEF RegistryNext
  <2>6. /\ panicked' <=> Twice(activeClients, a)
        /\ activeClients' \in Seq(Entries)
        /\ TakenOut(activeClients, activeClients', a)
        /\ (a \notin doubled /\ ~panicked') =>
             \A j \in 1 .. Len(activeClients') : activeClients'[j].alias # a
    BY <1>1, <2>1, <2>5, RemoveBackendLeaves
  <2>7. Twice(activeClients, a) <=> a \in Doubled(activeClients) /\ Last(activeClients).alias = a
    <3>1. Last(activeClients) = activeClients[Len(activeClients)]
      BY DEF Last
    <3>2. Len(activeClients) \in Nat
      BY <2>1
    <3>3. ASSUME Twice(activeClients, a) PROVE a \in Doubled(activeClients)
      <4>1. PICK j \in 1 .. Len(activeClients) - 1 : activeClients[j].alias = a
        BY <3>3 DEF Twice
      <4>2. /\ j \in 1 .. Len(activeClients) /\ Len(activeClients) \in 1 .. Len(activeClients)
            /\ j # Len(activeClients)
        BY <3>2, <4>1
      <4>3. activeClients[Len(activeClients)].alias = a
        BY <3>3 DEF Twice
      <4> QED  BY <2>1, <4>1, <4>2, <4>3, DoubledMeans
    <3>4. ASSUME a \in Doubled(activeClients), activeClients[Len(activeClients)].alias = a
          PROVE  Twice(activeClients, a)
      <4>1. PICK i, j \in 1 .. Len(activeClients) :
              i # j /\ activeClients[i].alias = a /\ activeClients[j].alias = a
        BY <2>1, <3>4, DoubledMeans
      <4>2. i \in 1 .. Len(activeClients) - 1 \/ j \in 1 .. Len(activeClients) - 1
        BY <3>2, <4>1
      <4> QED  BY <3>4, <4>1, <4>2 DEF Twice
    <3> QED  BY <3>1, <3>3, <3>4 DEF Twice
  <2>8. (a \notin doubled /\ ~panicked') => With(activeClients', a) = {}
    BY <2>6 DEF With
  <2> QED  BY <2>6, <2>7, <2>8
<1>2. RegInv /\ [RegistryNext]_registryVars => [Removes]_registryVars
  BY <1>1
<1>3. RegistryInit => RegInv
  BY RegInitial, RegistryAssumption
<1>4. RegInv /\ [RegistryNext]_registryVars => RegInv'
  BY RegStep, RegistryAssumption
<1> QED  BY <1>2, <1>3, <1>4, PTL DEF RegistrySpec, RemovesOnly
-----------------------------------------------------------------------------
(* The HTTP adapter, whose requests load balancing clients serve.          *)

\* The calls of RemoveRoute, and the places whose routes one leaves.
Calls == [host : Hosts, exp : Exps, list : Seq(Routes), before : Seq(Routes), hosts : Nat]
Left(call) == {i \in 1 .. Len(call.before) : call.before[i].exp # call.exp}

\* What the loop of RemoveRoute has done to its list: the route in place j was
\* in place at[j].  Only routes with the expression are lost, and the last stays.
Moves(call, at) ==
  LET n == Len(call.before) IN
    /\ at \in [1 .. n -> 1 .. n] /\ at[n] = n
    /\ \A j, k \in 1 .. n : j < k => at[j] <= at[k]
    /\ \A j \in 1 .. n : call.list[j] = call.before[at[j]]
    /\ \A i \in Left(call) : \E j \in 1 .. n : i = at[j]
\* The routes of the host: as they were, or, after a round, the list without
\* its last place, which has the same route as the one before it.  Or the loop
\* never ends.
HostRoutes(call, host, at) ==
  LET n == Len(call.before) IN
    \/ host = call.before /\ call.list = call.before
    \/ host = Front(call.list) /\ (call.before[n].exp = call.exp \/ (n > 1 /\ at[n - 1] = n))
    \/ Found # {} /\ ~(First < call.hosts)
RouteInv ==
  /\ routes \in [Hosts -> Seq(Routes)]
  /\ removing # Null =>
       /\ removing \in Calls
       /\ Len(removing.list) = Len(removing.before) /\ Len(removing.before) > 0
       /\ \E at : Moves(removing, at) /\ HostRoutes(removing, routes[removing.host], at)

\* A list whose places stem, in order, from some places of another one, and
\* from each of them, routes a request the same way.
LEMMA RoutedAlike ==
  ASSUME NEW old, NEW P \in SUBSET Nat, NEW m \in Nat, NEW new, NEW at \in [1 .. m -> P],
         \A j, k \in 1 .. m : j < k => at[j] <= at[k],
         \A i \in P : \E j \in 1 .. m : i = at[j],
         \A j \in 1 .. m : new[j] = old[at[j]],
         NEW r
  PROVE  FindAmong(new, 1 .. m, r) = FindAmong(old, P, r)
<1> DEFINE New(ways) == {j \in 1 .. m : Matches(new[j].exp, r) \in ways}
           Old(ways) == {i \in P : Matches(old[i].exp, r) \in ways}
           full == {"full"}
           some == {"full", "part"}
           new1 == IF New(full) # {} THEN New(full) ELSE New(some)
           old1 == IF Old(full) # {} THEN Old(full) ELSE Old(some)
<1>1. /\ FindAmong(new, 1 .. m, r) = IF new1 = {} THEN Null ELSE new[Min(new1)].alias
      /\ FindAmong(old, P, r) = IF old1 = {} THEN Null ELSE old[Min(old1)].alias
  BY Zenon DEF FindAmong
<1>2. \A j \in 1 .. m : at[j] \in P
  OBVIOUS
<1>3. /\ \A j \in New(full) : at[j] \in Old(full)
      /\ \A j \in New(some) : at[j] \in Old(some)
      /\ \A i \in Old(full) : \E j \in New(full) : i = at[j]
      /\ \A i \in Old(some) : \E j \in New(some) : i = at[j]
  BY <1>2
<1>4. new1 \in SUBSET (1 .. m) /\ old1 \in SUBSET P
  OBVIOUS
<1> HIDE DEF New, Old
<1>5. /\ \A j \in new1 : at[j] \in old1
      /\ \A i \in old1 : \E j \in new1 : i = at[j]
  BY <1>3
<1> HIDE DEF new1, old1
<1>6. new1 = {} <=> old1 = {}
  BY <1>5
<1>7. ASSUME new1 # {} PROVE new[Min(new1)].alias = old[Min(old1)].alias
  <2> DEFINE j0 == Min(new1)
             i0 == Min(old1)
  <2>1. j0 \in new1 /\ \A j \in new1 : j0 <= j
    <3>1. new1 \in SUBSET Nat
      BY <1>4
    <3>2. \E j \in new1 : \A k \in new1 : j <= k
      BY <1>7, <3>1, LeastNumber
    <3> QED  BY <3>2, Zenon DEF Min
  <2>2. i0 \in old1 /\ \A i \in old1 : i0 <= i
    <3>1. old1 \in SUBSET Nat
      BY <1>4
    <3>2. \E i \in old1 : \A k \in old1 : i <= k
      BY <1>6, <1>7, <3>1, LeastNumber
    <3> QED  BY <3>2, Zenon DEF Min
  <2> HIDE DEF j0, i0
  <2>3. PICK j \in new1 : i0 = at[j]
    BY <1>5, <2>2
  <2>4. j0 \in 1 .. m /\ j \in 1 .. m /\ j0 <= j
    BY <1>4, <2>1
  <2>5. at[j0] <= at[j] /\ at[j0] \in Nat /\ at[j] \in Nat
    <3>1. at[j0] \in P /\ at[j] \in P
      BY <1>2, <2>4
    <3>2. at[j0] \in Nat /\ at[j] \in Nat
      BY <3>1
    <3>3. j0 < j => at[j0] <= at[j]
      BY <2>4
    <3>4. j0 = j \/ j0 < j
      BY <2>4
    <3>5. j0 = j => at[j0] <= at[j]
      BY <3>2
    <3> QED  BY <3>2, <3>3, <3>4, <3>5
  <2>6. i0 <= at[j0]
    BY <1>5, <2>1, <2>2
  <2>7. at[j0] = i0
    BY <2>3, <2>5, <2>6
  <2>8. new[j0] = old[i0]
    BY <2>4, <2>7
  <2> QED  BY <2>8 DEF j0, i0
<1> QED  BY <1>1, <1>6, <1>7

\* The expression is found in the place First.
LEMMA FirstFound ==
  ASSUME removing \in Calls, Found # {}
  PROVE  First \in 1 .. Len(removing.list) /\ removing.list[First].exp = removing.exp
<1> DEFINE F == Found
<1>1. removing.list \in Seq(Routes)
  BY DEF Calls
<1>2. DOMAIN removing.list = 1 .. Len(removing.list) /\ Len(removing.list) \in Nat
  BY <1>1
<1>3. F = {i \in 1 .. Len(removing.list) : removing.list[i].exp = removing.exp}
  BY <1>2 DEF Found
<1>4. F \in SUBSET Nat
  BY <1>2, <1>3
<1> HIDE DEF F
<1>5. \E i \in F : \A j \in F : i <= j
  BY <1>4, LeastNumber DEF F
<1>6. First \in F
  BY <1>5, Zenon DEF First, F
<1> QED  BY <1>3, <1>6

\* A round that moves the routes behind the first match.
LEMMA RoundMoves ==
  ASSUME RouteInv, removing # Null, RemoveRound, First < removing.hosts
  PROVE  RouteInv'
<1> DEFINE n == Len(removing.before)
           i == First
           old == removing.list
           new == Shifted(old, i)
           before == removing.before
           h == removing.host
<1>1. /\ removing \in Calls /\ routes \in [Hosts -> Seq(Routes)]
      /\ Len(old) = n /\ n > 0
  BY DEF RouteInv
<1>2. PICK at : Moves(removing, at)
  BY DEF RouteInv
<1>3. /\ old \in Seq(Routes) /\ before \in Seq(Routes) /\ h \in Hosts
      /\ removing.exp \in Exps /\ removing.hosts \in Nat /\ n \in Nat
  BY <1>1 DEF Calls
<1>4. i \in 1 .. n /\ old[i].exp = removing.exp
  BY <1>1, FirstFound DEF RemoveRound
<1>5. removing' = [removing EXCEPT !.list = new]
  BY DEF RemoveRound
<1>6. routes' = [routes EXCEPT ![h] = Front(new)]
  BY DEF RemoveRound
<1>7. DOMAIN old = 1 .. n
  BY <1>1, <1>3
<1>8. /\ new = [j \in 1 .. n |-> new[j]]
      /\ \A j \in 1 .. n : new[j] = IF j >= i /\ j < n THEN old[j + 1] ELSE old[j]
  BY <1>1, <1>7 DEF Shifted
<1> HIDE DEF new
<1>9. \A j \in 1 .. n : old[j] \in Routes
  BY <1>1, <1>3
<1>10. \A j \in 1 .. n : new[j] \in Routes
  <2> SUFFICES ASSUME NEW j \in 1 .. n PROVE new[j] \in Routes
    OBVIOUS
  <2>1. CASE j >= i /\ j < n
    <3>1. j + 1 \in 1 .. n
      BY <1>3, <2>1
    <3> QED  BY <1>8, <1>9, <2>1, <3>1
  <2>2. CASE ~(j >= i /\ j < n)
    BY <1>8, <1>9, <2>2
  <2> QED  BY <2>1, <2>2
<1>11. new \in Seq(Routes) /\ Len(new) = n
  <2>1. new \in [1 .. n -> Routes] /\ DOMAIN new = 1 .. n
    BY <1>8, <1>10
  <2> HIDE DEF n
  <2>2. n \in Nat
    BY <1>3
  <2> QED  BY <2>1, <2>2
<1>12. Front(new) = Front(new) /\ Front(new) \in Seq(Routes)
  <2>1. Front(new) = SubSeq(new, 1, n - 1) /\ Front(new) = SubSeq(new, 1, n - 1)
    BY <1>11 DEF Front, Front
  <2>2. \A j \in 1 .. n - 1 : new[j] \in Routes
    BY <1>3, <1>10
  <2>3. 1 \in Int /\ n - 1 \in Int
    BY <1>3
  <2>4. SubSeq(new, 1, n - 1) \in Seq(Routes)
    BY <2>2, <2>3, SubSeqProperties
  <2> QED  BY <2>1, <2>4
<1>13. /\ removing' \in Calls /\ removing'.list = new /\ removing'.before = before
       /\ removing'.host = h /\ removing'.exp = removing.exp
  BY <1>1, <1>5, <1>11 DEF Calls
<1>14. routes' \in [Hosts -> Seq(Routes)] /\ routes'[h] = Front(new)
  BY <1>1, <1>3, <1>6, <1>12
<1>15. Left(removing') = Left(removing)
  BY <1>13 DEF Left
<1> DEFINE to == [j \in 1 .. n |-> IF j >= i /\ j < n THEN at[j + 1] ELSE at[j]]
<1>16. /\ at \in [1 .. n -> 1 .. n] /\ at[n] = n
       /\ \A j, k \in 1 .. n : j < k => at[j] <= at[k]
       /\ \A j \in 1 .. n : old[j] = before[at[j]]
       /\ \A x \in Left(removing) : \E j \in 1 .. n : x = at[j]
  BY <1>2 DEF Moves
<1>17. \A j \in 1 .. n : at[j] \in 1 .. n
  BY <1>16
<1>18. \A j \in 1 .. n : to[j] = IF j >= i /\ j < n THEN at[j + 1] ELSE at[j]
  OBVIOUS
<1>19. to \in [1 .. n -> 1 .. n]
  <2>1. ASSUME NEW j \in 1 .. n PROVE to[j] \in 1 .. n
    <3>1. CASE j >= i /\ j < n
      <4>1. j + 1 \in 1 .. n
        BY <1>3, <3>1
      <4> QED  BY <1>17, <1>18, <3>1, <4>1
    <3>2. CASE ~(j >= i /\ j < n)
      BY <1>17, <1>18, <3>2
    <3> QED  BY <3>1, <3>2
  <2> QED  BY <2>1
<1> HIDE DEF to
<1>20. to[n] = n
  BY <1>3, <1>1, <1>16, <1>18
<1>21. ASSUME NEW j \in 1 .. n, NEW k \in 1 .. n, j < k PROVE to[j] <= to[k]
  <2>1. \E x, y \in 1 .. n : to[j] = at[x] /\ to[k] = at[y] /\ x <= y
    <3>1. CASE j >= i /\ j < n /\ k >= i /\ k < n
      <4>1. j + 1 \in 1 .. n /\ k + 1 \in 1 .. n /\ j + 1 <= k + 1
        BY <1>3, <1>21, <3>1
      <4> QED  BY <1>18, <3>1, <4>1
    <3>2. CASE j >= i /\ j < n /\ ~(k >= i /\ k < n)
      <4>1. j + 1 \in 1 .. n /\ j + 1 <= k
        BY <1>3, <1>21, <3>2
      <4> QED  BY <1>18, <3>2, <4>1
    <3>3. CASE ~(j >= i /\ j < n) /\ k >= i /\ k < n
      <4>1. k + 1 \in 1 .. n /\ j <= k + 1
        BY <1>3, <1>21, <3>3
      <4> QED  BY <1>18, <3>3, <4>1
    <3>4. CASE ~(j >= i /\ j < n) /\ ~(k >= i /\ k < n)
      <4>1. j <= k
        BY <1>21
      <4> QED  BY <1>18, <3>4, <4>1
    <3> QED  BY <3>1, <3>2, <3>3, <3>4
  <2>2. PICK x, y \in 1 .. n : to[j] = at[x] /\ to[k] = at[y] /\ x <= y
    BY <2>1
  <2>3. at[x] \in 1 .. n /\ at[y] \in 1 .. n
    BY <1>17
  <2>4. at[x] \in Nat /\ at[y] \in Nat
    BY <1>3, <2>3
  <2>5. x < y => at[x] <= at[y]
    BY <1>16
  <2>6. x < y \/ x = y
    BY <2>2
  <2> QED  BY <2>2, <2>4, <2>5, <2>6
<1>22. ASSUME NEW j \in 1 .. n PROVE new[j] = before[to[j]]
  <2>1. CASE j >= i /\ j < n
    <3>1. j + 1 \in 1 .. n
      BY <1>3, <2>1
    <3>2. new[j] = old[j + 1] /\ to[j] = at[j + 1]
      BY <1>8, <1>18, <2>1
    <3>3. old[j + 1] = before[at[j + 1]]
      BY <1>16, <3>1
    <3> QED  BY <3>2, <3>3, Zenon
  <2>2. CASE ~(j >= i /\ j < n)
    <3>1. new[j] = old[j] /\ to[j] = at[j]
      BY <1>8, <1>18, <2>2
    <3>2. old[j] = before[at[j]]
      BY <1>16
    <3> QED  BY <3>1, <3>2, Zenon
  <2> QED  BY <2>1, <2>2
<1>23. ASSUME NEW x \in Left(removing) PROVE \E j \in 1 .. n : x = to[j]
  <2>1. PICK j \in 1 .. n : x = at[j]
    BY <1>16
  <2>2. j # i
    <3>1. before[x].exp # removing.exp
      BY DEF Left
    <3>2. old[j] = before[x]
      BY <1>16, <2>1
    <3> QED  BY <1>4, <3>1, <3>2
  <2>3. CASE j < i
    <3>1. ~(j >= i /\ j < n)
      BY <1>4, <2>3
    <3> QED  BY <1>18, <2>1, <3>1
  <2>4. CASE j > i
    <3>1. j - 1 \in 1 .. n /\ j - 1 >= i /\ j - 1 < n /\ (j - 1) + 1 = j
      BY <1>3, <1>4, <2>4
    <3> QED  BY <1>18, <2>1, <3>1
  <2> QED  BY <1>4, <2>2, <2>3, <2>4
<1>24. Moves(removing', to)
  BY <1>13, <1>15, <1>19, <1>20, <1>21, <1>22, <1>23 DEF Moves
<1>25. before[n].exp = removing.exp \/ (n > 1 /\ to[n - 1] = n)
  <2>1. CASE i = n
    <3>1. n \in 1 .. n
      BY <1>4, <2>1
    <3>2. old[n] = before[n]
      BY <1>16, <3>1
    <3> QED  BY <1>4, <2>1, <3>2
  <2>2. CASE i < n
    <3>1. n - 1 \in 1 .. n /\ n - 1 >= i /\ n - 1 < n /\ (n - 1) + 1 = n /\ n > 1
      BY <1>3, <1>4, <2>2
    <3> QED  BY <1>16, <1>18, <3>1
  <2> QED  BY <1>3, <1>4, <2>1, <2>2
<1>26. PICK c, l : c = to /\ l = n
  OBVIOUS
<1>27. Len(removing'.before) = l /\ Len(removing'.list) = l /\ l > 0
  BY <1>1, <1>11, <1>13, <1>26
<1>28. Moves(removing', c)
  BY <1>24, <1>26
<1>29. /\ routes'[removing'.host] = Front(removing'.list)
       /\ removing'.before[l].exp = removing'.exp \/ (l > 1 /\ c[l - 1] = l)
  BY <1>13, <1>14, <1>25, <1>26
<1> HIDE DEF n, i, old, before, h
<1>30. HostRoutes(removing, routes[removing.host], c)'
  BY <1>27, <1>29 DEF HostRoutes
<1> QED  BY <1>13, <1>14, <1>27, <1>28, <1>30 DEF RouteInv

\* A round that keeps the elements in front of the match is repeated for ever.
LEMMA RoundSticks ==
  ASSUME RouteInv, removing # Null, RemoveRound, ~(First < removing.hosts)
  PROVE  RouteInv'
<1> DEFINE h == removing.host
           i == First
           l == removing.list
<1>1. removing \in Calls /\ routes \in [Hosts -> Seq(Routes)]
  BY DEF RouteInv
<1>2. UNCHANGED removing /\ routes' = [routes EXCEPT ![h] = SubSeq(l, 1, i - 1)]
  BY DEF RemoveRound
<1>3. Found # {}
  BY DEF RemoveRound
<1>4. l \in Seq(Routes) /\ h \in Hosts /\ i \in 1 .. Len(l)
  BY <1>1, <1>3, FirstFound DEF Calls
<1>5. SubSeq(l, 1, i - 1) \in Seq(Routes)
  <2> HIDE DEF l, i
  <2>1. Len(l) \in Nat
    BY <1>4
  <2>2. 1 \in Int /\ i - 1 \in Int /\ \A j \in 1 .. i - 1 : j \in 1 .. Len(l)
    BY <1>4, <2>1
  <2>3. \A j \in 1 .. i - 1 : l[j] \in Routes
    BY <1>4, <2>2, ElementOfSeq
  <2> QED  BY <2>2, <2>3, SubSeqProperties
<1>6. routes' \in [Hosts -> Seq(Routes)]
  BY <1>1, <1>2, <1>4, <1>5
<1>7. PICK at : Moves(removing, at)
  BY DEF RouteInv
<1>8. Found' = Found /\ First' = First
  BY <1>2 DEF Found, First
<1>9. HostRoutes(removing, routes[removing.host], at)'
  BY <1>2, <1>3, <1>8 DEF HostRoutes
<1>10. Moves(removing', at)
  BY <1>2, <1>7
<1>11. /\ removing' \in Calls
       /\ Len(removing'.list) = Len(removing'.before) /\ Len(removing'.before) > 0
  BY <1>2 DEF RouteInv
<1> QED  BY <1>6, <1>9, <1>10, <1>11 DEF RouteInv

\* RemoveRoute begins with the list as it is.
LEMMA RemoveBeginKeeps ==
  ASSUME RouteInv, IsFiniteSet(Hosts), NEW h \in Hosts, NEW e \in Exps, RemoveBegin(h, e)
  PROVE  RouteInv'
<1> DEFINE hosts == Cardinality({g \in Hosts : routes[g] # <<>>})
           s == routes[h]
           n == Len(s)
<1>1. hosts \in Nat
  <2> DEFINE G == {g \in Hosts : routes[g] # <<>>}
  <2>1. Cardinality(G) = Cardinality(G)
    BY Zenon DEF Cardinality, Cardinality
  <2>2. G \in SUBSET Hosts
    OBVIOUS
  <2> HIDE DEF G
  <2>3. IsFiniteSet(G)
    BY <2>2, FS_Subset
  <2>4. Cardinality(G) \in Nat
    BY <2>3, FS_CardinalityType
  <2> QED  BY <2>1, <2>4 DEF G
<1>2. s \in Seq(Routes) /\ s # <<>> /\ routes \in [Hosts -> Seq(Routes)]
  BY DEF RouteInv, RemoveBegin
<1>3. n \in Nat /\ n > 0
  BY <1>2
<1>4. /\ removing' = [host |-> h, exp |-> e, list |-> s, before |-> s, hosts |-> hosts]
      /\ UNCHANGED routes
  BY DEF RemoveBegin
<1> HIDE DEF hosts, s
<1>5. /\ removing' \in Calls /\ removing'.list = s /\ removing'.before = s /\ removing'.host = h
      /\ removing'.exp = e
  BY <1>1, <1>2, <1>4 DEF Calls
<1> DEFINE at == [j \in 1 .. n |-> j]
<1>6. at \in [1 .. n -> 1 .. n] /\ \A j \in 1 .. n : at[j] = j
  OBVIOUS
<1>7. n \in 1 .. n
  BY <1>3
<1> HIDE DEF at, n
<1>8. PICK c, l : c = at /\ l = n
  OBVIOUS
<1>9. l = Len(removing'.before) /\ l = Len(removing'.list) /\ l > 0
  BY <1>3, <1>5, <1>8 DEF n
<1>10. Moves(removing, c)'
  <2>1. \A x \in Left(removing') : x \in 1 .. l
    BY <1>9 DEF Left
  <2>2. /\ c \in [1 .. l -> 1 .. l] /\ c[l] = l
        /\ \A j, k \in 1 .. l : j < k => c[j] <= c[k]
        /\ \A j \in 1 .. l : removing'.list[j] = removing'.before[c[j]]
        /\ \A x \in Left(removing') : \E j \in 1 .. l : x = c[j]
    BY <1>3, <1>5, <1>6, <1>7, <1>8, <2>1
  <2>3. Moves(removing', c)
    BY <1>9, <2>2, Zenon DEF Moves
  <2> QED  BY <2>3
<1>11. HostRoutes(removing, routes[removing.host], c)'
  <2>1. routes'[removing'.host] = removing'.before /\ removing'.list = removing'.before
    BY <1>4, <1>5 DEF s
  <2> QED  BY <2>1 DEF HostRoutes
<1>12. routes' \in [Hosts -> Seq(Routes)]
  BY <1>2, <1>4
<1> QED  BY <1>5, <1>9, <1>10, <1>11, <1>12 DEF RouteInv

\* Every step keeps RouteInv: others do not touch the routes while RemoveRoute
\* holds the lock.
LEMMA RouteStep ==
  ASSUME RouteInv, IsFiniteSet(Hosts), [AdapterNext]_adapterVars
  PROVE  RouteInv'
<1>1. CASE UNCHANGED <<routes, removing>>
  <2>1. Found' = Found /\ First' = First
    BY <1>1 DEF Found, First
  <2>2. CASE removing = Null
    BY <1>1, <2>2 DEF RouteInv
  <2>3. CASE removing # Null
    <3>1. PICK at : Moves(removing, at) /\ HostRoutes(removing, routes[removing.host], at)
      BY <2>3 DEF RouteInv
    <3>2. Moves(removing', at)
      BY <1>1, <3>1
    <3>3. HostRoutes(removing, routes[removing.host], at)'
      BY <1>1, <2>1, <3>1 DEF HostRoutes
    <3> QED  BY <1>1, <2>3, <3>2, <3>3 DEF RouteInv
  <2> QED  BY <2>2, <2>3
<1>2. ASSUME NEW h \in Hosts, NEW route \in Routes, PushRoute(h, route) PROVE RouteInv'
  <2>1. routes \in [Hosts -> Seq(Routes)] /\ removing' = Null
    BY <1>2 DEF RouteInv, PushRoute
  <2>2. PICK l \in {Append(routes[h], route), <<route>> \o routes[h]} :
          routes' = [routes EXCEPT ![h] = l]
    BY <1>2 DEF PushRoute
  <2>3. Append(routes[h], route) \in Seq(Routes) /\ <<route>> \o routes[h] \in Seq(Routes)
    BY <2>1
  <2>4. l \in Seq(Routes)
    BY <2>2, <2>3
  <2>5. routes' \in [Hosts -> Seq(Routes)]
    BY <2>1, <2>2, <2>4
  <2> QED  BY <2>1, <2>5 DEF RouteInv
<1>3. CASE RemoveRound
  <2>1. removing # Null
    BY <1>3 DEF RemoveRound
  <2> QED  BY <1>3, <2>1, RoundMoves, RoundSticks
<1>4. CASE RemoveReturn
  BY <1>4 DEF RemoveReturn, RouteInv
<1>5. \/ UNCHANGED <<routes, removing>>
      \/ \E h \in Hosts : \/ \E route \in Routes : PushRoute(h, route)
                          \/ \E e \in Exps : RemoveBegin(h, e)
      \/ RemoveRound \/ RemoveReturn
  BY DEF AdapterNext, adapterVars, tables, ServeHTTP, RouteOn, RegisterBackend,
         AdapterRemoveBackend, RegisterRouteFunc, RemoveStep, Route,
         Fill, Execute, Expressions, GetBackend
<1> QED  BY <1>1, <1>2, <1>3, <1>4, <1>5, RemoveBeginKeeps

\* What RemoveRoute leaves when it returns.
LEMMA ReturnLeaves ==
  ASSUME RouteInv, RemoveReturn, NEW r \in Requests
  PROVE  FindRegExpRoute(routes'[removing.host], r) =
           FindAmong(removing.before, Left(removing), r)
<1> DEFINE n == Len(removing.before)
           before == removing.before
           l == removing.list
           P == Left(removing)
           host == routes[removing.host]
<1>1. removing # Null /\ Found = {} /\ UNCHANGED routes
  BY DEF RemoveReturn
<1>2. /\ removing \in Calls /\ Len(l) = n /\ n > 0
  BY <1>1 DEF RouteInv
<1>3. PICK at : Moves(removing, at) /\ HostRoutes(removing, host, at)
  BY <1>1 DEF RouteInv
<1>4. l \in Seq(Routes) /\ before \in Seq(Routes) /\ n \in Nat
  BY <1>2 DEF Calls
<1>5. /\ at \in [1 .. n -> 1 .. n] /\ at[n] = n
      /\ \A j, k \in 1 .. n : j < k => at[j] <= at[k]
      /\ \A j \in 1 .. n : l[j] = before[at[j]]
      /\ \A i \in P : \E j \in 1 .. n : i = at[j]
  BY <1>3 DEF Moves
<1>6. DOMAIN l = 1 .. n
  BY <1>2, <1>4
<1>7. \A j \in 1 .. n : l[j].exp # removing.exp
  BY <1>1, <1>6 DEF Found
<1>8. \A j \in 1 .. n : at[j] \in P
  <2> SUFFICES ASSUME NEW j \in 1 .. n PROVE at[j] \in P
    OBVIOUS
  <2>1. at[j] \in 1 .. n /\ before[at[j]].exp # removing.exp
    BY <1>5, <1>7
  <2> QED  BY <2>1 DEF Left
<1>9. P \in SUBSET Nat
  BY <1>4 DEF Left
<1>10. before[n].exp # removing.exp
  <2>1. n \in 1 .. n
    BY <1>2, <1>4
  <2> QED  BY <1>5, <1>7, <2>1
<1>11. \/ host = before /\ l = before
       \/ host = Front(l) /\ n > 1 /\ at[n - 1] = n
  BY <1>1, <1>3, <1>10 DEF HostRoutes
<1> HIDE DEF n, before, l, P, host
<1>12. \E m \in 0 .. n : /\ DOMAIN host = 1 .. m /\ \A j \in 1 .. m : host[j] = before[at[j]]
                         /\ \A i \in P : \E j \in 1 .. m : i = at[j]
  <2>1. CASE host = before /\ l = before
    <3>1. n \in 0 .. n /\ DOMAIN host = 1 .. n
      BY <1>4, <1>6, <2>1
    <3>2. \A j \in 1 .. n : host[j] = before[at[j]]
      BY <1>5, <2>1
    <3> QED  BY <1>5, <3>1, <3>2
  <2>2. CASE host = Front(l) /\ n > 1 /\ at[n - 1] = n
    <3>1. host = SubSeq(l, 1, n - 1)
      BY <1>2, <2>2 DEF Front, l, n
    <3>2. 1 \in Int /\ n - 1 \in Int /\ n - 1 \in 0 .. n /\ n - 1 \in 1 .. n - 1
      BY <1>4, <2>2
    <3>3. \A j \in 1 .. n - 1 : j \in 1 .. n
      BY <1>4
    <3>4. \A j \in 1 .. n - 1 : l[j] \in Routes
      BY <1>2, <1>4, <3>3, ElementOfSeq DEF l, n
    <3>5. /\ host \in Seq(Routes) /\ Len(host) = (IF 1 <= n - 1 THEN n - 1 - 1 + 1 ELSE 0)
          /\ \A j \in 1 .. n - 1 - 1 + 1 : host[j] = l[1 + j - 1]
      BY <3>1, <3>2, <3>4, SubSeqProperties
    <3>6. Len(host) = n - 1
      BY <1>4, <2>2, <3>5
    <3>7. DOMAIN host = 1 .. n - 1
      BY <3>5, <3>6
    <3>8. ASSUME NEW j \in 1 .. n - 1 PROVE host[j] = before[at[j]]
      <4>1. j \in 1 .. n - 1 - 1 + 1 /\ 1 + j - 1 = j
        BY <1>4
      <4>2. host[j] = l[j]
        BY <3>5, <4>1
      <4> QED  BY <1>5, <3>3, <4>2
    <3>9. ASSUME NEW i \in P PROVE \E j \in 1 .. n - 1 : i = at[j]
      <4>1. PICK j \in 1 .. n : i = at[j]
        BY <1>5
      <4>2. CASE j = n
        BY <1>5, <2>2, <3>2, <4>1, <4>2
      <4>3. CASE j # n
        <5>1. j \in 1 .. n - 1
          BY <1>4, <4>3
        <5> QED  BY <4>1, <5>1
      <4> QED  BY <4>2, <4>3
    <3> QED  BY <3>2, <3>7, <3>8, <3>9
  <2> QED  BY <1>11, <2>1, <2>2
<1>13. PICK m \in 0 .. n : /\ DOMAIN host = 1 .. m /\ \A j \in 1 .. m : host[j] = before[at[j]]
                           /\ \A i \in P : \E j \in 1 .. m : i = at[j]
  BY <1>12
<1> DEFINE to == [j \in 1 .. m |-> at[j]]
<1>14. m \in Nat /\ \A j \in 1 .. m : j \in 1 .. n
  BY <1>4
<1>15. to \in [1 .. m -> P] /\ \A j \in 1 .. m : to[j] = at[j]
  BY <1>8, <1>14
<1> HIDE DEF to
<1>16. \A j, k \in 1 .. m : j < k => to[j] <= to[k]
  BY <1>5, <1>14, <1>15
<1>17. \A i \in P : \E j \in 1 .. m : i = to[j]
  BY <1>13, <1>15
<1>18. \A j \in 1 .. m : host[j] = before[to[j]]
  BY <1>13, <1>15
<1>19. FindAmong(host, 1 .. m, r) = FindAmong(before, P, r)
  BY <1>9, <1>14, <1>15, <1>16, <1>17, <1>18, RoutedAlike, SMTT(30)
<1>20. FindRegExpRoute(host, r) = FindAmong(host, 1 .. m, r)
  BY <1>13, Zenon DEF FindRegExpRoute
<1>21. routes'[removing.host] = host
  BY <1>1 DEF host
<1> QED  BY <1>19, <1>20, <1>21 DEF before, P

\* If RemoveRoute returns, every request is routed as if exactly the routes with
\* the expression had been taken out, although the loop moves elements in the
\* array it goes on reading, for lists of any length and any number of hosts.
THEOREM RoutesRemovedExactly == AdapterSpec => RemovedExactly
<1> DEFINE Exactly ==
      (removing # Null /\ removing' = Null) =>
        \A r \in Requests :
          FindRegExpRoute(routes'[removing.host], r) =
            FindAmong(removing.before,
                  {i \in DOMAIN removing.before : removing.before[i].exp # removing.exp}, r)
<1>0. IsFiniteSet(Hosts) /\ Configured \subseteq [Hosts -> Seq(Routes)] /\ Null \notin Calls
  BY AdapterAssumption DEF Calls
<1>1. AdapterInit => RouteInv
  BY <1>0 DEF AdapterInit, RouteInv
<1>2. RouteInv /\ [AdapterNext]_adapterVars => RouteInv'
  BY <1>0, RouteStep
<1>3. ASSUME RouteInv, AdapterNext, removing # Null, removing' = Null, NEW r \in Requests
      PROVE  FindRegExpRoute(routes'[removing.host], r) =
               FindAmong(removing.before,
                  {i \in DOMAIN removing.before : removing.before[i].exp # removing.exp}, r)
  <2>1. removing \in Calls
    BY <1>3 DEF RouteInv
  <2>2. ~RemoveRound
    <3> SUFFICES ASSUME RemoveRound PROVE FALSE
      OBVIOUS
    <3>1. CASE First < removing.hosts
      <4>1. removing' = [removing EXCEPT !.list = Shifted(removing.list, First)]
        BY <3>1 DEF RemoveRound
      <4> DEFINE new == Shifted(removing.list, First)
                 l == removing.list
      <4>2. l \in Seq(Routes) /\ Len(l) \in Nat /\ DOMAIN l = 1 .. Len(l)
        BY <2>1 DEF Calls
      <4>3. First \in 1 .. Len(l)
        BY <2>1, FirstFound DEF RemoveRound
      <4>4. new = [j \in 1 .. Len(l) |-> IF j >= First /\ j < Len(l) THEN l[j + 1] ELSE l[j]]
        BY <4>2 DEF Shifted
      <4> HIDE DEF l
      <4>5. \A j \in 1 .. Len(l) : l[j] \in Routes /\ (j < Len(l) => l[j + 1] \in Routes)
        <5>1. \A j \in 1 .. Len(l) : j < Len(l) => j + 1 \in 1 .. Len(l)
          BY <4>2
        <5> QED  BY <4>2, <5>1, ElementOfSeq
      <4>6. new \in [1 .. Len(l) -> Routes]
        BY <4>4, <4>5
      <4> HIDE DEF new
      <4>7. new \in Seq(Routes)
        BY <4>2, <4>6
      <4>8. [removing EXCEPT !.list = new] \in Calls
        BY <2>1, <4>7 DEF Calls
      <4> QED  BY <1>0, <1>3, <4>1, <4>8 DEF new
    <3>2. CASE ~(First < removing.hosts)
      BY <1>3, <3>2 DEF RemoveRound
    <3> QED  BY <3>1, <3>2
  <2>3. RemoveReturn
    BY <1>3, <2>2
       DEF AdapterNext, ServeHTTP, RouteOn, RegisterBackend, AdapterRemoveBackend,
           RegisterRouteFunc, PushRoute, RemoveBegin, RemoveStep,
           Route, Fill, Execute, Expressions, GetBackend,
           tables
  <2>4. removing.before \in Seq(Routes)
    BY <2>1 DEF Calls
  <2>5. Left(removing) = {i \in DOMAIN removing.before : removing.before[i].exp # removing.exp}
    BY <2>4 DEF Left
  <2> QED  BY <1>3, <2>3, <2>5, ReturnLeaves
<1>4. RouteInv /\ [AdapterNext]_adapterVars => [Exactly]_adapterVars
  BY <1>3
<1> QED  BY <1>1, <1>2, <1>4, PTL DEF AdapterSpec, RemovedExactly
=============================================================================
