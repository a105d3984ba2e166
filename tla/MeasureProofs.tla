---------------------------- MODULE MeasureProofs ----------------------------
(***************************************************************************)
(* Proofs about Measure, for a ring of any length, any number of calls of  *)
(* Add and any time.                                                       *)
(***************************************************************************)
EXTENDS Measure, TLAPS

\* A second has begun for which tickTack has not moved on.
Due == IF clock % Minute = tm THEN 0 ELSE 1

\* How far the ring has moved on since Add a read its slot, modulo its length.
Distance(a) ==
  IF currentSecond >= idx[a] THEN currentSecond - idx[a]
                             ELSE currentSecond - idx[a] + LastSlot + 1

\* Add a began less than the window ago.
Recent(a) == add[a] # "new" /\ clock - began[a] < LastSlot - 1

\* A request that is counted and was not counted too late.
Counted(a) == a \in fiveMinuteRequests[idx[a]] \ slow

Types ==
  /\ clock \in Nat /\ stalled \in BOOLEAN
  /\ tick \in {"wait", "requests", "timecount"} /\ currentSecond \in Slots
  /\ fiveMinuteRequests \in [Slots -> SUBSET Adds]
  /\ fiveMinuteTimeCount \in [Slots -> SUBSET Adds]
  /\ add \in [Adds -> {"new", "requests", "timecount", "done"}]
  /\ idx \in [Adds -> Slots] /\ began \in [Adds -> Nat] /\ slow \subseteq Adds

\* A request is counted in the slot it read, and nowhere else.
Stored ==
  \A s \in Slots, a \in Adds :
    /\ a \in fiveMinuteRequests[s] => s = idx[a] /\ add[a] \in {"timecount", "done"}
    /\ a \in fiveMinuteTimeCount[s] => s = idx[a] /\ add[a] = "done"

\* The ring moves on at most once for each second, and once for the second
\* that was under way.
NotAhead ==
  \A a \in Adds : Recent(a) => Distance(a) + Due <= clock - began[a] + 1

\* As long as tickTack sees every second, it moves on as often as that.
NotBehind ==
  ~stalled =>
    /\ tick # "wait" => Due = 0
    /\ \A a \in Adds : (Recent(a) \/ Counted(a)) => clock - began[a] <= Distance(a) + Due

\* The first half of WindowKept.
Kept ==
  \A a \in Adds : (add[a] \in {"timecount", "done"} /\ clock - began[a] < LastSlot - 1) =>
    a \in fiveMinuteRequests[idx[a]]

\* When the ring has moved on to the slot before, the request is about to be
\* cleared.
Expires == \A a \in Adds : Counted(a) /\ Distance(a) = LastSlot => tick = "requests"

\* JsonAgrees for the slot the request is in.
Agree ==
  \A a \in Adds \ slow : (add[a] = "done" /\ (tick = "wait" \/ idx[a] # Cleared)) =>
    (a \in fiveMinuteRequests[idx[a]] <=> a \in fiveMinuteTimeCount[idx[a]])

IInv == Types /\ Stored /\ NotAhead /\ NotBehind /\ Kept /\ Expires /\ Agree
-----------------------------------------------------------------------------
(* The ring and the clock.                                                 *)

\* Two seconds in a row are different seconds of the minute.
LEMMA SecondsDiffer ==
  ASSUME NEW x \in Nat, NEW m \in Nat, m > 1
  PROVE  (x + 1) % m # x % m
<1> DEFINE p == x \div m
           q == (x + 1) \div m
<1>1. /\ p \in Int /\ q \in Int /\ x % m \in Int
      /\ x = m * p + (x % m) /\ x + 1 = m * q + ((x + 1) % m)
  <2>1. \A y \in Nat : y \div m \in Int /\ y % m \in Int
    OBVIOUS
  <2>2. \A y \in Nat : y = m * (y \div m) + (y % m)
    OBVIOUS
  <2>3. x \in Nat /\ x + 1 \in Nat
    OBVIOUS
  <2> QED  BY <2>1, <2>2, <2>3
<1> HIDE DEF p, q
<1>2. SUFFICES ASSUME (x + 1) % m = x % m PROVE FALSE
  OBVIOUS
<1>3. m * q - m * p = 1
  BY <1>1, <1>2
<1>4. m * (q - p) = 1
  BY <1>1, <1>3
<1>5. \A k \in Int : m * k # 1
  <2> SUFFICES ASSUME NEW k \in Int PROVE m * k # 1
    OBVIOUS
  <2>1. CASE k <= 0
    BY <2>1
  <2>2. CASE k >= 1
    <3>1. m * k >= m
      BY <2>2
    <3> QED  BY <3>1
  <2> QED  BY <2>1, <2>2
<1>6. q - p \in Int
  BY <1>1
<1> QED  BY <1>4, <1>5, <1>6

\* A distance is less than the ring; the slot that is cleared is the one the
\* ring has moved away from furthest.
LEMMA Distances ==
  ASSUME Types, NEW a \in Adds
  PROVE  /\ Distance(a) \in 0 .. LastSlot
         /\ Cleared = idx[a] <=> Distance(a) = LastSlot
         /\ Cleared \in Slots
<1>1. currentSecond \in 0 .. LastSlot /\ idx[a] \in 0 .. LastSlot /\ LastSlot \in Nat /\ LastSlot > 1
  BY MeasureAssumption DEF Types, Slots
<1>2. Distance(a) \in 0 .. LastSlot
  BY <1>1 DEF Distance
<1>3. Cleared = idx[a] <=> Distance(a) = LastSlot
  BY <1>1 DEF Distance, Cleared, NextSlot
<1>4. Cleared \in Slots
  BY <1>1 DEF Slots, Cleared, NextSlot
<1> QED  BY <1>2, <1>3, <1>4

\* What the ticker does to a distance.
LEMMA DistanceStep ==
  ASSUME Types, NEW a \in Adds, currentSecond' = NextSlot(currentSecond), UNCHANGED idx
  PROVE  Distance(a)' = IF Distance(a) = LastSlot THEN 0 ELSE Distance(a) + 1
<1>1. currentSecond \in 0 .. LastSlot /\ idx[a] \in 0 .. LastSlot /\ LastSlot \in Nat /\ LastSlot > 1
  BY MeasureAssumption DEF Types, Slots
<1> QED  BY <1>1 DEF Distance, NextSlot

\* It is one second or none.
LEMMA DueType == Due \in {0, 1} /\ Due' \in {0, 1}
BY DEF Due
-----------------------------------------------------------------------------
(* The steps.                                                              *)

\* A second passes: Due may become 1, and does if tickTack had seen the last.
LEMMA ElapseKeeps ==
  ASSUME IInv, Elapse
  PROVE  IInv'
<1>0. /\ Types /\ Stored /\ NotAhead /\ NotBehind /\ Kept /\ Expires /\ Agree
      /\ clock' = clock + 1 /\ stalled' = (stalled \/ tick # "wait" \/ tm # clock % Minute)
      /\ UNCHANGED <<tm, tick, currentSecond, add, idx, began, slow, fiveMinuteRequests,
                     fiveMinuteTimeCount>>
  BY DEF IInv, Elapse, tickVars, addVars
<1>u. clock' = clock + 1 /\ began' = began /\ add' = add /\ idx' = idx
  BY <1>0
<1>t. clock \in Nat /\ LastSlot \in Nat /\ Minute \in Nat /\ Minute > 1
  BY <1>0, MeasureAssumption DEF Types
<1>1. Types'
  BY <1>0 DEF Types
<1>2. Stored' /\ Expires' /\ Agree'
  BY <1>0 DEF Stored, Expires, Counted, Distance, Agree, Cleared
<1>3. \A a \in Adds : /\ Distance(a)' = Distance(a) /\ Distance(a) \in Int
                      /\ Recent(a)' => Recent(a)
                      /\ began[a] \in Nat /\ Counted(a)' = Counted(a)
  <2>1. \A a \in Adds : Distance(a)' = Distance(a) /\ Counted(a)' = Counted(a)
    BY <1>0 DEF Distance, Counted
  <2>2. \A a \in Adds : Distance(a) \in Int
    BY <1>0, <1>t, Distances
  <2>3. \A a \in Adds : began[a] \in Nat
    BY <1>0 DEF Types
  <2>4. \A a \in Adds : Recent(a)' => Recent(a)
    BY <1>0, <1>t, <2>3 DEF Recent
  <2> QED  BY <2>1, <2>2, <2>3, <2>4
<1>v. \A a \in Adds : clock' - began'[a] = clock + 1 - began[a]
  BY <1>t, <1>u, <1>3
<1>4. NotAhead'
  <2> SUFFICES ASSUME NEW a \in Adds, Recent(a)'
               PROVE  Distance(a)' + Due' <= clock' - began'[a] + 1
    BY DEF NotAhead
  <2>1. Distance(a) + Due <= clock - began[a] + 1
    BY <1>0, <1>3 DEF NotAhead
  <2>2. Distance(a) + Due' <= clock + 1 - began[a] + 1
    BY <1>t, <1>3, <2>1, DueType
  <2> QED  BY <1>v, <1>3, <2>2
<1>5. Kept'
  <2> SUFFICES ASSUME NEW a \in Adds, add'[a] \in {"timecount", "done"},
                      clock' - began'[a] < LastSlot - 1
               PROVE  a \in fiveMinuteRequests'[idx'[a]]
    BY DEF Kept
  <2>1. add[a] \in {"timecount", "done"} /\ clock + 1 - began[a] < LastSlot - 1
    BY <1>u, <1>v
  <2>2. clock - began[a] < LastSlot - 1
    BY <1>t, <1>3, <2>1
  <2>3. a \in fiveMinuteRequests[idx[a]]
    BY <1>0, <2>1, <2>2 DEF Kept
  <2> QED  BY <1>0, <2>3
<1>6. NotBehind'
  <2> SUFFICES ASSUME ~stalled'
               PROVE  /\ tick' # "wait" => Due' = 0
                      /\ \A a \in Adds : (Recent(a)' \/ Counted(a)') =>
                           clock' - began'[a] <= Distance(a)' + Due'
    BY DEF NotBehind
  <2>1. ~stalled /\ tick = "wait" /\ tm = clock % Minute
    BY <1>0 DEF Types
  <2>2. Due = 0 /\ Due' = 1
    BY <1>0, <1>t, <2>1, SecondsDiffer DEF Due
  <2>3. \A a \in Adds : (Recent(a) \/ Counted(a)) => clock - began[a] <= Distance(a) + 0
    BY <1>0, <2>1, <2>2 DEF NotBehind
  <2>4. ASSUME NEW a \in Adds, Recent(a)' \/ Counted(a)'
        PROVE  clock' - began'[a] <= Distance(a)' + Due'
    <3>1. clock - began[a] <= Distance(a) + 0
      BY <1>3, <2>3, <2>4
    <3>2. clock + 1 - began[a] <= Distance(a) + 1
      BY <1>t, <1>3, <3>1
    <3> QED  BY <1>v, <1>3, <2>2, <3>2
  <2> QED  BY <1>0, <2>1, <2>4
<1> QED  BY <1>1, <1>2, <1>4, <1>5, <1>6 DEF IInv

\* The ring moves on, and nothing that is recent comes before the cleared slot.
LEMMA TickKeeps ==
  ASSUME IInv, Tick
  PROVE  IInv'
<1>0. /\ Types /\ Stored /\ NotAhead /\ NotBehind /\ Kept /\ Expires /\ Agree
      /\ tick = "wait" /\ clock % Minute # tm /\ tm' = clock % Minute /\ tick' = "requests"
      /\ currentSecond' = NextSlot(currentSecond)
      /\ UNCHANGED <<clock, stalled, add, idx, began, slow, fiveMinuteRequests,
                     fiveMinuteTimeCount>>
  BY DEF IInv, Tick, timeVars, addVars
<1>t. clock \in Nat /\ LastSlot \in Nat /\ \A a \in Adds : began[a] \in Nat
  BY <1>0, MeasureAssumption DEF Types
<1>1. Types'
  <2>1. NextSlot(currentSecond) \in Slots
    BY <1>0, MeasureAssumption DEF Types, NextSlot, Slots
  <2> QED  BY <1>0, <2>1 DEF Types
<1>2. Stored' /\ Kept' /\ Expires'
  BY <1>0 DEF Stored, Kept, Expires
<1>3. Agree'
  BY <1>0 DEF Agree
<1>d. Due = 1 /\ Due' = 0
  BY <1>0 DEF Due
<1>4. \A a \in Adds : /\ Distance(a) \in 0 .. LastSlot
                      /\ Distance(a) # LastSlot => Distance(a)' = Distance(a) + 1
                      /\ Recent(a)' = Recent(a) /\ Counted(a)' = Counted(a)
  <2>1. \A a \in Adds : Recent(a)' = Recent(a) /\ Counted(a)' = Counted(a)
    BY <1>0 DEF Recent, Counted
  <2>2. \A a \in Adds : Distance(a) \in 0 .. LastSlot
    BY <1>0, Distances
  <2>3. \A a \in Adds : Distance(a) # LastSlot => Distance(a)' = Distance(a) + 1
    BY <1>0, DistanceStep
  <2> QED  BY <2>1, <2>2, <2>3
<1>5. \A a \in Adds : Recent(a) => /\ Distance(a) + 1 <= clock - began[a] + 1
                                   /\ Distance(a) # LastSlot
  <2> SUFFICES ASSUME NEW a \in Adds, Recent(a)
               PROVE  Distance(a) + 1 <= clock - began[a] + 1 /\ Distance(a) # LastSlot
    OBVIOUS
  <2>1. Distance(a) + Due <= clock - began[a] + 1
    BY <1>0 DEF NotAhead
  <2>2. clock - began[a] < LastSlot - 1
    BY DEF Recent
  <2> QED  BY <1>t, <1>d, <1>4, <2>1, <2>2
<1>6. NotAhead'
  <2> SUFFICES ASSUME NEW a \in Adds, Recent(a)
               PROVE  Distance(a)' + Due' <= clock - began[a] + 1
    BY <1>0, <1>4 DEF NotAhead
  <2> QED  BY <1>t, <1>d, <1>4, <1>5
<1>7. NotBehind'
  <2> SUFFICES ASSUME ~stalled, NEW a \in Adds, Recent(a) \/ Counted(a)
               PROVE  clock - began[a] <= Distance(a)' + Due'
    BY <1>0, <1>d, <1>4 DEF NotBehind
  <2>1. clock - began[a] <= Distance(a) + Due
    BY <1>0 DEF NotBehind
  <2>2. Distance(a) # LastSlot
    BY <1>0, <1>5 DEF Expires
  <2> QED  BY <1>t, <1>d, <1>4, <2>1, <2>2
<1> QED  BY <1>1, <1>2, <1>3, <1>6, <1>7 DEF IInv

\* The parts of IInv that depend on time and the ring only.
LEMMA SameTime ==
  ASSUME IInv, UNCHANGED <<clock, stalled, tm, currentSecond, add, idx, began>>,
         tick' # "wait" => tick # "wait",
         \A a \in Adds : Counted(a)' => Counted(a)
  PROVE  NotAhead' /\ NotBehind'
<1>1. Due' = Due /\ \A a \in Adds : Distance(a)' = Distance(a) /\ Recent(a)' = Recent(a)
  BY DEF Due, Distance, Recent
<1>2. NotAhead'
  BY <1>1 DEF IInv, NotAhead
<1>3. NotBehind'
  BY <1>1 DEF IInv, NotBehind
<1> QED  BY <1>2, <1>3

\* The requests of the slot are cleared: none of them is recent.
LEMMA TickRequestsKeeps ==
  ASSUME IInv, TickRequests
  PROVE  IInv'
<1>0. /\ Types /\ Stored /\ NotAhead /\ NotBehind /\ Kept /\ Expires /\ Agree
      /\ tick = "requests" /\ tick' = "timecount"
      /\ fiveMinuteRequests' = [fiveMinuteRequests EXCEPT ![Cleared] = {}]
      /\ UNCHANGED <<clock, stalled, tm, currentSecond, add, idx, began, slow,
                     fiveMinuteTimeCount>>
  BY DEF IInv, TickRequests, timeVars, addVars
<1>t. clock \in Nat /\ LastSlot \in Nat /\ \A a \in Adds : began[a] \in Nat
  BY <1>0, MeasureAssumption DEF Types
<1>1. Types'
  BY <1>0 DEF Types
<1>2. /\ \A s \in Slots \ {Cleared} : fiveMinuteRequests'[s] = fiveMinuteRequests[s]
      /\ Cleared \in Slots => fiveMinuteRequests'[Cleared] = {}
      /\ \A s \in Slots : fiveMinuteRequests'[s] \subseteq fiveMinuteRequests[s]
  BY <1>0 DEF Types
<1>i. \A a \in Adds : /\ idx[a] \in Slots /\ Distance(a)' = Distance(a)
                      /\ Cleared = idx[a] <=> Distance(a) = LastSlot
                      /\ Distance(a) \in 0 .. LastSlot /\ Cleared \in Slots
  <2>1. \A a \in Adds : idx[a] \in Slots /\ Distance(a)' = Distance(a)
    BY <1>0 DEF Types, Distance
  <2> QED  BY <1>0, <2>1, Distances
<1>3. Stored'
  BY <1>0, <1>2 DEF Stored
<1>4. NotAhead' /\ NotBehind'
  <2>1. \A a \in Adds : Counted(a)' => Counted(a)
    BY <1>0, <1>2, <1>i DEF Counted
  <2> QED  BY <1>0, <2>1, SameTime
<1>5. Kept'
  <2> SUFFICES ASSUME NEW a \in Adds, add[a] \in {"timecount", "done"},
                      clock - began[a] < LastSlot - 1
               PROVE  a \in fiveMinuteRequests'[idx[a]]
    BY <1>0 DEF Kept
  <2>1. a \in fiveMinuteRequests[idx[a]]
    BY <1>0 DEF Kept
  <2>2. Distance(a) + Due <= clock - began[a] + 1
    BY <1>0 DEF NotAhead, Recent
  <2>3. Distance(a) # LastSlot
    BY <1>t, <1>i, <2>2, DueType
  <2> QED  BY <1>2, <1>i, <2>1, <2>3
<1>6. Expires'
  BY <1>0, <1>2, <1>i DEF Expires, Counted
<1>7. Agree'
  <2>1. Cleared' = Cleared
    BY <1>0 DEF Cleared
  <2> QED  BY <1>0, <1>2, <1>i, <2>1 DEF Agree
<1> QED  BY <1>1, <1>3, <1>4, <1>5, <1>6, <1>7 DEF IInv

\* Its time counts are cleared: its requests were before.
LEMMA TickTimeCountKeeps ==
  ASSUME IInv, TickTimeCount
  PROVE  IInv'
<1>0. /\ Types /\ Stored /\ NotAhead /\ NotBehind /\ Kept /\ Expires /\ Agree
      /\ tick = "timecount" /\ tick' = "wait"
      /\ fiveMinuteTimeCount' = [fiveMinuteTimeCount EXCEPT ![Cleared] = {}]
      /\ UNCHANGED <<clock, stalled, tm, currentSecond, add, idx, began, slow,
                     fiveMinuteRequests>>
  BY DEF IInv, TickTimeCount, timeVars, addVars
<1>1. Types'
  BY <1>0 DEF Types
<1>2. /\ \A s \in Slots \ {Cleared} : fiveMinuteTimeCount'[s] = fiveMinuteTimeCount[s]
      /\ Cleared \in Slots => fiveMinuteTimeCount'[Cleared] = {}
      /\ \A s \in Slots : fiveMinuteTimeCount'[s] \subseteq fiveMinuteTimeCount[s]
  BY <1>0 DEF Types
<1>i. \A a \in Adds : /\ idx[a] \in Slots /\ Distance(a)' = Distance(a)
                      /\ Cleared = idx[a] <=> Distance(a) = LastSlot
                      /\ Cleared \in Slots
  <2>1. \A a \in Adds : idx[a] \in Slots /\ Distance(a)' = Distance(a)
    BY <1>0 DEF Types, Distance
  <2> QED  BY <1>0, <2>1, Distances
<1>3. Stored'
  BY <1>0, <1>2 DEF Stored
<1>4. NotAhead' /\ NotBehind'
  <2>1. \A a \in Adds : Counted(a)' => Counted(a)
    BY <1>0 DEF Counted
  <2> QED  BY <1>0, <2>1, SameTime
<1>5. Kept'
  BY <1>0 DEF Kept
<1>6. \A a \in Adds : Counted(a) => Distance(a) # LastSlot
  BY <1>0 DEF Expires
<1>7. Expires'
  BY <1>0, <1>i, <1>6 DEF Expires, Counted
<1>8. Agree'
  <2> SUFFICES ASSUME NEW a \in Adds \ slow, add[a] = "done"
               PROVE  a \in fiveMinuteRequests[idx[a]] <=> a \in fiveMinuteTimeCount'[idx[a]]
    BY <1>0 DEF Agree
  <2>1. CASE idx[a] = Cleared
    <3>1. a \notin fiveMinuteRequests[idx[a]]
      BY <1>i, <1>6, <2>1 DEF Counted
    <3>2. a \notin fiveMinuteTimeCount'[idx[a]]
      BY <1>2, <1>i, <2>1
    <3> QED  BY <3>1, <3>2
  <2>2. CASE idx[a] # Cleared
    BY <1>0, <1>2, <1>i, <2>2 DEF Agree
  <2> QED  BY <2>1, <2>2
<1> QED  BY <1>1, <1>3, <1>4, <1>5, <1>7, <1>8 DEF IInv

\* An Add begins with the slot of this second, at distance 0.
LEMMA AddBeginKeeps ==
  ASSUME IInv, NEW a \in Adds, AddBegin(a)
  PROVE  IInv'
<1>0. /\ Types /\ Stored /\ NotAhead /\ NotBehind /\ Kept /\ Expires /\ Agree
      /\ add[a] = "new" /\ add' = [add EXCEPT ![a] = "requests"]
      /\ idx' = [idx EXCEPT ![a] = currentSecond] /\ began' = [began EXCEPT ![a] = clock]
      /\ UNCHANGED <<clock, stalled, tm, tick, currentSecond, slow, fiveMinuteRequests,
                     fiveMinuteTimeCount>>
  BY DEF IInv, AddBegin, timeVars, tickVars
<1>t. clock \in Nat /\ LastSlot \in Nat /\ LastSlot > 1 /\ currentSecond \in Slots
  BY <1>0, MeasureAssumption DEF Types
<1>1. Types'
  BY <1>0 DEF Types
<1>2. /\ add'[a] = "requests" /\ idx'[a] = currentSecond /\ began'[a] = clock
      /\ \A b \in Adds \ {a} : add'[b] = add[b] /\ idx'[b] = idx[b] /\ began'[b] = began[b]
  BY <1>0 DEF Types
<1>3. \A s \in Slots : a \notin fiveMinuteRequests[s] /\ a \notin fiveMinuteTimeCount[s]
  BY <1>0 DEF Stored
<1>4. Stored'
  BY <1>0, <1>2, <1>3 DEF Stored
<1>5. Kept'
  BY <1>0, <1>2 DEF Kept
<1>6. /\ Distance(a)' = 0 /\ ~Counted(a)'
      /\ \A b \in Adds \ {a} : /\ Distance(b)' = Distance(b) /\ Recent(b)' = Recent(b)
                               /\ Counted(b)' = Counted(b)
  <2>1. Distance(a)' = 0
    BY <1>0, <1>t, <1>2 DEF Distance, Slots
  <2>2. ~Counted(a)'
    BY <1>0, <1>t, <1>2, <1>3 DEF Counted
  <2>3. \A b \in Adds \ {a} : /\ Distance(b)' = Distance(b) /\ Recent(b)' = Recent(b)
                              /\ Counted(b)' = Counted(b)
    BY <1>0, <1>2 DEF Distance, Recent, Counted
  <2> QED  BY <2>1, <2>2, <2>3
<1>d. Due' = Due
  BY <1>0 DEF Due
<1>c. clock - clock = 0
  BY <1>t
<1>7. NotAhead'
  <2> SUFFICES ASSUME NEW b \in Adds, Recent(b)'
               PROVE  Distance(b)' + Due' <= clock' - began'[b] + 1
    BY DEF NotAhead
  <2>1. CASE b = a
    BY <1>0, <1>t, <1>2, <1>6, <2>1, DueType
  <2>2. CASE b # a
    BY <1>0, <1>2, <1>6, <1>d, <2>2 DEF NotAhead
  <2> QED  BY <2>1, <2>2
<1>8. NotBehind'
  <2> SUFFICES ASSUME ~stalled
               PROVE  /\ tick # "wait" => Due = 0
                      /\ \A b \in Adds : (Recent(b)' \/ Counted(b)') =>
                           clock - began'[b] <= Distance(b)' + Due
    BY <1>0, <1>d DEF NotBehind
  <2>1. ASSUME NEW b \in Adds, Recent(b)' \/ Counted(b)'
        PROVE  clock - began'[b] <= Distance(b)' + Due
    <3>1. CASE b = a
      BY <1>t, <1>2, <1>6, <1>c, <3>1, DueType
    <3>2. CASE b # a
      BY <1>0, <1>2, <1>6, <2>1, <3>2 DEF NotBehind
    <3> QED  BY <3>1, <3>2
  <2> QED  BY <1>0, <2>1 DEF NotBehind
<1>9. Expires'
  BY <1>0, <1>6 DEF Expires
<1>10. Agree'
  <2>1. Cleared' = Cleared
    BY <1>0 DEF Cleared
  <2> QED  BY <1>0, <1>2, <2>1 DEF Agree
<1> QED  BY <1>1, <1>4, <1>5, <1>7, <1>8, <1>9, <1>10 DEF IInv

\* An Add that is not too slow finds its slot where it was.
LEMMA NotTooFar ==
  ASSUME IInv, NEW a \in Adds, add[a] # "new", clock - began[a] < LastSlot - 1
  PROVE  Distance(a) \in 0 .. LastSlot - 1
<1>1. clock \in Nat /\ LastSlot \in Nat /\ began[a] \in Nat
  BY MeasureAssumption DEF IInv, Types
<1>2. Distance(a) \in 0 .. LastSlot
  BY Distances DEF IInv
<1>3. Distance(a) + Due <= clock - began[a] + 1
  BY DEF IInv, NotAhead, Recent
<1> QED  BY <1>1, <1>2, <1>3, DueType

\* The request is counted, by an Add that is slow or finds its slot in time.
LEMMA AddRequestsKeeps ==
  ASSUME IInv, NEW a \in Adds, AddRequests(a)
  PROVE  IInv'
<1>0. /\ Types /\ Stored /\ NotAhead /\ NotBehind /\ Kept /\ Expires /\ Agree
      /\ add[a] = "requests" /\ add' = [add EXCEPT ![a] = "timecount"]
      /\ fiveMinuteRequests' = [fiveMinuteRequests EXCEPT ![idx[a]] = @ \cup {a}]
      /\ slow' = SlowNow(a)
      /\ UNCHANGED <<clock, stalled, tm, tick, currentSecond, idx, began, fiveMinuteTimeCount>>
  BY DEF IInv, AddRequests, timeVars, tickVars
<1>t. LastSlot \in Nat /\ idx[a] \in Slots /\ \A b \in Adds : idx[b] \in Slots
  BY <1>0, MeasureAssumption DEF Types
<1>1. /\ slow \subseteq slow' /\ slow' \subseteq slow \cup {a}
      /\ a \notin slow' => clock - began[a] < LastSlot - 1
  <2>1. clock \in Nat /\ began[a] \in Nat /\ LastSlot \in Nat
    BY <1>0, MeasureAssumption DEF Types
  <2> QED  BY <1>0, <2>1 DEF SlowNow
<1>2. Types'
  BY <1>0, <1>1 DEF Types
<1>3. /\ add'[a] = "timecount" /\ \A b \in Adds \ {a} : add'[b] = add[b]
      /\ \A s \in Slots : fiveMinuteRequests[s] \subseteq fiveMinuteRequests'[s]
      /\ \A s \in Slots \ {idx[a]} : fiveMinuteRequests'[s] = fiveMinuteRequests[s]
      /\ fiveMinuteRequests'[idx[a]] = fiveMinuteRequests[idx[a]] \cup {a}
  BY <1>0, <1>t DEF Types
<1>4. Stored'
  BY <1>0, <1>3 DEF Stored
<1>5. /\ \A b \in Adds : Distance(b)' = Distance(b) /\ (Recent(b)' <=> Recent(b))
      /\ \A b \in Adds \ {a} : Counted(b)' => Counted(b)
      /\ Counted(a)' => Recent(a) /\ Distance(a) # LastSlot
      /\ Due' = Due
  <2>1. Due' = Due /\ \A b \in Adds : Distance(b)' = Distance(b)
    BY <1>0 DEF Due, Distance
  <2>2. \A b \in Adds : Recent(b)' <=> Recent(b)
    BY <1>0, <1>3 DEF Recent
  <2>3. \A b \in Adds \ {a} : Counted(b)' => Counted(b)
    BY <1>0, <1>t, <1>1, <1>3 DEF Counted
  <2>4. Counted(a)' => clock - began[a] < LastSlot - 1
    BY <1>1 DEF Counted
  <2>5. Counted(a)' => Recent(a)
    BY <1>0, <2>4 DEF Recent
  <2>6. Counted(a)' => Distance(a) # LastSlot
    <3>1. Counted(a)' => Distance(a) \in 0 .. LastSlot - 1
      BY <1>0, <2>4, NotTooFar
    <3> QED  BY <1>t, <3>1
  <2> QED  BY <2>1, <2>2, <2>3, <2>5, <2>6
<1>6. NotAhead'
  BY <1>0, <1>5 DEF NotAhead
<1>7. NotBehind'
  BY <1>0, <1>5 DEF NotBehind
<1>8. Kept'
  BY <1>0, <1>t, <1>3 DEF Kept
<1>9. Expires'
  BY <1>0, <1>5 DEF Expires
<1>10. Agree'
  <2>1. Cleared' = Cleared
    BY <1>0 DEF Cleared
  <2> QED  BY <1>0, <1>t, <1>1, <1>3, <2>1 DEF Agree
<1> QED  BY <1>2, <1>4, <1>6, <1>7, <1>8, <1>9, <1>10 DEF IInv

\* Its time is counted; the request is still there unless the Add is slow.
LEMMA AddTimeCountKeeps ==
  ASSUME IInv, NEW a \in Adds, AddTimeCount(a)
  PROVE  IInv'
<1>0. /\ Types /\ Stored /\ NotAhead /\ NotBehind /\ Kept /\ Expires /\ Agree
      /\ add[a] = "timecount" /\ add' = [add EXCEPT ![a] = "done"]
      /\ fiveMinuteTimeCount' = [fiveMinuteTimeCount EXCEPT ![idx[a]] = @ \cup {a}]
      /\ slow' = SlowNow(a)
      /\ UNCHANGED <<clock, stalled, tm, tick, currentSecond, idx, began, fiveMinuteRequests>>
  BY DEF IInv, AddTimeCount, timeVars, tickVars
<1>t. idx[a] \in Slots /\ \A b \in Adds : idx[b] \in Slots
  BY <1>0 DEF Types
<1>1. /\ slow \subseteq slow' /\ slow' \subseteq slow \cup {a}
      /\ a \notin slow' => clock - began[a] < LastSlot - 1
  <2>1. clock \in Nat /\ began[a] \in Nat /\ LastSlot \in Nat
    BY <1>0, MeasureAssumption DEF Types
  <2> QED  BY <1>0, <2>1 DEF SlowNow
<1>2. Types'
  BY <1>0, <1>1 DEF Types
<1>3. /\ add'[a] = "done" /\ \A b \in Adds \ {a} : add'[b] = add[b]
      /\ \A s \in Slots \ {idx[a]} : fiveMinuteTimeCount'[s] = fiveMinuteTimeCount[s]
      /\ fiveMinuteTimeCount'[idx[a]] = fiveMinuteTimeCount[idx[a]] \cup {a}
  BY <1>0, <1>t DEF Types
<1>4. Stored'
  BY <1>0, <1>3 DEF Stored
<1>5. /\ \A b \in Adds : /\ Distance(b)' = Distance(b) /\ (Recent(b)' <=> Recent(b))
                         /\ Counted(b)' => Counted(b)
      /\ Due' = Due
  <2>1. Due' = Due /\ \A b \in Adds : Distance(b)' = Distance(b)
    BY <1>0 DEF Due, Distance
  <2>2. \A b \in Adds : Recent(b)' <=> Recent(b)
    BY <1>0, <1>3 DEF Recent
  <2>3. \A b \in Adds : Counted(b)' => Counted(b)
    BY <1>0, <1>1 DEF Counted
  <2> QED  BY <2>1, <2>2, <2>3
<1>6. NotAhead'
  BY <1>0, <1>5 DEF NotAhead
<1>7. NotBehind'
  BY <1>0, <1>5 DEF NotBehind
<1>8. Kept'
  BY <1>0, <1>3 DEF Kept
<1>9. Expires'
  BY <1>0, <1>5 DEF Expires
<1>10. Agree'
  <2>1. Cleared' = Cleared
    BY <1>0 DEF Cleared
  <2>2. a \notin slow' => a \in fiveMinuteRequests[idx[a]]
    BY <1>0, <1>1 DEF Kept
  <2> QED  BY <1>0, <1>t, <1>1, <1>3, <2>1, <2>2 DEF Agree
<1> QED  BY <1>2, <1>4, <1>6, <1>7, <1>8, <1>9, <1>10 DEF IInv

\* The invariant holds in every state.
THEOREM Invariance == MeasureSpec => []IInv
<1>1. MeasureInit => IInv
  <2> SUFFICES ASSUME MeasureInit PROVE IInv
    OBVIOUS
  <2>0. LastSlot \in Nat /\ 0 \in Slots
    BY MeasureAssumption DEF Slots
  <2>1. Types
    BY <2>0 DEF MeasureInit, Types
  <2>2. Stored /\ Kept /\ Expires /\ Agree
    BY <2>0 DEF MeasureInit, Stored, Kept, Expires, Counted, Agree
  <2>3. \A a \in Adds : ~Recent(a) /\ ~Counted(a)
    BY <2>0 DEF MeasureInit, Recent, Counted
  <2>4. NotAhead /\ NotBehind
    BY <2>3 DEF MeasureInit, NotAhead, NotBehind
  <2> QED  BY <2>1, <2>2, <2>4 DEF IInv
<1>2. IInv /\ [MeasureNext]_measureVars => IInv'
  <2> SUFFICES ASSUME IInv, [MeasureNext]_measureVars PROVE IInv'
    OBVIOUS
  <2>1. CASE StringBegin \/ StringRound \/ UNCHANGED measureVars
    <3>1. UNCHANGED <<clock, stalled, tm, tick, currentSecond, add, idx, began, slow,
                      fiveMinuteRequests, fiveMinuteTimeCount>>
      BY <2>1 DEF StringBegin, StringRound, measureVars, timeVars, tickVars, addVars
    <3>2. Types' /\ Stored' /\ Kept' /\ Expires' /\ Agree'
      BY <3>1 DEF IInv, Types, Stored, Kept, Expires, Counted, Distance, Agree, Cleared
    <3>3. NotAhead' /\ NotBehind'
      BY <3>1, SameTime DEF Counted
    <3> QED  BY <3>2, <3>3 DEF IInv
  <2> QED  BY <2>1, ElapseKeeps, TickKeeps, TickRequestsKeeps, TickTimeCountKeeps,
              AddBeginKeeps, AddRequestsKeeps, AddTimeCountKeeps DEF MeasureNext
<1> QED  BY <1>1, <1>2, PTL DEF MeasureSpec

\* A request stays in the ring as long as WindowKept says and no longer,
\* however Add, tickTack and the clock interleave, for a ring of any length.
THEOREM WindowIsKept == MeasureSpec => []WindowKept
<1>1. IInv => WindowKept
  <2> SUFFICES ASSUME IInv PROVE WindowKept
    OBVIOUS
  <2>1. \A a \in Adds : (add[a] \in {"timecount", "done"} /\ clock - began[a] < LastSlot - 1) =>
          a \in fiveMinuteRequests[idx[a]]
    BY DEF IInv, Kept
  <2>2. ASSUME ~stalled, NEW s \in Slots, NEW a \in fiveMinuteRequests[s] \ slow
        PROVE  clock - began[a] <= LastSlot
    <3>1. a \in Adds /\ s = idx[a]
      BY <2>2 DEF IInv, Types, Stored
    <3>2. Counted(a)
      BY <2>2, <3>1 DEF Counted
    <3>3. /\ clock - began[a] <= Distance(a) + Due
          /\ tick # "wait" => Due = 0
          /\ Distance(a) = LastSlot => tick = "requests"
      BY <2>2, <3>1, <3>2 DEF IInv, NotBehind, Expires
    <3>4. Distance(a) \in 0 .. LastSlot /\ clock \in Nat /\ began[a] \in Nat /\ LastSlot \in Nat
      BY <3>1, Distances, MeasureAssumption DEF IInv, Types
    <3> QED  BY <3>3, <3>4, DueType
  <2> QED  BY <2>1, <2>2 DEF WindowKept
<1> QED  BY <1>1, Invariance, PTL

\* Json finds the same requests in both counters of every slot but the one
\* that tickTack is clearing.
THEOREM JsonIsConsistent == MeasureSpec => []JsonAgrees
<1>1. IInv => JsonAgrees
  <2> SUFFICES ASSUME IInv, NEW a \in Adds \ slow, add[a] = "done", NEW s \in Slots,
                      tick = "wait" \/ s # Cleared
               PROVE  a \in fiveMinuteRequests[s] <=> a \in fiveMinuteTimeCount[s]
    BY DEF JsonAgrees
  <2>1. CASE s = idx[a]
    BY <2>1 DEF IInv, Agree
  <2>2. CASE s # idx[a]
    BY <2>2 DEF IInv, Stored
  <2> QED  BY <2>1, <2>2
<1> QED  BY <1>1, Invariance, PTL
-----------------------------------------------------------------------------
(* What String reports.                                                    *)

\* The slot of round i of a String that began with slot c.
RoundSlot(c, i) ==
  IF c = LastSlot THEN IF i = 0 THEN LastSlot ELSE i - 1
  ELSE IF c + i < LastSlot THEN c + i ELSE c + i - LastSlot

\* NextRead goes from one to the next, and no slot comes twice.
LEMMA RoundSlots ==
  ASSUME NEW c \in Slots
  PROVE  /\ RoundSlot(c, 0) = c
         /\ \A i \in StringRounds : /\ RoundSlot(c, i) \in Slots
                              /\ NextRead(RoundSlot(c, i)) = RoundSlot(c, i + 1)
                              /\ RoundSlot(c, i + 1) \in Slots
         /\ \A i, j \in StringRounds : i # j => RoundSlot(c, i) # RoundSlot(c, j)
<1>0. LastSlot \in Nat /\ LastSlot > 1 /\ c \in 0 .. LastSlot
  BY MeasureAssumption DEF Slots
<1>1. CASE c = LastSlot
  BY <1>0, <1>1 DEF RoundSlot, NextRead, Slots, StringRounds
<1>2. CASE c # LastSlot
  <2>1. c \in 0 .. LastSlot - 1
    BY <1>0, <1>2
  <2>2. \A i \in 0 .. LastSlot : RoundSlot(c, i) = IF c + i < LastSlot THEN c + i ELSE c + i - LastSlot
    BY <1>2 DEF RoundSlot
  <2> QED  BY <1>0, <2>1, <2>2 DEF NextRead, Slots, StringRounds
<1> QED  BY <1>1, <1>2

STypes ==
  /\ string \in {"new", "sum", "done"} /\ slot \in Slots /\ round \in Nat
  /\ string = "new" => round = 0
  /\ string = "sum" => round < LastSlot
  /\ req5 \in [StringRounds -> SUBSET Adds] /\ calledAt \in Nat /\ calledAt <= clock

\* What it added up in a round was in the slot of that round, counted before
\* and not outdated.
Read(c) ==
  \A i \in StringRounds : \A a \in req5[i] :
    /\ i < round /\ idx[a] = RoundSlot(c, i)
    /\ add[a] \in {"timecount", "done"}
    /\ (~stalled /\ a \notin slow) => calledAt - began[a] <= LastSlot

\* The rounds go on from the slot that String began with.
Reading == \E c \in Slots : (string = "sum" => slot = RoundSlot(c, round)) /\ Read(c)

\* Of the Adds that have read their slot, an action changes neither the slot
\* nor the time; nothing becomes less outdated by passing time.
LEMMA OthersKeep ==
  ASSUME IInv, STypes, Reading, UNCHANGED stringVars, clock' \in Nat, clock' >= clock,
         stalled => stalled', slow \subseteq slow',
         \A a \in Adds : add[a] # "new" => /\ idx'[a] = idx[a] /\ began'[a] = began[a]
                                           /\ add[a] = "done" => add'[a] = "done"
                                           /\ add[a] = "timecount" =>
                                                add'[a] \in {"timecount", "done"}
  PROVE  STypes' /\ Reading'
<1>1. clock \in Nat /\ calledAt \in Nat /\ calledAt <= clock
  BY DEF IInv, Types, STypes
<1>2. STypes'
  BY <1>1 DEF STypes, stringVars
<1>3. PICK c \in Slots : (string = "sum" => slot = RoundSlot(c, round)) /\ Read(c)
  BY DEF Reading
<1>4. Read(c)'
  <2> SUFFICES ASSUME NEW i \in StringRounds, NEW a \in req5[i]
               PROVE  /\ i < round /\ idx'[a] = RoundSlot(c, i)
                      /\ add'[a] \in {"timecount", "done"}
                      /\ (~stalled' /\ a \notin slow') => calledAt - began'[a] <= LastSlot
    BY DEF Read, stringVars, RoundSlot
  <2>1. a \in Adds
    BY DEF STypes
  <2>2. /\ i < round /\ idx[a] = RoundSlot(c, i)
        /\ add[a] \in {"timecount", "done"}
        /\ (~stalled /\ a \notin slow) => calledAt - began[a] <= LastSlot
    BY <1>3 DEF Read
  <2> QED  BY <2>1, <2>2
<1> QED  BY <1>2, <1>3, <1>4 DEF Reading, stringVars, RoundSlot

LEMMA StringBeginKeeps ==
  ASSUME IInv, STypes, Reading, StringBegin
  PROVE  STypes' /\ Reading'
<1>0. /\ string = "new" /\ string' = "sum" /\ slot' = currentSecond /\ calledAt' = clock
      /\ UNCHANGED <<clock, round, req5>>
  BY DEF StringBegin, timeVars
<1>1. round = 0 /\ currentSecond \in Slots /\ clock \in Nat /\ LastSlot \in Nat /\ LastSlot > 1
  BY <1>0, MeasureAssumption DEF IInv, Types, STypes
<1>2. STypes'
  BY <1>0, <1>1 DEF STypes
<1>3. \A i \in StringRounds : req5[i] = {}
  <2> SUFFICES ASSUME NEW i \in StringRounds, NEW a \in req5[i] PROVE FALSE
    OBVIOUS
  <2>1. i < 0
    BY <1>1 DEF Reading, Read
  <2> QED  BY <1>1, <2>1 DEF StringRounds
<1>4. Read(currentSecond)'
  BY <1>0, <1>3 DEF Read
<1>5. slot' = RoundSlot(currentSecond, round')
  BY <1>0, <1>1, RoundSlots
<1>6. \E c \in Slots : slot' = RoundSlot(c, round') /\ Read(c)'
  <2>1. UNCHANGED currentSecond
    BY DEF StringBegin, tickVars
  <2> QED  BY <1>1, <1>4, <1>5, <2>1 DEF Read, RoundSlot
<1> QED  BY <1>2, <1>6 DEF Reading, RoundSlot, Read

LEMMA StringRoundKeeps ==
  ASSUME IInv, WindowKept, STypes, Reading, StringRound
  PROVE  STypes' /\ Reading'
<1>0. /\ string = "sum" /\ slot' = NextRead(slot) /\ round' = round + 1
      /\ string' = IF round' = LastSlot THEN "done" ELSE "sum"
      /\ req5' = [req5 EXCEPT ![round] = fiveMinuteRequests[slot]]
      /\ UNCHANGED <<clock, stalled, add, idx, began, slow, calledAt>>
  BY DEF StringRound, timeVars, addVars
<1>1. PICK c \in Slots : slot = RoundSlot(c, round) /\ Read(c)
  BY <1>0 DEF Reading
<1>2. /\ round \in StringRounds /\ LastSlot \in Nat /\ LastSlot > 1 /\ round \in Nat /\ round < LastSlot
      /\ slot \in Slots /\ clock \in Nat /\ calledAt \in Nat /\ calledAt <= clock
      /\ \A a \in Adds : began[a] \in Nat
      /\ fiveMinuteRequests[slot] \subseteq Adds
  BY <1>0, MeasureAssumption DEF IInv, Types, STypes, StringRounds
<1>3. slot' \in Slots /\ slot' = RoundSlot(c, round')
  BY <1>0, <1>1, <1>2, RoundSlots
<1>4. STypes'
  BY <1>0, <1>2, <1>3 DEF STypes
<1>5. /\ req5'[round] = fiveMinuteRequests[slot]
      /\ \A i \in StringRounds \ {round} : req5'[i] = req5[i]
  BY <1>0, <1>2 DEF STypes
<1>6. ASSUME NEW i \in StringRounds, NEW a \in req5'[i]
      PROVE  /\ i < round' /\ idx[a] = RoundSlot(c, i)
             /\ add[a] \in {"timecount", "done"}
             /\ (~stalled /\ a \notin slow) => calledAt - began[a] <= LastSlot
  <2>1. CASE i = round
    <3>1. a \in fiveMinuteRequests[slot] /\ a \in Adds
      BY <1>2, <1>5, <1>6, <2>1
    <3>2. slot = idx[a] /\ add[a] \in {"timecount", "done"}
      BY <1>2, <3>1 DEF IInv, Stored
    <3>3. (~stalled /\ a \notin slow) => clock - began[a] <= LastSlot
      BY <1>2, <3>1 DEF WindowKept
    <3>4. (~stalled /\ a \notin slow) => calledAt - began[a] <= LastSlot
      BY <1>2, <3>1, <3>3
    <3> QED  BY <1>0, <1>1, <1>2, <2>1, <3>2, <3>4
  <2>2. CASE i # round
    <3>1. a \in req5[i] /\ i \in Int
      BY <1>5, <1>6, <2>2 DEF StringRounds
    <3> QED  BY <1>0, <1>1, <1>2, <3>1 DEF Read
  <2> QED  BY <2>1, <2>2
<1>7. Read(c)'
  BY <1>0, <1>6 DEF Read, RoundSlot
<1> QED  BY <1>3, <1>4, <1>7 DEF Reading, RoundSlot

\* String counts no request twice and none that is outdated, whatever is
\* cleared and counted while it goes around: CountedOnce.
THEOREM ReportsOnce == MeasureSpec => []CountedOnce
<1>1. MeasureInit => STypes /\ Reading
  <2> SUFFICES ASSUME MeasureInit PROVE STypes /\ Reading
    OBVIOUS
  <2>1. 0 \in Slots /\ LastSlot \in Nat
    BY MeasureAssumption DEF Slots
  <2>2. STypes
    BY <2>1 DEF MeasureInit, STypes
  <2>3. Read(0)
    BY DEF MeasureInit, Read
  <2> QED  BY <2>1, <2>2, <2>3 DEF MeasureInit, Reading
<1>2. IInv /\ WindowKept /\ STypes /\ Reading /\ [MeasureNext]_measureVars => STypes' /\ Reading'
  <2> SUFFICES ASSUME IInv, WindowKept, STypes, Reading, [MeasureNext]_measureVars
               PROVE  STypes' /\ Reading'
    OBVIOUS
  <2>0. clock \in Nat /\ slow \subseteq Adds /\ add \in [Adds -> {"new", "requests", "timecount", "done"}]
        /\ idx \in [Adds -> Slots] /\ began \in [Adds -> Nat]
    BY DEF IInv, Types
  <2>1. CASE Elapse \/ Tick \/ TickRequests \/ TickTimeCount \/ UNCHANGED measureVars
    <3>1. UNCHANGED <<stringVars, add, idx, began, slow>>
      BY <2>1 DEF Elapse, Tick, TickRequests, TickTimeCount, measureVars, addVars
    <3>2. CASE Elapse
      <4>1. clock' = clock + 1
        BY <3>2 DEF Elapse
      <4>2. stalled => stalled'
        BY <3>2, Zenon DEF Elapse
      <4> QED  BY <2>0, <3>1, <4>1, <4>2, OthersKeep
    <3>3. CASE ~Elapse
      <4>1. UNCHANGED <<clock, stalled>>
        BY <2>1, <3>3 DEF Tick, TickRequests, TickTimeCount, measureVars, timeVars
      <4> QED  BY <2>0, <3>1, <4>1, OthersKeep
    <3> QED  BY <3>2, <3>3
  <2>2. ASSUME NEW a \in Adds, AddBegin(a) \/ AddRequests(a) \/ AddTimeCount(a)
        PROVE  STypes' /\ Reading'
    <3>1. UNCHANGED <<stringVars, clock, stalled>> /\ slow \subseteq slow'
      BY <2>2 DEF AddBegin, AddRequests, AddTimeCount, timeVars, SlowNow
    <3>2. \A b \in Adds : add[b] # "new" => /\ idx'[b] = idx[b] /\ began'[b] = began[b]
                                            /\ add[b] = "done" => add'[b] = "done"
                                            /\ add[b] = "timecount" =>
                                                 add'[b] \in {"timecount", "done"}
      BY <2>0, <2>2 DEF AddBegin, AddRequests, AddTimeCount
    <3> QED  BY <2>0, <3>1, <3>2, OthersKeep
  <2> QED  BY <2>1, <2>2, StringBeginKeeps, StringRoundKeeps DEF MeasureNext
<1>3. IInv /\ STypes /\ Reading => CountedOnce
  <2> SUFFICES ASSUME STypes, Reading PROVE CountedOnce
    OBVIOUS
  <2>1. PICK c \in Slots : Read(c)
    BY DEF Reading
  <2>2. \A i, j \in StringRounds : i # j => RoundSlot(c, i) # RoundSlot(c, j)
    BY RoundSlots
  <2> QED  BY <2>1, <2>2 DEF CountedOnce, Read
<1> QED  BY <1>1, <1>2, <1>3, Invariance, WindowIsKept, PTL DEF MeasureSpec
=============================================================================
