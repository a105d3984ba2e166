---------------------------- MODULE ServerProofs ----------------------------
(***************************************************************************)
(* Proofs about Server, for any number of connections, addresses and       *)
(* goroutines that call Stop, and any MaxConnections.                      *)
(***************************************************************************)
EXTENDS Server, FiniteSetTheorems, TLAPS

Stops == Apps \cup {Loop}

\* The map is finite, which its limit is about.
Finite == IsFiniteSet(Listed)

\* A connection has its address from Accept on; the one that is accepted and
\* not entered is the one in the accept loop's hand.
Entered ==
  /\ \A c \in Conns : conn[c] # "new" => addr[c] \in Addrs
  /\ \A c \in Conns : conn[c] = "accepted" <=> c = held

\* The map has a connection under its own address, until removeConn.
Keyed ==
  \A a \in Addrs : connections[a] # None =>
    /\ addr[connections[a]] = a
    /\ conn[connections[a]] \in {"open", "marked"}

\* m.connLock is held by the Stop that goes over the map, and what that Stop
\* has before it is in the map.
Locked ==
  /\ \A p \in Stops : connLock = p <=> stop[p] = "range"
  /\ connLock = None => left = {} /\ visited = None
  /\ left \subseteq Listed
  /\ visited # None => visited \in Listed

\* close(m.closeNotify) lets one Stop through, and it closes the listener
\* before it takes the lock.  The accept loop does nothing else in its own.
Stopping ==
  /\ stop[Loop] \in {"listener", "lock", "range"} => loop = "stop"
  /\ \A p \in Stops : stop[p] # "idle" => notified
  /\ \A p, q \in Stops : stop[p] # "idle" /\ stop[q] # "idle" => p = q
  /\ \A p \in Stops : stop[p] \in {"lock", "range", "done"} => ~listening

\* Until Stop has made a new map, and unless an address came again too
\* early, every connection before removeConn is in the map.
AllListed ==
  ((\A p \in Stops : stop[p] # "done") /\ ~reused) =>
    \A c \in Conns : conn[c] \in {"open", "marked"} => connections[addr[c]] = c

\* An open socket that Stop has not closed yet is still before it ...
StillAhead ==
  \A p \in Stops : (stop[p] = "range" /\ ~reused) =>
    \A c \in live : conn[c] = "open" => c \in left \cup {visited}

\* ... and when it is done, at most one is left.
OneLeft ==
  \A p \in Stops : (stop[p] = "done" /\ ~reused) =>
    \A c, d \in {e \in live : conn[e] \in {"accepted", "open"}} : c = d

IInv ==
  /\ TypeOK /\ Finite /\ Entered /\ Keyed /\ Locked /\ Stopping
  /\ AllListed /\ StillAhead /\ OneLeft
  /\ crashed # "nil tcpConn"
-----------------------------------------------------------------------------
(* The steps.                                                              *)

\* What each step does to the map.
LEMMA MapSteps ==
  ASSUME [Next]_vars, TypeOK, Entered
  PROVE  \/ UNCHANGED connections
         \/ /\ connLock = None /\ Enter /\ held \in Conns /\ addr[held] \in Addrs
            /\ Listed' \subseteq Listed \cup {held}
         \/ /\ connLock = None /\ Listed' \subseteq Listed
            /\ \E c \in Conns : RemoveConn(c)
         \/ /\ \E p \in Stops : StopDone(p)
            /\ connections' = [a \in Addrs |-> None] /\ Listed' = {}
<1>t. connections \in [Addrs -> Conns \cup {None}]
  BY DEF TypeOK
<1>1. CASE Enter
  <2>1. held \in Conns /\ addr[held] \in Addrs /\ connLock = None
    BY <1>1, ServerAssumption DEF Enter, TypeOK, Entered
  <2>2. connections' = [connections EXCEPT ![addr[held]] = held]
    BY <1>1 DEF Enter
  <2>3. Listed' \subseteq Listed \cup {held}
    BY <1>t, <2>1, <2>2 DEF Listed
  <2> QED  BY <1>1, <2>1, <2>3
<1>2. ASSUME NEW c \in Conns, RemoveConn(c)
      PROVE  connLock = None /\ Listed' \subseteq Listed
  BY <1>t, <1>2 DEF RemoveConn, Listed
<1>3. ASSUME NEW p \in Stops, StopDone(p)
      PROVE  connections' = [a \in Addrs |-> None] /\ Listed' = {}
  BY <1>3 DEF StopDone, Listed
<1>4. CASE LoopSelect \/ AcceptFails \/ Refuse \/ UNCHANGED vars
  BY <1>4 DEF LoopSelect, AcceptFails, Refuse, vars
<1>5. ASSUME NEW c \in Conns,
             (\E a \in Addrs : Accept(c, a)) \/ Reset(c) \/ Fail(c) \/ CloseSocket(c)
      PROVE  UNCHANGED connections
  BY <1>5 DEF Accept, Reset, Fail, CloseSocket
<1>6. ASSUME NEW p \in Stops,
             \/ StopNotify(p) \/ StopListener(p) \/ StopLock(p) \/ StopLook(p)
             \/ StopShut(p)
      PROVE  UNCHANGED connections
  BY <1>6 DEF StopNotify, StopListener, StopLock, StopLook, StopShut
<1> QED  BY <1>1, <1>2, <1>3, <1>4, <1>5, <1>6 DEF Next, Stop, Stops

\* The limit: Enter is the only step that adds to the map.
LEMMA FiniteStep ==
  ASSUME [Next]_vars, TypeOK, Entered, Finite
  PROVE  Finite' /\ Cardinality(Listed') <= MaxConnections
<1>1. Cardinality(Listed) \in Nat /\ Cardinality(Listed) <= MaxConnections
        /\ MaxConnections \in Nat
  BY FS_CardinalityType, ServerAssumption DEF Finite, TypeOK
<1>2. CASE UNCHANGED connections
  BY <1>1, <1>2 DEF Finite, Listed
<1>3. CASE Enter /\ Listed' \subseteq Listed \cup {held}
  <2>1. Cardinality(Listed) < MaxConnections
    BY <1>3 DEF Enter
  <2>2. /\ IsFiniteSet(Listed \cup {held})
        /\ Cardinality(Listed \cup {held}) <= Cardinality(Listed) + 1
        /\ Cardinality(Listed \cup {held}) \in Nat
    BY <1>1, FS_AddElement DEF Finite
  <2>3. /\ IsFiniteSet(Listed') /\ Cardinality(Listed') <= Cardinality(Listed \cup {held})
        /\ Cardinality(Listed') \in Nat
    BY <1>3, <2>2, FS_Subset, FS_CardinalityType
  <2> QED  BY <1>1, <2>1, <2>2, <2>3 DEF Finite
<1>4. CASE Listed' \subseteq Listed
  <2>1. /\ IsFiniteSet(Listed') /\ Cardinality(Listed') <= Cardinality(Listed)
        /\ Cardinality(Listed') \in Nat
    BY <1>4, FS_Subset, FS_CardinalityType DEF Finite
  <2> QED  BY <1>1, <2>1 DEF Finite
<1> QED  BY <1>2, <1>3, <1>4, MapSteps

\* Every step keeps TypeOK.
LEMMA TypeStep ==
  ASSUME [Next]_vars, TypeOK, Entered, Finite, Stopping
  PROVE  TypeOK'
<1>f. (Cardinality(Listed) <= MaxConnections)'
  BY FiniteStep
<1>l. Listed \subseteq Conns
  BY DEF TypeOK, Listed
<1> USE ServerAssumption DEF TypeOK
<1>1. CASE LoopSelect \/ AcceptFails
  BY <1>1, <1>f DEF LoopSelect, AcceptFails, stopVars, connVars
<1>2. CASE Refuse
  <2>1. held \in Conns
    BY <1>2 DEF Refuse
  <2> QED  BY <1>2, <1>f, <2>1 DEF Refuse, stopVars
<1>11. CASE Enter
  <2>1. /\ held \in Conns /\ held' = None /\ loop' = "select" /\ reused' \in BOOLEAN
        /\ UNCHANGED <<stopVars, addr, live, connLock, crashed>>
    BY <1>11 DEF Enter
  <2>2. addr[held] \in Addrs
    BY <1>11, <2>1 DEF Enter, Entered
  <2>3. connections' \in [Addrs -> Conns \cup {None}]
    BY <1>11, <2>1, <2>2 DEF Enter
  <2>4. conn' \in [Conns -> {"new", "accepted", "open", "marked", "removed", "closed"}]
    BY <1>11, <2>1 DEF Enter
  <2> QED  BY <1>f, <2>1, <2>3, <2>4 DEF stopVars
<1>3. ASSUME NEW c \in Conns, NEW a \in Addrs, Accept(c, a) PROVE TypeOK'
  BY <1>3, <1>f DEF Accept, stopVars
<1>4. ASSUME NEW c \in Conns, Reset(c) \/ Fail(c) \/ CloseSocket(c) PROVE TypeOK'
  <2>1. CASE Reset(c)
    BY <2>1, <1>f DEF Reset, loopVars, stopVars
  <2>2. CASE Fail(c)
    BY <2>2, <1>f DEF Fail, loopVars, stopVars
  <2>3. CASE CloseSocket(c)
    BY <2>3, <1>f DEF CloseSocket, loopVars, stopVars
  <2> QED  BY <1>4, <2>1, <2>2, <2>3
<1>5. ASSUME NEW c \in Conns, RemoveConn(c) PROVE TypeOK'
  BY <1>5, <1>f DEF RemoveConn, loopVars, stopVars
<1>6. ASSUME NEW p \in Stops, StopNotify(p) \/ StopListener(p) PROVE TypeOK'
  <2>1. CASE StopNotify(p)
    BY <2>1, <1>f DEF StopNotify, Stops, loopVars, connVars
  <2>2. CASE StopListener(p)
    BY <2>2, <1>f DEF StopListener, Stops, loopVars, connVars
  <2> QED  BY <1>6, <2>1, <2>2
<1>7. ASSUME NEW p \in Stops, StopLock(p) PROVE TypeOK'
  BY <1>7, <1>f, <1>l DEF StopLock, Stops, loopVars, connVars
<1>8. ASSUME NEW p \in Stops, StopLook(p) \/ StopShut(p) PROVE TypeOK'
  BY <1>8, <1>f DEF StopLook, StopShut, loopVars, connVars
<1>9. ASSUME NEW p \in Stops, StopDone(p) PROVE TypeOK'
  <2>1. /\ loop' = (IF p = Loop THEN "ended" ELSE loop)
        /\ UNCHANGED <<held, notified, listening, left, visited, connVars, reused, crashed>>
        /\ connLock' = None
    BY <1>9 DEF StopDone
  <2>2. held' # None <=> loop' = "enter"
    BY <1>9, <2>1 DEF StopDone, Stopping
  <2>3. connections' \in [Addrs -> Conns \cup {None}]
    BY <1>9 DEF StopDone
  <2>4. stop' \in [Apps \cup {Loop} -> {"idle", "listener", "lock", "range", "done"}]
    BY <1>9 DEF StopDone, Stops
  <2> QED  BY <1>f, <2>1, <2>2, <2>3, <2>4 DEF connVars
<1>10. CASE UNCHANGED vars
  BY <1>10, <1>f DEF vars, loopVars, stopVars, connVars
<1> QED  BY <1>1, <1>2, <1>3, <1>4, <1>5, <1>6, <1>7, <1>8, <1>9, <1>10, <1>11
         DEF Next, Stop, Stops

\* Connection c goes on from one state to the next, alone.
Turns(c, from, to) ==
  /\ c \in Conns /\ conn[c] = from /\ conn'[c] = to
  /\ \A d \in Conns \ {c} : conn'[d] = conn[d]

\* How the steps take the connections from state to state.
LEMMA Turning ==
  ASSUME TypeOK, Entered
  PROVE  /\ \A c \in Conns, a \in Addrs : Accept(c, a) =>
              /\ Turns(c, "new", "accepted") /\ held = None /\ held' = c
              /\ addr'[c] = a /\ \A d \in Conns \ {c} : addr'[d] = addr[d]
              /\ UNCHANGED <<connections, connLock, reused>>
         /\ Refuse => /\ Turns(held, "accepted", "closed") /\ held' = None
                      /\ UNCHANGED <<addr, connections, connLock, reused>>
         /\ Enter => /\ Turns(held, "accepted", "open") /\ held' = None
                     /\ addr[held] \in Addrs /\ UNCHANGED <<addr, connLock, live>>
                     /\ connections'[addr[held]] = held
                     /\ \A a \in Addrs \ {addr[held]} : connections'[a] = connections[a]
         /\ \A c \in Conns : Fail(c) =>
              /\ Turns(c, "open", "marked")
              /\ UNCHANGED <<addr, held, connections, connLock, reused>>
         /\ \A c \in Conns : RemoveConn(c) =>
              /\ Turns(c, "marked", "removed") /\ addr[c] \in Addrs
              /\ UNCHANGED <<addr, held, connLock, reused, live>>
              /\ connections'[addr[c]] = None
              /\ \A a \in Addrs \ {addr[c]} : connections'[a] = connections[a]
         /\ \A c \in Conns : CloseSocket(c) =>
              /\ Turns(c, "removed", "closed")
              /\ UNCHANGED <<addr, held, connections, connLock, reused>>
<1> USE ServerAssumption DEF TypeOK, Turns
<1>1. ASSUME NEW c \in Conns, NEW a \in Addrs, Accept(c, a)
      PROVE  /\ Turns(c, "new", "accepted") /\ held = None /\ held' = c
             /\ addr'[c] = a /\ \A d \in Conns \ {c} : addr'[d] = addr[d]
             /\ UNCHANGED <<connections, connLock, reused>>
  BY <1>1 DEF Accept
<1>2. ASSUME Refuse
      PROVE  /\ Turns(held, "accepted", "closed") /\ held' = None
             /\ UNCHANGED <<addr, connections, connLock, reused>>
  BY <1>2 DEF Refuse, Entered
<1>3. ASSUME Enter
      PROVE  /\ Turns(held, "accepted", "open") /\ held' = None
             /\ addr[held] \in Addrs /\ UNCHANGED <<addr, connLock, live>>
             /\ connections'[addr[held]] = held
             /\ \A a \in Addrs \ {addr[held]} : connections'[a] = connections[a]
  BY <1>3 DEF Enter, Entered
<1>4. ASSUME NEW c \in Conns, Fail(c)
      PROVE  /\ Turns(c, "open", "marked")
             /\ UNCHANGED <<addr, held, connections, connLock, reused>>
  BY <1>4 DEF Fail, loopVars
<1>5. ASSUME NEW c \in Conns, RemoveConn(c)
      PROVE  /\ Turns(c, "marked", "removed") /\ addr[c] \in Addrs
             /\ UNCHANGED <<addr, held, connLock, reused, live>>
             /\ connections'[addr[c]] = None
             /\ \A a \in Addrs \ {addr[c]} : connections'[a] = connections[a]
  BY <1>5 DEF RemoveConn, Entered, loopVars
<1>6. ASSUME NEW c \in Conns, CloseSocket(c)
      PROVE  /\ Turns(c, "removed", "closed")
             /\ UNCHANGED <<addr, held, connections, connLock, reused>>
  BY <1>6 DEF CloseSocket, loopVars
<1> QED  BY <1>1, <1>2, <1>3, <1>4, <1>5, <1>6

\* Every step keeps Entered.
LEMMA EnteredStep == ASSUME [Next]_vars, TypeOK, Entered PROVE Entered'
<1>n. None \notin Conns
  BY ServerAssumption
<1>1. CASE LoopSelect \/ AcceptFails \/ UNCHANGED vars
  BY <1>1 DEF LoopSelect, AcceptFails, connVars, vars, loopVars, Entered
<1>2. CASE Refuse
  <2>1. Turns(held, "accepted", "closed") /\ held' = None /\ UNCHANGED addr
    BY <1>2, Turning
  <2> QED  BY <1>n, <2>1 DEF Turns, Entered
<1>3. CASE Enter
  <2>1. Turns(held, "accepted", "open") /\ held' = None /\ UNCHANGED addr
    BY <1>3, Turning
  <2> QED  BY <1>n, <2>1 DEF Turns, Entered
<1>4. ASSUME NEW c \in Conns, NEW a \in Addrs, Accept(c, a) PROVE Entered'
  <2>1. /\ Turns(c, "new", "accepted") /\ held = None /\ held' = c
        /\ addr'[c] = a /\ \A d \in Conns \ {c} : addr'[d] = addr[d]
    BY <1>4, Turning
  <2> QED  BY <1>n, <2>1 DEF Turns, Entered
<1>5. ASSUME NEW c \in Conns, Fail(c) \/ RemoveConn(c) \/ CloseSocket(c) PROVE Entered'
  <2>1. /\ \/ Turns(c, "open", "marked") \/ Turns(c, "marked", "removed")
           \/ Turns(c, "removed", "closed")
        /\ UNCHANGED <<addr, held>>
    BY <1>5, Turning
  <2> QED  BY <1>n, <2>1 DEF Turns, Entered
<1>6. ASSUME NEW c \in Conns, Reset(c) PROVE Entered'
  BY <1>6 DEF Reset, loopVars, Entered
<1>7. ASSUME NEW p \in Stops, StopNotify(p) \/ Stop(p) PROVE Entered'
  BY <1>7 DEF StopNotify, Stop, StopListener, StopLock, StopLook, StopShut, StopDone,
     connVars, loopVars, Entered
<1> QED  BY <1>1, <1>2, <1>3, <1>4, <1>5, <1>6, <1>7 DEF Next, Stops

\* Every step keeps Keyed.
LEMMA KeyedStep == ASSUME [Next]_vars, TypeOK, Entered, Keyed PROVE Keyed'
<1>n. None \notin Conns /\ \A a \in Addrs : connections[a] # None => connections[a] \in Conns
  BY ServerAssumption DEF TypeOK
<1>1. CASE LoopSelect \/ AcceptFails \/ UNCHANGED vars
  BY <1>1 DEF LoopSelect, AcceptFails, connVars, vars, Keyed
<1>2. CASE Refuse
  <2>1. Turns(held, "accepted", "closed") /\ UNCHANGED <<addr, connections>>
    BY <1>2, Turning
  <2> QED  BY <1>n, <2>1 DEF Turns, Keyed
<1>3. CASE Enter
  <2>1. /\ Turns(held, "accepted", "open") /\ addr[held] \in Addrs /\ UNCHANGED addr
        /\ connections'[addr[held]] = held
        /\ \A a \in Addrs \ {addr[held]} : connections'[a] = connections[a]
    BY <1>3, Turning
  <2> QED  BY <1>n, <2>1 DEF Turns, Keyed
<1>4. ASSUME NEW c \in Conns, NEW a \in Addrs, Accept(c, a) PROVE Keyed'
  <2>1. /\ Turns(c, "new", "accepted") /\ \A d \in Conns \ {c} : addr'[d] = addr[d]
        /\ UNCHANGED connections
    BY <1>4, Turning
  <2> QED  BY <1>n, <2>1 DEF Turns, Keyed
<1>5. ASSUME NEW c \in Conns, Fail(c) \/ CloseSocket(c) PROVE Keyed'
  <2>1. /\ Turns(c, "open", "marked") \/ Turns(c, "removed", "closed")
        /\ UNCHANGED <<addr, connections>>
    BY <1>5, Turning
  <2> QED  BY <1>n, <2>1 DEF Turns, Keyed
<1>6. ASSUME NEW c \in Conns, RemoveConn(c) PROVE Keyed'
  <2>1. /\ Turns(c, "marked", "removed") /\ addr[c] \in Addrs /\ UNCHANGED addr
        /\ connections'[addr[c]] = None
        /\ \A a \in Addrs \ {addr[c]} : connections'[a] = connections[a]
    BY <1>6, Turning
  <2> QED  BY <1>n, <2>1 DEF Turns, Keyed
<1>7. ASSUME NEW c \in Conns, Reset(c) PROVE Keyed'
  BY <1>7 DEF Reset, Keyed
<1>8. ASSUME NEW p \in Stops, StopNotify(p) \/ Stop(p) PROVE Keyed'
  <2>1. CASE StopDone(p)
    BY <2>1 DEF StopDone, Keyed
  <2>2. CASE ~StopDone(p)
    BY <1>8, <2>2 DEF StopNotify, Stop, StopListener, StopLock, StopLook, StopShut,
       connVars, Keyed
  <2> QED  BY <2>1, <2>2
<1> QED  BY <1>1, <1>2, <1>3, <1>4, <1>5, <1>6, <1>7, <1>8 DEF Next, Stops

\* The accept loop and the connections.
Traffic ==
  \/ LoopSelect \/ AcceptFails \/ Refuse \/ Enter
  \/ \E c \in Conns : \/ \E a \in Addrs : Accept(c, a)
                      \/ Reset(c) \/ Fail(c) \/ RemoveConn(c) \/ CloseSocket(c)
  \/ UNCHANGED vars

\* A step is one of the traffic or of a Stop.
LEMMA StepCases ==
  ASSUME [Next]_vars
  PROVE  Traffic \/ \E p \in Stops : StopNotify(p) \/ Stop(p)
BY DEF Next, Traffic, Stops

\* The traffic leaves Stop alone, and the map too while Stop holds the lock.
LEMMA TrafficKeeps ==
  ASSUME Traffic
  PROVE  /\ UNCHANGED <<notified, listening, stop, left, visited, connLock, crashed>>
         /\ connLock # None => UNCHANGED connections
<1> USE DEF stopVars
<1>1. CASE LoopSelect \/ AcceptFails \/ Refuse \/ Enter \/ UNCHANGED vars
  BY <1>1 DEF LoopSelect, AcceptFails, Refuse, Enter, vars
<1>2. ASSUME NEW c \in Conns,
             \/ \E a \in Addrs : Accept(c, a)
             \/ Reset(c) \/ Fail(c) \/ RemoveConn(c) \/ CloseSocket(c)
      PROVE  /\ UNCHANGED <<notified, listening, stop, left, visited, connLock, crashed>>
             /\ connLock # None => UNCHANGED connections
  BY <1>2 DEF Accept, Reset, Fail, RemoveConn, CloseSocket
<1> QED  BY <1>1, <1>2 DEF Traffic

\* Every step keeps Locked: whoever changes the map waits for the lock.
LEMMA LockedStep == ASSUME [Next]_vars, TypeOK, Entered, Locked PROVE Locked'
<1>t. /\ stop \in [Stops -> {"idle", "listener", "lock", "range", "done"}]
      /\ None \notin Stops
  BY ServerAssumption DEF TypeOK, Stops
<1>1. CASE Traffic
  <2>1. /\ UNCHANGED <<stop, left, visited, connLock>>
        /\ connLock # None => UNCHANGED connections
    BY <1>1, TrafficKeeps
  <2>2. CASE connLock = None
    BY <2>1, <2>2 DEF Locked
  <2>3. CASE connLock # None
    BY <2>1, <2>3 DEF Locked, Listed
  <2> QED  BY <2>2, <2>3
<1>2. ASSUME NEW p \in Stops, StopNotify(p) \/ StopListener(p) PROVE Locked'
  <2>1. /\ UNCHANGED <<left, visited, connLock, connections>>
        /\ stop[p] # "range" /\ stop'[p] # "range"
        /\ \A q \in Stops \ {p} : stop'[q] = stop[q]
    BY <1>t, <1>2 DEF StopNotify, StopListener
  <2> QED  BY <2>1 DEF Locked, Listed
<1>3. ASSUME NEW p \in Stops, StopLock(p) PROVE Locked'
  <2>1. /\ connLock = None /\ connLock' = p /\ left' = Listed
        /\ UNCHANGED <<visited, connections>> /\ stop'[p] = "range"
        /\ \A q \in Stops \ {p} : stop'[q] = stop[q]
    BY <1>t, <1>3 DEF StopLock
  <2>2. Listed' = Listed
    BY <2>1 DEF Listed
  <2> QED  BY <1>t, <2>1, <2>2 DEF Locked
<1>4. ASSUME NEW p \in Stops, StopLook(p) PROVE Locked'
  <2>1. PICK c \in left : left' = left \ {c} /\ visited' \in {None, c}
    BY <1>4 DEF StopLook
  <2>2. UNCHANGED <<connLock, stop, connections>> /\ connLock = p
    BY <1>4 DEF StopLook, Locked
  <2> QED  BY <1>t, <2>1, <2>2 DEF Locked, Listed
<1>5. ASSUME NEW p \in Stops, StopShut(p) PROVE Locked'
  <2>1. /\ UNCHANGED <<connLock, stop, connections, left>> /\ visited' = None
        /\ connLock = p
    BY <1>5 DEF StopShut, Locked
  <2> QED  BY <1>t, <2>1 DEF Locked, Listed
<1>6. ASSUME NEW p \in Stops, StopDone(p) PROVE Locked'
  <2>1. /\ connLock' = None /\ left' = {} /\ visited' = None
        /\ stop'[p] = "done" /\ \A q \in Stops \ {p} : stop'[q] = stop[q]
    BY <1>t, <1>6 DEF StopDone
  <2>2. connLock = p
    BY <1>6 DEF StopDone, Locked
  <2> QED  BY <1>t, <2>1, <2>2 DEF Locked
<1> QED  BY <1>1, <1>2, <1>3, <1>4, <1>5, <1>6, StepCases DEF Stop

\* Every step keeps Stopping.
LEMMA StoppingStep == ASSUME [Next]_vars, TypeOK, Stopping PROVE Stopping'
<1>t. /\ stop \in [Stops -> {"idle", "listener", "lock", "range", "done"}]
      /\ Loop \in Stops /\ notified \in BOOLEAN
  BY DEF TypeOK, Stops
<1>1. CASE Traffic
  <2>1. UNCHANGED <<notified, listening, stop>>
    BY <1>1, TrafficKeeps
  <2>2. loop = "stop" => loop' = "stop"
    BY <1>1 DEF Traffic, LoopSelect, AcceptFails, Refuse, Enter, Accept, Reset, Fail,
       RemoveConn, CloseSocket, vars, loopVars
  <2> QED  BY <2>1, <2>2 DEF Stopping
<1>2. ASSUME NEW p \in Stops, StopNotify(p) PROVE Stopping'
  <2>1. CASE notified
    BY <1>2, <2>1 DEF StopNotify, Stopping, loopVars
  <2>2. CASE ~notified
    <3>1. /\ notified' = TRUE /\ stop'[p] = "listener" /\ (p = Loop => loop = "stop")
          /\ UNCHANGED <<loop, listening>> /\ \A q \in Stops \ {p} : stop'[q] = stop[q]
      BY <1>t, <1>2, <2>2 DEF StopNotify, loopVars
    <3>2. \A q \in Stops : stop[q] = "idle"
      BY <1>t, <2>2 DEF Stopping
    <3> QED  BY <1>t, <3>1, <3>2 DEF Stopping
  <2> QED  BY <2>1, <2>2
<1>3. ASSUME NEW p \in Stops, StopListener(p) \/ StopLock(p) PROVE Stopping'
  <2>1. /\ stop[p] \in {"listener", "lock"} /\ stop'[p] \in {"lock", "range"}
        /\ UNCHANGED <<loop, notified>> /\ \A q \in Stops \ {p} : stop'[q] = stop[q]
        /\ listening' = FALSE \/ (stop[p] = "lock" /\ listening' = listening)
    BY <1>t, <1>3 DEF StopListener, StopLock, loopVars
  <2> QED  BY <1>t, <2>1 DEF Stopping
<1>4. ASSUME NEW p \in Stops, StopLook(p) \/ StopShut(p) PROVE Stopping'
  <2>1. UNCHANGED <<loop, notified, listening, stop>>
    BY <1>4 DEF StopLook, StopShut, loopVars
  <2> QED  BY <2>1 DEF Stopping
<1>5. ASSUME NEW p \in Stops, StopDone(p) PROVE Stopping'
  <2>1. /\ stop[p] = "range" /\ stop'[p] = "done"
        /\ UNCHANGED <<notified, listening>> /\ \A q \in Stops \ {p} : stop'[q] = stop[q]
        /\ p # Loop => UNCHANGED loop
    BY <1>t, <1>5 DEF StopDone
  <2> QED  BY <1>t, <2>1 DEF Stopping
<1> QED  BY <1>1, <1>2, <1>3, <1>4, <1>5, StepCases DEF Stop

\* Every step keeps AllListed: no second connection of one address, none
\* lost from the map before removeConn.
LEMMA AllListedStep ==
  ASSUME [Next]_vars, TypeOK, Entered, Keyed, Stopping, AllListed PROVE AllListed'
<1> SUFFICES ASSUME \A p \in Stops : stop'[p] # "done", ~reused'
             PROVE  \A c \in Conns : conn'[c] \in {"open", "marked"} =>
                                       connections'[addr'[c]] = c
  BY DEF AllListed
<1>t. stop \in [Stops -> {"idle", "listener", "lock", "range", "done"}]
  BY DEF TypeOK, Stops
<1>h. ASSUME \A p \in Stops : stop[p] # "done", ~reused
      PROVE  \A c \in Conns : conn[c] \in {"open", "marked"} =>
               connections[addr[c]] = c /\ addr[c] \in Addrs
  BY <1>h DEF AllListed, Entered
<1>1. CASE Traffic
  <2>1. \A p \in Stops : stop[p] # "done"
    BY <1>1, TrafficKeeps
  <2>2. CASE LoopSelect \/ AcceptFails \/ UNCHANGED vars \/ \E c \in Conns : Reset(c)
    BY <1>h, <2>1, <2>2 DEF LoopSelect, AcceptFails, vars, connVars, Reset
  <2>3. CASE Refuse
    <3>1. Turns(held, "accepted", "closed") /\ UNCHANGED <<addr, connections, reused>>
      BY <2>3, Turning
    <3> QED  BY <1>h, <2>1, <3>1 DEF Turns
  <2>4. CASE Enter
    <3>1. /\ Turns(held, "accepted", "open") /\ addr[held] \in Addrs /\ UNCHANGED addr
          /\ connections'[addr[held]] = held
          /\ \A a \in Addrs \ {addr[held]} : connections'[a] = connections[a]
      BY <2>4, Turning
    <3>2. ~reused /\ \A c \in Conns : addr[c] = addr[held] => conn[c] \notin {"open", "marked"}
      BY <2>4 DEF Enter
    <3> QED  BY <1>h, <2>1, <3>1, <3>2 DEF Turns
  <2>5. ASSUME NEW c \in Conns, NEW a \in Addrs, Accept(c, a)
        PROVE  \A d \in Conns : conn'[d] \in {"open", "marked"} => connections'[addr'[d]] = d
    <3>1. /\ Turns(c, "new", "accepted") /\ \A d \in Conns \ {c} : addr'[d] = addr[d]
          /\ UNCHANGED <<connections, reused>>
      BY <2>5, Turning
    <3> QED  BY <1>h, <2>1, <3>1 DEF Turns
  <2>6. ASSUME NEW c \in Conns, Fail(c) \/ CloseSocket(c)
        PROVE  \A d \in Conns : conn'[d] \in {"open", "marked"} => connections'[addr'[d]] = d
    <3>1. /\ Turns(c, "open", "marked") \/ Turns(c, "removed", "closed")
          /\ UNCHANGED <<addr, connections, reused>>
      BY <2>6, Turning
    <3> QED  BY <1>h, <2>1, <3>1 DEF Turns
  <2>7. ASSUME NEW c \in Conns, RemoveConn(c)
        PROVE  \A d \in Conns : conn'[d] \in {"open", "marked"} => connections'[addr'[d]] = d
    <3>1. /\ Turns(c, "marked", "removed") /\ addr[c] \in Addrs /\ UNCHANGED <<addr, reused>>
          /\ \A a \in Addrs \ {addr[c]} : connections'[a] = connections[a]
      BY <2>7, Turning
    <3>2. \A d \in Conns \ {c} : conn[d] \in {"open", "marked"} =>
            addr[d] # addr[c] /\ addr[d] \in Addrs /\ connections[addr[d]] = d
      BY <1>h, <2>1, <3>1 DEF Turns
    <3> QED  BY <3>1, <3>2 DEF Turns
  <2> QED  BY <1>1, <2>2, <2>3, <2>4, <2>5, <2>6, <2>7 DEF Traffic
<1>2. ASSUME NEW p \in Stops, StopNotify(p) \/ Stop(p)
      PROVE  \A c \in Conns : conn'[c] \in {"open", "marked"} => connections'[addr'[c]] = c
  <2>1. ~StopDone(p)
    BY <1>t DEF StopDone
  <2>2. /\ UNCHANGED <<conn, addr, connections, reused>>
        /\ \A q \in Stops \ {p} : stop'[q] = stop[q]
        /\ stop[p] # "done"
    BY <1>t, <1>2, <2>1 DEF StopNotify, Stop, StopListener, StopLock, StopLook, StopShut,
       connVars
  <2>3. \A q \in Stops : stop[q] # "done"
    BY <2>2
  <2> QED  BY <1>h, <2>2, <2>3
<1> QED  BY <1>1, <1>2, StepCases

\* A socket joins the open ones by Accept and Enter only, and without the
\* listener none joins those that are accepted or open.
LEMMA TrafficCloses ==
  ASSUME Traffic, TypeOK, Entered
  PROVE  /\ reused => reused'
         /\ connLock # None => \A c \in live' : conn'[c] = "open" => c \in live /\ conn[c] = "open"
         /\ ~listening => \A c \in live' : conn'[c] \in {"accepted", "open"} =>
                            c \in live /\ conn[c] \in {"accepted", "open"}
<1> DEFINE A == connLock # None =>
                  \A c \in live' : conn'[c] = "open" => c \in live /\ conn[c] = "open"
           B == ~listening => \A c \in live' : conn'[c] \in {"accepted", "open"} =>
                                c \in live /\ conn[c] \in {"accepted", "open"}
<1>t. live \subseteq Conns
  BY DEF TypeOK
<1>1. CASE LoopSelect \/ AcceptFails \/ UNCHANGED vars
  BY <1>1 DEF LoopSelect, AcceptFails, vars, connVars
<1>2. CASE Refuse
  <2>1. /\ Turns(held, "accepted", "closed") /\ live' = live \ {held} /\ UNCHANGED reused
    BY <1>2, Turning DEF Refuse
  <2> QED  BY <1>t, <2>1 DEF Turns
<1>3. CASE Enter
  <2>1. /\ Turns(held, "accepted", "open") /\ live' = live /\ connLock = None
        /\ reused => reused'
    BY <1>3, Turning DEF Enter
  <2> QED  BY <1>t, <2>1 DEF Turns
<1>4. ASSUME NEW c \in Conns, NEW a \in Addrs, Accept(c, a) PROVE (reused => reused') /\ A /\ B
  <2>1. /\ Turns(c, "new", "accepted") /\ live' = live \cup {c} /\ listening
        /\ UNCHANGED reused
    BY <1>4, Turning DEF Accept
  <2> QED  BY <1>t, <2>1 DEF Turns
<1>5. ASSUME NEW c \in Conns, Reset(c) PROVE (reused => reused') /\ A /\ B
  BY <1>5 DEF Reset
<1>6. ASSUME NEW c \in Conns, Fail(c) \/ RemoveConn(c) \/ CloseSocket(c)
      PROVE  (reused => reused') /\ A /\ B
  <2>1. /\ \/ Turns(c, "open", "marked") \/ Turns(c, "marked", "removed")
           \/ Turns(c, "removed", "closed")
        /\ UNCHANGED reused
    BY <1>6, Turning
  <2>2. live' \subseteq live
    BY <1>6 DEF Fail, RemoveConn, CloseSocket
  <2> QED  BY <1>t, <2>1, <2>2 DEF Turns
<1> QED  BY <1>1, <1>2, <1>3, <1>4, <1>5, <1>6 DEF Traffic

\* Every step keeps StillAhead and OneLeft, and Stop never finds tcpConn nil.
LEMMA SurvivorStep ==
  ASSUME [Next]_vars, IInv
  PROVE  StillAhead' /\ OneLeft' /\ crashed' # "nil tcpConn"
<1>i. /\ TypeOK /\ Entered /\ Keyed /\ Locked /\ Stopping /\ AllListed /\ StillAhead
      /\ OneLeft /\ crashed # "nil tcpConn"
  BY DEF IInv
<1>t. /\ stop \in [Stops -> {"idle", "listener", "lock", "range", "done"}]
      /\ None \notin Stops \cup Conns /\ live \subseteq Conns
  BY <1>i, ServerAssumption DEF TypeOK, Stops
<1>1. CASE Traffic
  <2>1. UNCHANGED <<stop, left, visited, connLock, crashed>> /\ (reused => reused')
    BY <1>i, <1>1, TrafficKeeps, TrafficCloses
  <2>2. StillAhead'
    <3> SUFFICES ASSUME NEW p \in Stops, stop[p] = "range", ~reused,
                        NEW c \in live', conn'[c] = "open"
                 PROVE  c \in left \cup {visited}
      BY <2>1 DEF StillAhead
    <3>1. connLock # None
      BY <1>i, <1>t DEF Locked
    <3>2. c \in live /\ conn[c] = "open"
      BY <1>1, <1>i, <3>1, TrafficCloses
    <3> QED  BY <1>i, <3>2 DEF StillAhead
  <2>3. OneLeft'
    <3> SUFFICES ASSUME NEW p \in Stops, stop[p] = "done", ~reused,
                        NEW c \in live', NEW d \in live',
                        conn'[c] \in {"accepted", "open"}, conn'[d] \in {"accepted", "open"}
                 PROVE  c = d
      BY <2>1 DEF OneLeft
    <3>1. ~listening
      BY <1>i DEF Stopping
    <3>2. /\ c \in live /\ conn[c] \in {"accepted", "open"}
          /\ d \in live /\ conn[d] \in {"accepted", "open"}
      BY <1>1, <1>i, <3>1, TrafficCloses
    <3> QED  BY <1>i, <3>2 DEF OneLeft
  <2> QED  BY <1>i, <2>1, <2>2, <2>3
<1>2. ASSUME NEW p \in Stops, StopNotify(p) \/ StopListener(p)
      PROVE  StillAhead' /\ OneLeft' /\ crashed' # "nil tcpConn"
  <2>1. /\ UNCHANGED <<left, visited, conn, live, reused>>
        /\ stop'[p] = stop[p] \/ stop'[p] \in {"listener", "lock"}
        /\ \A q \in Stops \ {p} : stop'[q] = stop[q]
        /\ crashed' \in {crashed, "close of closed channel"}
    BY <1>t, <1>2 DEF StopNotify, StopListener, connVars
  <2>2. crashed' # "nil tcpConn"
    BY <1>i, <2>1
  <2>3. \A q \in Stops : stop'[q] \in {"range", "done"} => stop'[q] = stop[q]
    BY <2>1
  <2>4. StillAhead'
    BY <1>i, <2>1, <2>3 DEF StillAhead
  <2>5. OneLeft'
    <3> SUFFICES ASSUME NEW q \in Stops, stop[q] = "done", ~reused,
                        NEW c \in live, NEW d \in live,
                        conn[c] \in {"accepted", "open"}, conn[d] \in {"accepted", "open"}
                 PROVE  c = d
      BY <2>1, <2>3 DEF OneLeft
    <3> QED  BY <1>i DEF OneLeft
  <2> QED  BY <2>2, <2>4, <2>5
<1>3. ASSUME NEW p \in Stops, StopLock(p) \/ StopLook(p) \/ StopShut(p) \/ StopDone(p)
      PROVE  \A q \in Stops \ {p} : stop[q] = "idle" /\ stop'[q] = "idle"
  <2>1. stop[p] # "idle" /\ \A q \in Stops \ {p} : stop'[q] = stop[q]
    BY <1>t, <1>3 DEF StopLock, StopLook, StopShut, StopDone
  <2> QED  BY <1>i, <1>t, <2>1 DEF Stopping
<1>4. ASSUME NEW p \in Stops, StopLock(p)
      PROVE  StillAhead' /\ OneLeft' /\ crashed' # "nil tcpConn"
  <2>1. /\ UNCHANGED <<conn, live, reused, crashed>> /\ left' = Listed
        /\ stop[p] = "lock" /\ stop'[p] = "range"
    BY <1>t, <1>4 DEF StopLock, connVars
  <2>2. \A q \in Stops : stop[q] # "done" /\ stop'[q] # "done"
    BY <1>3, <1>4, <2>1
  <2>3. ASSUME ~reused, NEW c \in live, conn[c] = "open" PROVE c \in Listed
    <3>1. connections[addr[c]] = c /\ addr[c] \in Addrs /\ c \in Conns
      BY <1>i, <1>t, <2>2, <2>3 DEF AllListed, Entered
    <3> QED  BY <1>t, <3>1 DEF Listed
  <2>4. StillAhead'
    BY <2>1, <2>3 DEF StillAhead
  <2>5. OneLeft'
    BY <2>2 DEF OneLeft
  <2> QED  BY <1>i, <2>1, <2>4, <2>5
<1>5. ASSUME NEW p \in Stops, StopLook(p) \/ StopShut(p)
      PROVE  StillAhead' /\ OneLeft' /\ crashed' # "nil tcpConn"
  <2>1. UNCHANGED <<conn, reused, stop>> /\ stop[p] = "range"
    BY <1>5 DEF StopLook, StopShut, connVars
  <2>2. \A q \in Stops : stop[q] # "done"
    BY <1>3, <1>5, <2>1
  <2>3. OneLeft'
    BY <2>1, <2>2 DEF OneLeft
  <2>4. \A q \in Stops : stop[q] = "range" => q = p
    BY <1>3, <1>5
  <2>5. CASE StopLook(p)
    <3>1. PICK c \in left : /\ left' = left \ {c}
                            /\ visited' = IF conn[c] = "closed" THEN None ELSE c
      BY <2>5 DEF StopLook
    <3>2. UNCHANGED <<live, crashed>> /\ visited = None
      BY <2>5 DEF StopLook, connVars
    <3>3. ASSUME ~reused, NEW d \in live, conn[d] = "open" PROVE d \in left' \cup {visited'}
      <4>1. d \in left
        BY <1>i, <1>t, <2>1, <3>2, <3>3 DEF StillAhead
      <4> QED  BY <3>1, <3>3, <4>1
    <3>4. StillAhead'
      BY <2>1, <3>2, <3>3 DEF StillAhead
    <3> QED  BY <1>i, <2>3, <3>2, <3>4
  <2>6. CASE StopShut(p)
    <3>1. conn[visited] # "closed"
      <4>1. visited \in Listed
        BY <1>i, <2>6 DEF StopShut, Locked
      <4> QED  BY <1>i, <4>1 DEF Listed, Keyed
    <3>2. live' = live \ {visited} /\ UNCHANGED <<crashed, left>>
      BY <2>6, <3>1 DEF StopShut
    <3>3. ASSUME ~reused, NEW d \in live', conn[d] = "open" PROVE d \in left'
      BY <1>i, <2>1, <3>2, <3>3 DEF StillAhead
    <3>4. StillAhead'
      BY <2>1, <3>3 DEF StillAhead
    <3> QED  BY <1>i, <2>3, <3>2, <3>4
  <2> QED  BY <1>5, <2>5, <2>6
<1>6. ASSUME NEW p \in Stops, StopDone(p)
      PROVE  StillAhead' /\ OneLeft' /\ crashed' # "nil tcpConn"
  <2>1. /\ UNCHANGED <<conn, live, reused, crashed>> /\ left = {} /\ visited = None
        /\ stop[p] = "range" /\ stop'[p] = "done"
    BY <1>t, <1>6 DEF StopDone, connVars
  <2>2. \A q \in Stops : stop'[q] # "range"
    BY <1>3, <1>6, <2>1
  <2>3. ASSUME ~reused, NEW c \in live, conn[c] \in {"accepted", "open"} PROVE c = held
    <3>1. conn[c] # "open"
      BY <1>i, <1>t, <2>1, <2>3 DEF StillAhead
    <3> QED  BY <1>i, <1>t, <2>3, <3>1 DEF Entered
  <2>4. OneLeft'
    BY <2>1, <2>3 DEF OneLeft
  <2>5. StillAhead'
    BY <2>2 DEF StillAhead
  <2> QED  BY <1>i, <2>1, <2>4, <2>5
<1> QED  BY <1>1, <1>2, <1>4, <1>5, <1>6, StepCases DEF Stop
-----------------------------------------------------------------------------
(* The theorems.                                                           *)

\* Every behaviour of Server keeps IInv.
THEOREM Invariance == Spec => []IInv
<1>1. Init => IInv
  <2> SUFFICES ASSUME Init PROVE IInv
    OBVIOUS
  <2>1. Listed = {}
    BY DEF Init, Listed
  <2>2. Finite /\ Cardinality(Listed) <= MaxConnections
    <3>1. IsFiniteSet(Listed) /\ Cardinality(Listed) = 0
      BY <2>1, FS_EmptySet
    <3>2. MaxConnections \in Nat
      BY ServerAssumption, Zenon
    <3>3. \A n \in Nat : 0 <= n
      OBVIOUS
    <3> QED  BY <3>1, <3>2, <3>3, Zenon DEF Finite
  <2>3. TypeOK
    BY <2>2, ServerAssumption DEF Init, TypeOK
  <2>4. Entered /\ Keyed /\ Locked /\ Stopping
    BY <2>1, ServerAssumption DEF Init, Entered, Keyed, Locked, Stopping, Stops
  <2>5. AllListed /\ StillAhead /\ OneLeft /\ crashed # "nil tcpConn"
    BY ServerAssumption DEF Init, AllListed, StillAhead, OneLeft, Stops
  <2> QED  BY <2>2, <2>3, <2>4, <2>5 DEF IInv
<1>2. IInv /\ [Next]_vars => IInv'
  <2> SUFFICES ASSUME IInv, [Next]_vars PROVE IInv'
    OBVIOUS
  <2>1. TypeOK' /\ Finite'
    BY TypeStep, FiniteStep DEF IInv
  <2>2. Entered' /\ Keyed'
    BY EnteredStep, KeyedStep DEF IInv
  <2>3. Locked' /\ Stopping'
    BY LockedStep, StoppingStep DEF IInv
  <2>4. AllListed'
    BY AllListedStep DEF IInv
  <2>5. StillAhead' /\ OneLeft' /\ crashed' # "nil tcpConn"
    BY SurvivorStep
  <2> QED  BY <2>1, <2>2, <2>3, <2>4, <2>5 DEF IInv
<1> QED  BY <1>1, <1>2, PTL DEF Spec

\* Every variable of the Server keeps its type and m.connections never holds
\* more than MaxConnections.
THEOREM TypeCorrect == Spec => []TypeOK
BY Invariance, PTL DEF IInv

\* Stop never uses a tcpConn that Connection.Close has set to nil, however
\* many connections fail and come again while it goes over the map.
THEOREM StopIsSafe == Spec => []StopFindsSockets
<1>1. IInv => StopFindsSockets
  <2> SUFFICES ASSUME IInv PROVE StopFindsSockets
    OBVIOUS
  <2>1. left \subseteq Listed /\ crashed # "nil tcpConn"
    BY DEF IInv, Locked
  <2>2. \A c \in Listed : conn[c] \in {"open", "marked"}
    BY DEF IInv, Keyed, Listed
  <2> QED  BY <2>1, <2>2 DEF StopFindsSockets
<1> QED  BY Invariance, <1>1, PTL

\* Until Stop, MaxConnections limits all open connections, unless an address
\* came again before its former connection was removed.
THEOREM LimitCoversOpen == Spec => []OpenIsListed
<1>1. IInv => OpenIsListed
  <2> SUFFICES ASSUME IInv, ~notified, ~reused
               PROVE  /\ \A c \in Conns : conn[c] = "open" => connections[addr[c]] = c
                      /\ Cardinality({c \in Conns : conn[c] = "open"}) <= MaxConnections
    BY DEF OpenIsListed
  <2> DEFINE Open == {c \in Conns : conn[c] = "open"}
  <2>1. \A p \in Stops : stop[p] # "done"
    BY DEF IInv, Stopping
  <2>2. \A c \in Open : connections[addr[c]] = c /\ addr[c] \in Addrs
    BY <2>1 DEF IInv, AllListed, Entered
  <2>3. Open \subseteq Listed
    BY <2>2, ServerAssumption DEF Listed
  <2>4. /\ IsFiniteSet(Listed) /\ Cardinality(Listed) <= MaxConnections
        /\ Cardinality(Listed) \in Nat /\ MaxConnections \in Nat
    BY FS_CardinalityType, ServerAssumption DEF IInv, TypeOK, Finite
  <2> HIDE DEF Open
  <2>5. Cardinality(Open) <= Cardinality(Listed) /\ Cardinality(Open) \in Nat
    BY <2>3, <2>4, FS_Subset, FS_CardinalityType
  <2>6. Cardinality(Open) <= MaxConnections
    BY <2>4, <2>5
  <2> QED  BY <2>2, <2>6 DEF Open
<1> QED  BY Invariance, <1>1, PTL

\* When Stop is done at most one connection survives it, the one acceptConn
\* had in its hand, unless an address came again too early.
THEOREM StopLeavesOne == Spec => []AtMostOneSurvives
<1>1. IInv => AtMostOneSurvives
  <2> DEFINE S == {c \in live : conn[c] \in {"accepted", "open"}}
  <2> SUFFICES ASSUME IInv, NEW p \in Stops, stop[p] = "done", ~reused
               PROVE  Cardinality(S) <= 1
    BY DEF AtMostOneSurvives, Stops
  <2>1. \A c, d \in S : c = d
    BY DEF IInv, OneLeft
  <2> HIDE DEF S
  <2>2. S = {} \/ \E c : S = {c}
    BY <2>1
  <2>3. Cardinality(S) \in {0, 1}
    BY <2>2, FS_EmptySet, FS_Singleton
  <2> QED  BY <2>3
<1> QED  BY Invariance, <1>1, PTL
=============================================================================
