------------------------------- MODULE Server -------------------------------
(***************************************************************************)
(* The connections of a Server (server.go): the accept loop that Serve     *)
(* starts, acceptConn, removeConn, and Stop, which the application and the *)
(* accept loop call.  Connection.Close (protocol.go) is here as far as the *)
(* Server sees it: it marks the connection, takes it off the map and only  *)
(* then closes the socket and forgets it.                                  *)
(*                                                                         *)
(* The map has the remote address as key.  A peer that resets its          *)
(* connection may connect again from the same address before the Server    *)
(* has noticed.  Stop before Serve, which closes a nil channel, is left    *)
(* out, and so is a temporary error of Accept, after which acceptConn just *)
(* tries again.                                                            *)
(***************************************************************************)
EXTENDS Integers, FiniteSets

CONSTANTS
  Conns,           \* the connections clients make
  Addrs,           \* their remote addresses
  Apps,            \* goroutines of the application that call Stop
  Loop,            \* the accept loop, when it calls Stop
  MaxConnections,  \* ServerConfig.MaxConnections
  None             \* nil

ASSUME ServerAssumption ==
  /\ Loop \notin Apps
  /\ None \notin Conns \cup Addrs \cup Apps \cup {Loop}
  /\ None \notin {"close of closed channel", "nil tcpConn"}
  /\ MaxConnections \in Nat \ {0}

VARIABLES
  loop,         \* where the accept loop is
  held,         \* the connection it has accepted and not entered yet
  notified,     \* m.closeNotify is closed
  listening,    \* m.tcpListener is open
  connections,  \* m.connections
  connLock,     \* the Stop that holds m.connLock
  stop,         \* where each call of Stop is
  left,         \* the connections its loop over m.connections has not visited
  visited,      \* the connection it found a socket in and is about to close
  conn,         \* how far each Connection has got
  addr,         \* its RemoteAddr
  live,         \* the sockets that are open at both ends
  reused,       \* history: an address came again before its former
                \* connection was taken off the map
  crashed       \* the panic that ended the program, or None

loopVars == <<loop, held>>
stopVars == <<notified, listening, stop, left, visited>>
connVars == <<conn, addr, live>>
vars == <<loopVars, stopVars, connVars, connections, connLock, reused, crashed>>

Init ==
  /\ loop = "select" /\ held = None
  /\ notified = FALSE /\ listening = TRUE
  /\ connections = [a \in Addrs |-> None] /\ connLock = None
  /\ stop = [p \in Apps \cup {Loop} |-> "idle"]
  /\ left = {} /\ visited = None
  /\ conn = [c \in Conns |-> "new"]
  /\ addr = [c \in Conns |-> None] /\ live = {}
  /\ reused = FALSE /\ crashed = None

Running == crashed = None
Listed == {connections[a] : a \in Addrs} \ {None}
-----------------------------------------------------------------------------
(* The accept loop.                                                        *)

\* select on closeNotify, or else acceptConn.
LoopSelect ==
  /\ Running
  /\ loop = "select"
  /\ loop' = IF notified THEN "ended" ELSE "accept"
  /\ UNCHANGED <<held, stopVars, connVars, connections, connLock, reused, crashed>>

\* Accept returns a connection.  No two open sockets have one address.
Accept(c, a) ==
  /\ Running
  /\ loop = "accept" /\ listening
  /\ conn[c] = "new"
  /\ \A d \in live : addr[d] # a
  /\ loop' = "enter" /\ held' = c
  /\ conn' = [conn EXCEPT ![c] = "accepted"]
  /\ addr' = [addr EXCEPT ![c] = a]
  /\ live' = live \cup {c}
  /\ UNCHANGED <<stopVars, connections, connLock, reused, crashed>>

\* Accept fails for good, at any time or because the listener is closed:
\* the loop calls Stop.
AcceptFails ==
  /\ Running
  /\ loop = "accept"
  /\ loop' = "stop"
  /\ UNCHANGED <<held, stopVars, connVars, connections, connLock, reused, crashed>>

\* The limit, checked with the lock held: acceptConn closes the socket and
\* accepts the next, without a look at closeNotify.
Refuse ==
  /\ Running
  /\ loop = "enter" /\ connLock = None
  /\ Cardinality(Listed) >= MaxConnections
  /\ loop' = "accept" /\ held' = None
  /\ conn' = [conn EXCEPT ![held] = "closed"]
  /\ live' = live \ {held}
  /\ UNCHANGED <<stopVars, addr, connections, connLock, reused, crashed>>

\* Fault: the limit is exceeded by one.
EnterOneMore ==
  /\ Running
  /\ loop = "enter" /\ connLock = None
  /\ Cardinality(Listed) <= MaxConnections
  /\ connections' = [connections EXCEPT ![addr[held]] = held]
  /\ conn' = [conn EXCEPT ![held] = "open"]
  /\ reused' = (reused \/ \E c \in Conns : /\ addr[c] = addr[held]
                                           /\ conn[c] \in {"open", "marked"})
  /\ loop' = "select" /\ held' = None
  /\ UNCHANGED <<stopVars, addr, live, connLock, crashed>>

\* NewConnection and the map entry, both under the lock.
Enter ==
  /\ Running
  /\ loop = "enter" /\ connLock = None
  /\ Cardinality(Listed) < MaxConnections
  /\ connections' = [connections EXCEPT ![addr[held]] = held]
  /\ conn' = [conn EXCEPT ![held] = "open"]
  /\ reused' = (reused \/ \E c \in Conns : /\ addr[c] = addr[held]
                                           /\ conn[c] \in {"open", "marked"})
  /\ loop' = "select" /\ held' = None
  /\ UNCHANGED <<stopVars, addr, live, connLock, crashed>>
-----------------------------------------------------------------------------
(* The connections.                                                        *)

\* The peer resets the connection: the Server has not noticed yet.
Reset(c) ==
  /\ Running
  /\ c \in live
  /\ live' = live \ {c}
  /\ UNCHANGED <<loopVars, stopVars, conn, addr, connections, connLock, reused,
                 crashed>>

\* Connection.Close wins the closedMark: a failed read or write, a packet
\* against the protocol.
Fail(c) ==
  /\ Running
  /\ conn[c] = "open"
  /\ conn' = [conn EXCEPT ![c] = "marked"]
  /\ UNCHANGED <<loopVars, stopVars, addr, live, connections, connLock, reused,
                 crashed>>

\* Fault: without the closedMark a second Close removes the address again.
RemoveConnAgain(c) ==
  /\ Running
  /\ conn[c] \in {"marked", "closed"} /\ connLock = None
  /\ connections' = [connections EXCEPT ![addr[c]] = None]
  /\ conn' = [conn EXCEPT ![c] = "removed"]
  /\ UNCHANGED <<loopVars, stopVars, addr, live, connLock, reused, crashed>>

\* removeConn deletes whatever has the address.
RemoveConn(c) ==
  /\ Running
  /\ conn[c] = "marked" /\ connLock = None
  /\ connections' = [connections EXCEPT ![addr[c]] = None]
  /\ conn' = [conn EXCEPT ![c] = "removed"]
  /\ UNCHANGED <<loopVars, stopVars, addr, live, connLock, reused, crashed>>

\* Fault: the socket is forgotten as soon as the connection is marked.
CloseSocketEarly(c) ==
  /\ Running
  /\ conn[c] \in {"open", "removed"}
  /\ conn' = [conn EXCEPT ![c] = "closed"]
  /\ live' = live \ {c}
  /\ UNCHANGED <<loopVars, stopVars, addr, connections, connLock, reused, crashed>>

\* The deferred end of Connection.Close: tcpConn.Close and tcpConn = nil.
CloseSocket(c) ==
  /\ Running
  /\ conn[c] = "removed"
  /\ conn' = [conn EXCEPT ![c] = "closed"]
  /\ live' = live \ {c}
  /\ UNCHANGED <<loopVars, stopVars, addr, connections, connLock, reused, crashed>>
-----------------------------------------------------------------------------
(* Stop.                                                                   *)

\* close(m.closeNotify), which panics when it is closed already.
StopNotify(p) ==
  /\ Running
  /\ stop[p] = "idle" /\ (p = Loop => loop = "stop")
  /\ IF notified THEN /\ crashed' = "close of closed channel"
                      /\ UNCHANGED <<notified, stop>>
                 ELSE /\ notified' = TRUE
                      /\ stop' = [stop EXCEPT ![p] = "listener"]
                      /\ UNCHANGED crashed
  /\ UNCHANGED <<loopVars, listening, left, visited, connVars, connections,
                 connLock, reused>>

StopListener(p) ==
  /\ Running
  /\ stop[p] = "listener"
  /\ listening' = FALSE
  /\ stop' = [stop EXCEPT ![p] = "lock"]
  /\ UNCHANGED <<loopVars, notified, left, visited, connVars, connections,
                 connLock, reused, crashed>>

StopLock(p) ==
  /\ Running
  /\ stop[p] = "lock" /\ connLock = None
  /\ connLock' = p
  /\ left' = Listed
  /\ stop' = [stop EXCEPT ![p] = "range"]
  /\ UNCHANGED <<loopVars, notified, listening, visited, connVars, connections,
                 reused, crashed>>

\* Fault: the loop ends with its first connection.
StopLookOnce(p) ==
  /\ Running
  /\ stop[p] = "range" /\ visited = None
  /\ \E c \in left : visited' = IF conn[c] = "closed" THEN None ELSE c
  /\ left' = {}
  /\ UNCHANGED <<loopVars, notified, listening, stop, connVars, connections,
                 connLock, reused, crashed>>

\* The next connection of the map, in any order: tcpConn != nil ...
StopLook(p) ==
  /\ Running
  /\ stop[p] = "range" /\ visited = None
  /\ \E c \in left : /\ left' = left \ {c}
                     /\ visited' = IF conn[c] = "closed" THEN None ELSE c
  /\ UNCHANGED <<loopVars, notified, listening, stop, connVars, connections,
                 connLock, reused, crashed>>

\* ... and tcpConn.Close, which reads tcpConn again.
StopShut(p) ==
  /\ Running
  /\ stop[p] = "range" /\ visited # None
  /\ IF conn[visited] = "closed" THEN crashed' = "nil tcpConn" /\ UNCHANGED live
                                 ELSE live' = live \ {visited} /\ UNCHANGED crashed
  /\ visited' = None
  /\ UNCHANGED <<loopVars, notified, listening, stop, left, conn, addr,
                 connections, connLock, reused>>

\* Fault: the lock is kept.
StopDoneLocked(p) ==
  /\ Running
  /\ stop[p] = "range" /\ left = {} /\ visited = None
  /\ connections' = [a \in Addrs |-> None]
  /\ stop' = [stop EXCEPT ![p] = "done"]
  /\ loop' = IF p = Loop THEN "ended" ELSE loop
  /\ UNCHANGED <<held, notified, listening, left, visited, connVars, connLock,
                 reused, crashed>>

\* A new map; the accept loop ends after its own Stop.
StopDone(p) ==
  /\ Running
  /\ stop[p] = "range" /\ left = {} /\ visited = None
  /\ connections' = [a \in Addrs |-> None]
  /\ connLock' = None
  /\ stop' = [stop EXCEPT ![p] = "done"]
  /\ loop' = IF p = Loop THEN "ended" ELSE loop
  /\ UNCHANGED <<held, notified, listening, left, visited, connVars, reused,
                 crashed>>

Stop(p) == StopListener(p) \/ StopLock(p) \/ StopLook(p) \/ StopShut(p)
             \/ StopDone(p)
-----------------------------------------------------------------------------
Next ==
  \/ LoopSelect \/ AcceptFails \/ Refuse \/ Enter
  \/ \E c \in Conns : \/ \E a \in Addrs : Accept(c, a)
                      \/ Reset(c) \/ Fail(c) \/ RemoveConn(c) \/ CloseSocket(c)
  \/ \E p \in Apps \cup {Loop} : StopNotify(p) \/ Stop(p)

Spec == Init /\ [][Next]_vars

\* The accept loop and every Stop go on when they can, and Accept fails once
\* the listener is closed.  Nobody has to connect or call Stop, and no
\* connection has to fail or to get through its Close.
LoopGoesOn ==
  \/ notified /\ LoopSelect
  \/ ~listening /\ AcceptFails
  \/ Refuse \/ Enter \/ StopNotify(Loop) \/ Stop(Loop)
FairSpec == Spec /\ WF_vars(LoopGoesOn) /\ \A p \in Apps : WF_vars(Stop(p))
-----------------------------------------------------------------------------
(* Properties.                                                             *)

\* Every variable has its type, and the map never exceeds MaxConnections.
TypeOK ==
  /\ loop \in {"select", "accept", "enter", "stop", "ended"}
  /\ held \in Conns \cup {None} /\ (held # None <=> loop = "enter")
  /\ notified \in BOOLEAN /\ listening \in BOOLEAN /\ reused \in BOOLEAN
  /\ connections \in [Addrs -> Conns \cup {None}]
  /\ Cardinality(Listed) <= MaxConnections
  /\ connLock \in Apps \cup {Loop, None}
  /\ stop \in [Apps \cup {Loop} -> {"idle", "listener", "lock", "range", "done"}]
  /\ left \subseteq Conns /\ visited \in Conns \cup {None}
  /\ conn \in [Conns -> {"new", "accepted", "open", "marked", "removed", "closed"}]
  /\ addr \in [Conns -> Addrs \cup {None}] /\ live \subseteq Conns
  /\ crashed \in {None, "close of closed channel", "nil tcpConn"}

\* The map holds only connections whose Connection.Close has not come to
\* removeConn, also when an address is used again: therefore Stop, between
\* its look at tcpConn and its use, never finds a socket that
\* Connection.Close has set to nil.
StopFindsSockets ==
  /\ \A c \in Listed \cup left : conn[c] \in {"open", "marked"}
  /\ crashed # "nil tcpConn"

\* Until Stop, and unless an address came again too early, the map has every
\* open connection, so that MaxConnections limits them all.
OpenIsListed ==
  (~notified /\ ~reused) =>
    /\ \A c \in Conns : conn[c] = "open" => connections[addr[c]] = c
    /\ Cardinality({c \in Conns : conn[c] = "open"}) <= MaxConnections

\* After Stop at most one connection is left that nobody will close: the one
\* the accept loop had in its hand, which it enters in the new map.
AtMostOneSurvives ==
  ((\E p \in Apps \cup {Loop} : stop[p] = "done") /\ ~reused) =>
    Cardinality({c \in live : conn[c] \in {"accepted", "open"}}) <= 1

\* Once Stop has closed closeNotify the accept loop ends, if only by the
\* panic, whatever it waits for: a connection, the lock, or the select.
LoopEnds == notified ~> (loop = "ended" \/ ~Running)
=============================================================================
