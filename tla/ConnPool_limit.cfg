CONSTANTS
  Conns = {c1, c2, c3}
  NoConn = NoConn
  Callers = {k1, k2}
  Evals = {e1, e2}
  MaxConnections = 2
  MaxChannelsPerConn = 2
  ServerKeepConns = 2
SYMMETRY Symmetry
SPECIFICATION Spec
CHECK_DEADLOCK FALSE
INVARIANT WithinMaximum
