CONSTANTS
  Conns = {c1, c2, c3}
  NoConn = NoConn
  Callers = {k1, k2}
  Evals = {e1}
  MaxConnections = 3
  MaxChannelsPerConn = 2
  ServerKeepConns = 3
SYMMETRY Symmetry
SPECIFICATION Spec
CHECK_DEADLOCK FALSE
INVARIANT ClosesAll
