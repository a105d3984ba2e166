SPECIFICATION FairSpec
CONSTANTS
  c1 = c1
  c2 = c2
  c3 = c3
  a1 = a1
  a2 = a2
  a3 = a3
  p1 = p1
  Loop = Loop
  None = None
  Conns = {c1, c2, c3}
  Addrs = {a1, a2, a3}
  Apps = {p1}
  MaxConnections = 2
INVARIANTS TypeOK StopFindsSockets OpenIsListed AtMostOneSurvives
PROPERTIES LoopEnds
CHECK_DEADLOCK FALSE
