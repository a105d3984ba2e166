SPECIFICATION BalancingSpec
CONSTANTS
  b1 = b1
  b2 = b2
  b3 = b3
  Clients <- TwoBackends
  Callers = {k1, k2}
  NoBackend = NoBackend
  PauseErrors = 1
  MaxFails = 1
  a1 = a1
  a2 = a2
  s1 = s1
  s2 = s2
  Nil = Nil
  Servers <- MCServers
  Added = {x1, x2, x3, x4}
  Names = {a1, a2, s1, s2}
INVARIANTS PendingExact MapMatchesList
PROPERTIES DoRequestGoesRound RemovesOnly
CHECK_DEADLOCK FALSE
