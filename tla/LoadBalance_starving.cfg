CONSTANTS
  b1 = b1
  b2 = b2
  b3 = b3
  Clients <- TwoBackends
  Callers = {k1}
  NoBackend = NoBackend
  PauseErrors = 1
  MaxFails = 2
SPECIFICATION FairSpec
CHECK_DEADLOCK FALSE
PROPERTY WorkGoesRound
