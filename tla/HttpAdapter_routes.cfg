SPECIFICATION FairAdapterSpec
CONSTANTS
  r1 = r1
  r2 = r2
  e1 = e1
  e2 = e2
  b1 = b1
  b2 = b2
  h1 = h1
  h2 = h2
  Null = Null
  Requests = {r1, r2}
  HostOf <- MCHostOf
  Hosts = {h1, h2}
  Aliases = {b1, b2}
  Exps = {e1, e2}
  Matches <- MCMatches
  Decides <- MCDecides
  Routes <- MCRoutes
  Configured <- MCConfigured
  MaxPushes = 1
PROPERTIES RemovedExactly ComesToRest
CHECK_DEADLOCK FALSE
