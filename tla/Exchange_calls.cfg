SPECIFICATION FairSpec
CONSTANTS
  r1 = r1
  r2 = r2
  r3 = r3
  n1 = n1
  n2 = n2
  None = None
  Requests = {r1, r2, r3}
  Streams = {r3}
  Chans = {n1, n2}
  WriteQueueLen = 1
  PacketQueueLen = 1
  NetCap = 1
INVARIANTS TypeOK PairedUnlessDropped ResponseHasRequest CallbackPaired
PROPERTIES CallsReturn RequestsAnswered KeepsPromise
CHECK_DEADLOCK FALSE
