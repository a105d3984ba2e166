SPECIFICATION Spec
CONSTANTS
  r1 = r1
  r2 = r2
  n1 = n1
  n2 = n2
  None = None
  Requests = {r1, r2}
  Streams = {}
  Chans = {n1, n2}
  WriteQueueLen = 1
  PacketQueueLen = 1
  NetCap = 1
SYMMETRY ChanSymmetry
INVARIANT OwnReplyUnlessDropped
CHECK_DEADLOCK FALSE
