SPECIFICATION FairSpec
CONSTANTS
  k1 = k1
  k2 = k2
  None = None
  Chans = {k1, k2}
  Before = {k1}
  QueueLen = 1
PROPERTIES ClosesDown ReaderGetsOn
CHECK_DEADLOCK FALSE
