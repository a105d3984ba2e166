SPECIFICATION TrafficSpec
CONSTANTS
  Callers = {k1, k2, k3}
  Sys = Sys
  MaxChannelsPerConn = 3
  MaxRequests = 1
  MaxUint32 = 2
  MaxPacketSize = 2
  PacketQueueLen = 2
  WireCap = 1
  Sizes = {1, 2, 3, 4, 5}
  MaxMessages = 3
  MaxPackets = 5
  Adds = {x1, x2}
  LastSlot = 2
  Minute = 2
  MaxClock = 4
SYMMETRY AddsSymmetry
INVARIANTS TypeOK IdsPartitioned ServerKnowsIds TidyUseIsSafe
INVARIANTS MergedMessages  PartsFindRequest 
INVARIANTS  JsonAgrees CountedOnce
CHECK_DEADLOCK FALSE
