CONSTANTS
  Clients = {c1}
  c1 = c1
  BufferSize = 1
  MaxSequence = 3
  WireSize = 1
  MaxFaults = 1
  MaxDrops = 1
  MaxRestarts = 1
SPECIFICATION FairSpec
PROPERTIES
  EndIsDelivered
CHECK_DEADLOCK FALSE
