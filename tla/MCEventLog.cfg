CONSTANTS
  Clients = {c1, c2}
  c1 = c1
  c2 = c2
  BufferSize = 2
  MaxSequence = 3
  WireSize = 2
  MaxFaults = 1
  MaxDrops = 1
  MaxRestarts = 1
SPECIFICATION Spec
SYMMETRY ClientSymmetry
INVARIANTS
  DeliveredInOrder
  NothingSkipped
  DatabaseIsCoherent
  NobodySleepsOnNews
  LogInv
CHECK_DEADLOCK FALSE
