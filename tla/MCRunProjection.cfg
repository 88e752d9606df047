CONSTANTS
  Null = Null
  Roles = {"tech"}
  Setups <- MCSetups
  PlanOffsets = {0}
  Reads <- MCSharedWords
  MaxChunks = 2
  TraceLimit = 0
  Loads = 1
  Lag = 0
SPECIFICATION Spec
CHECK_DEADLOCK FALSE
INVARIANTS ReloadAgrees DraftIsOneAttempt FailureIsHonest
PROPERTIES PinIsRespected
