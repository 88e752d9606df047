CONSTANTS
  Null = Null
  Roles = {"tech", "ux", "biz"}
  Setups <- MCOneOrTwoVersions
  PlanOffsets = {1}
  Reads <- MCSharedWords
  MaxChunks = 1
  TraceLimit = 0
  Loads = 1
  Lag = 0
SPECIFICATION Spec
CHECK_DEADLOCK FALSE
INVARIANTS GateIsHonest ViewsAgreeOnFindings ProjectionInv
