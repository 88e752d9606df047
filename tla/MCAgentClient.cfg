CONSTANTS
  Null = Null
  Roles = {"tech"}
  TraceLimit = 0
  Runs <- MCRuns
  Reads <- MCOwnWords
  Controls = {"pause", "resume", "cancel"}
  MAX_NATIVE_RETRIES = 2
  MaxText = 2
  Clicks = 2
  Faults = 2
SPECIFICATION Spec
CHECK_DEADLOCK FALSE
INVARIANTS ClientInv PageIsAPrefix ConnectionIsTrue NeverStranded
PROPERTIES NoRewind
