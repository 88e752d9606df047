CONSTANTS
  Null = Null
  Roles = {"tech"}
  TraceLimit = 0
  Runs <- MCRuns
  Reads <- MCOwnWords
  Controls = {"pause", "resume", "cancel"}
  MAX_NATIVE_RETRIES = 2
  MaxText = 1
  Clicks = 2
  Faults = 1
SPECIFICATION LiveSpec
CHECK_DEADLOCK FALSE
PROPERTIES EndIsShown
