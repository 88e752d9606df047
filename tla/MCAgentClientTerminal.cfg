CONSTANTS
  Null = Null
  Roles = {"tech"}
  TraceLimit = 0
  Runs <- MCRuns
  Reads <- MCOwnWords
  Controls = {"pause"}
  MAX_NATIVE_RETRIES = 2
  MaxText = 0
  Clicks = 1
  Faults = 0
SPECIFICATION Spec
CHECK_DEADLOCK FALSE
PROPERTIES TerminalIsLocked
