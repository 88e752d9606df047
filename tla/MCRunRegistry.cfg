CONSTANTS
  MaxConcurrent = 2
  Limits <- MCLimits
  MaxRuns = 3
  MaxFaults = 1
  MaxRestarts = 2
SPECIFICATION LiveSpec
INVARIANTS CapacityIsExact NothingIsLeftBehind RegistryInv
PROPERTIES UnfinishedIsKept ExpiredGoes
CHECK_DEADLOCK FALSE
