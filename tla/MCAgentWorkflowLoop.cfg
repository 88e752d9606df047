CONSTANTS
  r1 = r1
  Roles = {r1}
  MaxIterations = 3
  Scores = {60, 70, 90}
  Threshold = 85
  Overrides = {o1}
  o1 = o1
  ProviderFaults = {"retryable", "crash"}
SPECIFICATION Spec
INVARIANTS
  BestIsEarliestMaximum
PROPERTIES
  StatusMovesAreLegal
  NoLateResults
  LoopSpec
