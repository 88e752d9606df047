CONSTANTS
  r1 = r1
  r2 = r2
  Roles = {r1, r2}
  MaxIterations = 2
  Scores = {60, 90}
  Threshold = 85
  Overrides = {o1, o2}
  o1 = o1
  o2 = o2
  ProviderFaults = {"retryable", "fatal", "crash"}
SPECIFICATION Spec
SYMMETRY WorkflowSymmetry
INVARIANTS
  ReviewsAreCurrent
  DraftIsOneText
  PlanFitsIteration
  PausedOnlyAtSafePoint
  NoZombieRun
  OverrideReachesPlan
  ActiveNodeRuns
  WorkflowInv
