CONSTANTS
  r1 = r1
  Roles = {r1}
  MaxIterations = 2
  Scores = {60, 90}
  Threshold = 85
  Overrides = {o1}
  o1 = o1
  ProviderFaults = {"retryable"}
SPECIFICATION FairSpec
PROPERTIES
  CancelStopsTask
  RunSettles
