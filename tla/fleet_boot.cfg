SPECIFICATION Spec
CHECK_DEADLOCK FALSE
CONSTANTS
  Ttl = 3
  StopMargin = 1
  Drain = 3
  Tolerance = 1
  StopBudget = 0
  MarkerTtl = 2
  Late = 1
  Skews = {0}
  Starts <- LateOci
  UnfencedBoot = TRUE
  LostQuarantine = FALSE
  MaxTime = 12
  MaxSteps = 1
  MaxEpoch = 3
  MaxInst = 1
  MaxLeases = 2
  MaxRequests = 1
INVARIANTS
  MarkerMeansFenced
