SPECIFICATION Spec
CHECK_DEADLOCK FALSE
CONSTANTS
  Ttl = 3
  StopMargin = 1
  Drain = 2
  Tolerance = 1
  StopBudget = 0
  MarkerTtl = 2
  Late = 0
  Skews <- SmallAndLong
  Starts <- EitherStart
  UnfencedBoot = FALSE
  LostQuarantine = FALSE
  MaxTime = 5
  MaxSteps = 1
  MaxEpoch = 3
  MaxInst = 1
  MaxLeases = 2
  MaxRequests = 1
INVARIANTS
  TypeOK
  OneWorkload
  DrainedMeansStopped
  MarkerMeansFenced
  OnlyActiveRuns
