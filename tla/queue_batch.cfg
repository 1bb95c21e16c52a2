\* Two events of one monitor that may share a batch, one of them perhaps a row
\* held since an earlier release, and a process that may crash at any moment.
SPECIFICATION FairSpec
CONSTANTS
  Jobs = {j1, j2}
  Workers = {w1}
  Monitors = {m1}
  MonitorsOf <- OneMonitor
  FlowJobs = {}
  LegacyHeld = {j2}
  Aggregation = "all"
  MaxItems = 2
  RecoveryBatch = 1
  AttemptLimit = 2
  GateLimit = 1
  MaxSteps = 1
  MaxLeases = 2
  NoJob = NoJob
INVARIANTS
  BatchFrozen
  ChildAwaitsOpenParent
  GateChargedOnce
  SentChildWasInBatch
PROPERTIES
  SendingResolves
