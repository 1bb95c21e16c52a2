\* Two processes and a graph job of two monitors.
SPECIFICATION Spec
CONSTANTS
  Jobs = {j1}
  Workers = {w1, w2}
  Monitors = {m1, m2}
  MonitorsOf <- FlowOverTwo
  FlowJobs = {j1}
  LegacyHeld = {}
  Aggregation = "none"
  MaxItems = 2
  RecoveryBatch = 1
  AttemptLimit = 1
  GateLimit = 1
  MaxSteps = 2
  MaxLeases = 3
  NoJob = NoJob
SYMMETRY Symmetry
INVARIANTS
  TypeOK
  AtMostOnce
  UnsentMeansUndelivered
  SentMeansDelivered
PROPERTIES
  DeliveryOutcomeStands
  PromiseKept
  SendBeginsCurrent
