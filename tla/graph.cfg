\* Two events: a branch that is batched and limited and one that waits are joined.
SPECIFICATION Spec
CHECK_DEADLOCK FALSE
CONSTANTS
  Runs = {"r1", "r2"}
  Keys = {"k1", "k2"}
  Nodes <- JoinNodes
  Edges <- JoinEdges
  StartNode = "start"
  Type <- ByName
  KeyOf <- ByKey
  MergeMode = "any"
  BatchMode = "all"
  MaxItems = 2
  GateCount = 1
  Overflow = "defer"
  Dest <- SameDest
  Perishable = {"r2"}
  Revocable = {}
  Workers = 1
  MaxFaults = 0
  MaxWindow = 1
INVARIANTS
  TypeOK
  AbsentMeansAbsent
  MergeSawEverything
  OneNotification
  SyncNotForgotten
