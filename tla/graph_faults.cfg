\* One event and two workers, of which one may fail, crash or lose its lease.
SPECIFICATION FairSpec
CHECK_DEADLOCK FALSE
CONSTANTS
  Runs = {"r1"}
  Keys = {"k1", "k2"}
  Nodes <- JoinNodes
  Edges <- WaitEdges
  StartNode = "start"
  Type <- ByName
  KeyOf <- ByKey
  MergeMode = "any"
  BatchMode = "all"
  MaxItems = 2
  GateCount = 1
  Overflow = "defer"
  Dest <- SameDest
  Perishable = {}
  Revocable = {"r1"}
  Workers = 2
  MaxFaults = 1
  MaxWindow = 1
INVARIANTS
  GateHonest
  BatchBooks
PROPERTIES
  FlowSettles
