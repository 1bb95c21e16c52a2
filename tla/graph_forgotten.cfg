\* A member that expires on its way into a batch: the batch closes its edge and
\* synchronizes the others only.
SPECIFICATION Spec
CHECK_DEADLOCK FALSE
CONSTANTS
  Runs = {"r1", "r2"}
  Keys = {"k1", "k2"}
  Nodes <- NestedNodes
  Edges <- NestedEdges
  StartNode = "start"
  Type <- ByName
  KeyOf <- ByKey
  MergeMode = "any"
  BatchMode = "all"
  MaxItems = 2
  GateCount = 1
  Overflow = "defer"
  Dest <- SameDest
  Perishable = {"r1"}
  Revocable = {}
  Workers = 1
  MaxFaults = 0
  MaxWindow = 2
INVARIANTS
  MergeNotLeftOpen
