\* Two ways into a batch: the first closes the batch's edge while the second is
\* still to come.
SPECIFICATION Spec
CHECK_DEADLOCK FALSE
CONSTANTS
  Runs = {"r1"}
  Keys = {"k1", "k2"}
  Nodes <- TwiceNodes
  Edges <- TwiceEdges
  StartNode = "start"
  Type <- ByName
  KeyOf <- ByKey
  MergeMode = "any"
  BatchMode = "all"
  MaxItems = 2
  GateCount = 1
  Overflow = "defer"
  Dest <- SameDest
  Perishable = {}
  Revocable = {}
  Workers = 1
  MaxFaults = 0
  MaxWindow = 2
INVARIANTS
  AbsentMeansAbsent
