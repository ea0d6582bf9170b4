SPECIFICATION Spec
CONSTANTS
  Nodes <- QuorumNodes
  Entry = "a"
  Plan <- QuorumPlan
  Workers = {w1}
  NoWorker = none
  Operators = {}
  WorkerOps = {"complete"}
  Controls = {"event"}
  MaxGen = 2
  MaxFence = 2
  MaxLog = 7
  MaxIter = 0
  Good = w1
SYMMETRY Symmetry
INVARIANTS JoinWaitsForBranches JoinFiresOnce RunHasReason
CHECK_DEADLOCK FALSE
