SPECIFICATION Spec
CONSTANTS
  Nodes <- ChainNodes
  Entry = "a"
  Plan <- ChainPlan
  Workers = {w1, w2}
  NoWorker = none
  Operators = {}
  WorkerOps = {"complete", "checkpoint", "revoke"}
  Controls = {"cancel"}
  MaxGen = 1
  MaxFence = 2
  MaxLog = 3
  MaxIter = 0
  Good = w1
SYMMETRY Symmetry
INVARIANTS ReplayIsExact TablesAgreeOnAll CancelFences
CHECK_DEADLOCK FALSE
