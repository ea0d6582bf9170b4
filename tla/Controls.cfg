SPECIFICATION Spec
CONSTANTS
  Nodes <- SoloNodes
  Entry = "a"
  Plan <- SoloPlan
  Workers = {w1, w2}
  NoWorker = none
  Operators = {o1}
  WorkerOps = {"complete", "fail", "heartbeat", "budget"}
  Controls = {"pause", "resume", "cancel", "retry", "skip"}
  MaxGen = 2
  MaxFence = 3
  MaxLog = 2
  MaxIter = 0
  Good = w1
SYMMETRY Symmetry
INVARIANTS OneRunning CommitIsNewest QueueIsClaimable
CHECK_DEADLOCK FALSE
PROPERTIES NodesAreLeasedWork
