SPECIFICATION Spec
CONSTANTS
  Nodes <- LoopNodes
  Entry = "a"
  Plan <- LoopPlan
  Workers = {w1}
  NoWorker = none
  Operators = {o1}
  WorkerOps = {"complete"}
  Controls = {"force"}
  MaxGen = 2
  MaxFence = 1
  MaxLog = 3
  MaxIter = 2
  Good = w1
SYMMETRY Symmetry
INVARIANTS WorkIsQueuedOnce
CHECK_DEADLOCK FALSE
