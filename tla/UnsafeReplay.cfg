SPECIFICATION Spec
CONSTANTS
  Nodes <- SoloNodes
  Entry = "a"
  Plan <- UnsafePlan
  Workers = {w1, w2}
  NoWorker = none
  Operators = {}
  WorkerOps = {"complete"}
  Controls = {}
  MaxGen = 1
  MaxFence = 2
  MaxLog = 2
  MaxIter = 0
  Good = w1
SYMMETRY Symmetry
INVARIANTS NonIdempotentNotReplayed
CHECK_DEADLOCK FALSE
