SPECIFICATION LiveSpec
CONSTANTS
  Nodes <- ChainNodes
  Entry = "a"
  Plan <- ChainPlan
  Workers = {w1, w2}
  NoWorker = none
  Operators = {}
  WorkerOps = {"complete", "fail"}
  Controls = {}
  MaxGen = 1
  MaxFence = 2
  MaxLog = 2
  MaxIter = 0
  Good = w1
PROPERTIES RunSettles
CHECK_DEADLOCK FALSE
