SPECIFICATION Spec
CONSTANTS
  Nodes <- ForkNodes
  Entry = "a"
  Plan <- ForkPlan
  Workers = {w1, w2}
  NoWorker = none
  Operators = {}
  WorkerOps = {"complete"}
  Controls = {}
  MaxGen = 1
  MaxFence = 2
  MaxLog = 3
  MaxIter = 0
  Good = w1
SYMMETRY Symmetry
INVARIANTS TerminalRunIsIdle
CHECK_DEADLOCK FALSE
