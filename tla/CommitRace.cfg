SPECIFICATION Spec
CONSTANTS
  Nodes <- SoloNodes
  Entry = "a"
  Plan <- SoloPlan
  Workers = {w1, w2}
  NoWorker = none
  Operators = {o1}
  WorkerOps = {"complete", "fail", "reject"}
  Controls = {"retry", "reassign", "cancel"}
  MaxGen = 1
  MaxFence = 3
  MaxLog = 2
  MaxIter = 0
  Good = w1
SYMMETRY Symmetry
INVARIANTS TypeOK CommitOnce CommittedIsNotRequeued
PROPERTIES OutcomeIsFinal OutcomeOfRunIsFinal
CHECK_DEADLOCK FALSE
