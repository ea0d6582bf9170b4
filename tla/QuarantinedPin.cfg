SPECIFICATION MemoryVersionsSpec
CONSTANTS
  Editors = {e1}
  Candidates = {c1}
  Reviewers = {p1}
  Bodies = {t1, t2}
  MaxVersions = 3
  MaxPins = 1
INVARIANTS QuarantineReachesPins
CHECK_DEADLOCK FALSE
