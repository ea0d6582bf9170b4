SPECIFICATION ServicesSpec
CONSTANTS
  Events = {e1}
  Triggered = {e1}
  Callers = {c1, c2}
  MaxTries = 2
  MaxWaits = 1
  Messages = {m1}
  Dispatchers = {d1, d2}
  RowMax = 2
  CallerMax = 2
  Tasks = {t1, t2, t3}
  Claimants = {c1, c2}
  MaxQueue = 4
  MaxConcurrency = 1
  MaxCalls = 2
  MaxTokens = 2
  Schedulers = {s1, s2}
  Nobody = nobody
  MaxToken = 3
  Jobs = {j1}
  JobWorkers = {w1, w2}
  JobMaxTries = 2
  EmbJobs = {1, 2}
  EmbWorkers = {w1, w2}
  NoWorker = w0
  MaxContent = 1
  MaxTrouble = 1
INVARIANTS ServicesTypeOK EffectOnce AdmissionHolds TokenNamesOneScheduler
PROPERTIES EventsFlow QueueDrains QueuesAreLeasedWork QueuesSettle
CHECK_DEADLOCK FALSE
