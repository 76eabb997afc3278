SPECIFICATION Spec
CONSTANTS
  Worker = {w1}
  NoWorker = NoWorker
  Project = {p1}
  NoProject = NoProject
  Token = {t1}
  NoToken = NoToken
  WireStates <- FenceStates
  MaxJobs = 2
  MaxClaims = 1
  MaxRetries = 0
  QueueBound = 2
  LeaseTicks = 1
  WorkerTTL = 0
  OwnerGrace = 0
  AbandonGrace = 0
  RecoveryGrace = 0
  FaultyDisk = TRUE
SYMMETRY Interchangeable
INVARIANTS OneOpenPerProject
PROPERTIES LateClosureIsFresh
