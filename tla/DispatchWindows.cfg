SPECIFICATION Spec
CONSTANTS
  Worker = {w1, w2}
  NoWorker = NoWorker
  Project = {p1}
  NoProject = NoProject
  Token = {t1, t2}
  NoToken = NoToken
  WireStates <- RequeueStates
  MaxJobs = 1
  MaxClaims = 2
  MaxRetries = 1
  QueueBound = 1
  LeaseTicks = 2
  WorkerTTL = 0
  OwnerGrace = 1
  AbandonGrace = 1
  RecoveryGrace = 1
  FaultyDisk = FALSE
SYMMETRY Interchangeable
INVARIANTS LatestLeaseOnly CancelledWasNotSent
PROPERTIES KeepsContract NoSecondStart
