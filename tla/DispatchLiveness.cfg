SPECIFICATION FairSpec
CONSTANTS
  Worker = {w1, w2}
  NoWorker = NoWorker
  Project = {p1}
  NoProject = NoProject
  Token = {t1}
  NoToken = NoToken
  WireStates <- WidgetStates
  MaxJobs = 1
  MaxClaims = 1
  MaxRetries = 0
  QueueBound = 1
  LeaseTicks = 2
  WorkerTTL = 0
  OwnerGrace = 1
  AbandonGrace = 1
  RecoveryGrace = 1
  FaultyDisk = FALSE
PROPERTIES StrandedWorkMovesOn FinishedRunsClose
