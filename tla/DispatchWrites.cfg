SPECIFICATION Spec
CONSTANTS
  Worker = {w1}
  NoWorker = NoWorker
  Project = {p1}
  NoProject = NoProject
  Token = {t1}
  NoToken = NoToken
  WireStates <- AllStates
  MaxJobs = 1
  MaxClaims = 2
  MaxRetries = 0
  QueueBound = 1
  LeaseTicks = 2
  WorkerTTL = 0
  OwnerGrace = 1
  AbandonGrace = 1
  RecoveryGrace = 1
  FaultyDisk = TRUE
SYMMETRY Interchangeable
INVARIANTS TypeOK StartFence MemoryMatchesDisk CompletionIsProven
PROPERTIES TerminalIsFinal
