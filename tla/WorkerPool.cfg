SPECIFICATION Spec
CONSTANTS
  Lanes = 2
  Cooldown = 1
  Pace = 1
  Ttl = 1
  BootGrace = 2
  Memory = 3
  Decay = 4
  MaxAttempts = 2
  MaxUnproductive = 2
  MaxQueued = 1
  MaxEvents = 1
  MaxFaults = 1
INVARIANTS NoDoubleBoot FutileIsBounded BudgetHolds StopIsFinal
PROPERTIES QueuedWorkMovesOn
