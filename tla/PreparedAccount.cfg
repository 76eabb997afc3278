SPECIFICATION Spec
CONSTANTS
  j1 = j1
  j2 = j2
  a1 = a1
  a2 = a2
  AutoAccount = AutoAccount
  NoAccount = NoAccount
  Job = {j1}
  Account = {a1, a2}
  FirstAccount <- SameAccount
  ResetJobs = {}
  Recurring = {}
  StrictJobs = {}
  StaleClock = FALSE
  MaxEvents = 1
  MaxExecs = 2
  MaxGen = 2
  MaxEdits = 1
  MaxFaults = 0
INVARIANTS LaunchedAsClaimed
