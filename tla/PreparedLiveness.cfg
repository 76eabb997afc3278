SPECIFICATION FairSpec
CONSTANTS
  j1 = j1
  j2 = j2
  a1 = a1
  a2 = a2
  AutoAccount = AutoAccount
  NoAccount = NoAccount
  Job = {j1}
  Account = {a1}
  FirstAccount <- SameAccount
  ResetJobs = {j1}
  Recurring = {j1}
  StrictJobs = {}
  StaleClock = FALSE
  MaxEvents = 2
  MaxExecs = 2
  MaxGen = 2
  MaxEdits = 1
  MaxFaults = 1
PROPERTIES NothingHangs
