SPECIFICATION Spec
CONSTANTS
  desktop = desktop
  bridge = bridge
  m1 = m1
  s1 = s1
  e1 = e1
  NoProcess = NoProcess
  NoSource = NoSource
  Process = {desktop, bridge}
  BridgeProcess = bridge
  Caller = {m1, s1}
  Home <- Homes
  Source = {e1}
  Key <- Keys
  MaxIntents = 2
  MaxDispatches = 2
  MaxFence = 2
  MaxEvents = 1
  MaxFaults = 1
INVARIANTS TypeOK WrittenByLatest ClosedNotSubmitted FailedHidesNoAudit NobodyIsLockedOut SourceHasOneIntent AuditIsOnRecord
CHECK_DEADLOCK FALSE
