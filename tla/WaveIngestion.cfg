SPECIFICATION Spec
CONSTANTS
  r1 = r1
  r2 = r2
  h1 = h1
  h2 = h2
  NoFile = NoFile
  Desk = Desk
  Run = {r1, r2}
  s1 = s1
  Scanner = {s1}
  Handler = {h1, h2}
  Waves = 2
  MayPaste = TRUE
  MaxAsked = 3
  MaxScanned = 1
  MaxResidue = 1
  MaxCuts = 1
INVARIANTS TypeOK VisibleIsAccepted CompleteHasHandoff AcceptedKeepsHistory UnannouncedIsMarked ClosedIsAccepted
PROPERTIES AcceptedIsKept
SYMMETRY Alike
