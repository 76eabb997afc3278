SPECIFICATION Spec
CONSTANTS
  r1 = r1
  r2 = r2
  h1 = h1
  h2 = h2
  NoFile = NoFile
  Desk = Desk
  Run = {r1, r2}
  s1 = s1
  Scanner = {}
  Handler = {h1}
  Waves = 1
  MayPaste = FALSE
  MaxAsked = 3
  MaxScanned = 0
  MaxResidue = 0
  MaxCuts = 0
INVARIANT HandoffOfIndex
