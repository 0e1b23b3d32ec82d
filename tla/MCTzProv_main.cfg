SPECIFICATION Spec
CONSTANTS
  am = am
  pr = pr
  c1 = c1
  s1 = s1
  s2 = s2
  h1 = h1
  h2 = h2
  nC = nC
  plA = plA
  plB = plB
  plC = plC
  plD = plD
  None = None
  Kinds = {am}
  Periods = {30}
  Carriers = {c1}
  Keys = {h1, h2}
  Hist = {h1}
  Plates = {plA, plD}
  PlateOf <- PlateBook
  Requests <- Wishes
  Slots = {s1, s2}
  Chunk = 1
  MaxScreens = 2
  MaxFaults = 1
INVARIANTS TypeOK OneShot RunsApart KeysWereShown LockHeld ReportComplete
SYMMETRY SlotSymmetry
