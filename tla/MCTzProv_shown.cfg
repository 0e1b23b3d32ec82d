SPECIFICATION Spec
CONSTANTS
  am = am
  pr = pr
  c1 = c1
  s1 = s1
  s2 = s2
  h1 = h1
  h2 = h2
  nC = nC
  plA = plA
  plB = plB
  plC = plC
  plD = plD
  None = None
  Kinds = {am, pr}
  Periods = {30}
  Carriers = {c1}
  Keys = {h1}
  Hist = {h1}
  Plates = {plA, plB, plD, plC}
  PlateOf <- PlateBook
  Requests <- Wishes
  Slots = {s1}
  Chunk = 1
  MaxScreens = 1
  MaxFaults = 0
INVARIANTS AppliedWasShown
