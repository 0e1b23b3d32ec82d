SPECIFICATION Spec
CONSTANTS
  n1 = n1
  n2 = n2
  p1 = p1
  p2 = p2
  NoNote = NoNote
  Notes = {n1, n2}
  Persons = {p1, p2}
  PersonsOf <- Lists
  Tender = {n1, n2}
  Known = {n1}
  Handlers = {h1, h2}
  Batch = 1
  MaxFaults = 2
  MaxCrashes = 2
INVARIANTS TypeOK DoneMeansTried AddedBound ProcessingHeld
PROPERTIES KeepsLedger RelistedInRace
CHECK_DEADLOCK FALSE
