SPECIFICATION FairSpec
CONSTANTS
  n1 = n1
  n2 = n2
  p1 = p1
  p2 = p2
  NoNote = NoNote
  Notes = {n1, n2}
  Persons = {p1, p2}
  PersonsOf <- Lists
  Tender = {n1}
  Known = {n1, n2}
  Handlers = {h1, h2}
  Batch = 1
  MaxFaults = 0
  MaxCrashes = 0
PROPERTIES HeardIsServed
CHECK_DEADLOCK FALSE
