SPECIFICATION Spec
CONSTANTS
  m1 = m1
  m2 = m2
  r1 = r1
  r2 = r2
  r3 = r3
  NoRow = NoRow
  Mailings = {m1}
  Rows = {r1}
  HomeOf <- LoneHome
  Admins = {a1, a2}
  MaxAttempts = 3
  MaxStarts = 2
  MaxPauses = 1
  MaxFaults = 0
  MaxCrashes = 2
INVARIANTS MailBudget EnqueueBound
CHECK_DEADLOCK FALSE
