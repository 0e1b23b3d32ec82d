SPECIFICATION FairSpec
CONSTANTS
  m1 = m1
  m2 = m2
  r1 = r1
  r2 = r2
  r3 = r3
  NoRow = NoRow
  Mailings = {m1, m2}
  Rows = {r1, r2, r3}
  HomeOf <- ThreeHomes
  Admins = {a1}
  MaxAttempts = 3
  MaxStarts = 2
  MaxPauses = 0
  MaxFaults = 0
  MaxCrashes = 0
PROPERTIES CampaignEnds
