SPECIFICATION Spec
CONSTANTS
  t1 = t1
  t2 = t2
  Free = free
  LockTasks = {t1, t2}
  LockTarget <- ClientOnly
  LockSlots = {p1}
  AutoPush = {t2}
  LockPresses = 0
  LockFaults = 2
  AskTasks = {t1}
  AskTarget <- ServerOnly
  AskSlots = {p1, p2}
  AskPresses = 4
  AskFaults = 1
  Runs = {d1, d2, d3}
  Forced = {d3}
  None = none
  Nobody = nobody
  MaxRev = 1
  MaxCrashes = 1
  Chief = chief
  NoQuery = noQuery
  NoUser = noUser
  ReportQueries = {q1, q2}
  ReportSlots = {s1}
  ReportToggles = 1
  RoleUsers = {chief, ict}
  RoleStaff = {ict}
  RoleTzUsers = {ict}
  RoleQueries = {q1}
  RoleSlots = {s1, s2}
  RoleToggles = 3
  Subscribers = 6
  Pace = 2
  MaxOutages = 2
\* workers end, deploys end, questions are answered: the focus may stop
CHECK_DEADLOCK FALSE
INVARIANTS TypeOK OneAtATime PushedWasChecked PushedByTwoPresses NeverOlder RevokedReadsNothing 
PROPERTIES NothingToDo RestartsWhole TaskEnds Receives
