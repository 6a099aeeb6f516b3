SPECIFICATION FairSpec
CONSTANTS
  p1 = p1
  p2 = p2
  j1 = j1
  j2 = j2
  j3 = j3
  j4 = j4
  q1 = q1
  q2 = q2
  NoLock = NoLock
  NoJob = NoJob
  Procs = {p1, p2}
  Jobs = {j1, j2, j3, j4}
  Requests = {q1}
  Pages = 2
  BatchPages = 1
  MaxRetries = 2
  AutoContinue = {p1}
  Budgets <- LiveBudgets
PROPERTIES PlaceIsKept SyncSettles
CHECK_DEADLOCK FALSE
