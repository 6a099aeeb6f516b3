SPECIFICATION MCSpec
CONSTANTS
  Accounts = {1, 2}
  w1 = w1
  w2 = w2
  l1 = l1
  l2 = l2
  r1 = r1
  r2 = r2
  c1 = c1
  c2 = c2
  p1 = p1
  p2 = p2
  s1 = s1
  s2 = s2
  JobRows <- WideRows
  Loops = {l1, l2}
  Orders <- SomeOrders
  Lost = 0
  Aimed = {1, 2}
  Looks <- SomeLooks
  Plans <- SomePlans
  Requests = {r1, r2}
  Calls = {c1, c2}
  Delivered = {700, 50001}
  Occasions <- RateBudgets
  Lanes = {w1, w2}
  Rates = {1, 6}
  MaxWait = 4
  MaxClock = 5
  Waiting = 0
  MaxPending = 1
  Guard = 1
  Senders = {1, 2, 3}
  Rate <- Tenths
  Receivers = {1, 2, 3, 4, 5}
  Target <- Matched
  Posts <- SomePosts
  Situations <- Worlds
  Chunk = 2
  MaxChanges = 1
  MaxStarts = 2
  Keepers = {1, 2}
  Procs = {p1, p2}
  Scripts = {s1, s2}
  MaxEdits = 2
  Recipients = {1, 2, 3}
  Campaigns = {1, 2}
  Queries <- SomeQueries
  Pasts <- Past
  PageSize = 1
  MaxEvents = 1
  MaxRuns = 2
  Htmls <- SomeHtmls
  MaxLinks = 3
  MaxOps = 2
  MaxMishaps = 1
  Slots = {w1, w2}
  Cap = 1
  MaxTotal = 4
  ThrottlePct = 50
  RecoverPct = 35
  MaxLevel = 2
  CooldownSet = TRUE
  Budgets <- AccountBudgets
SYMMETRY Symmetry
INVARIANTS Types QuotaBound SafetyAgrees  RatesHold CreationHolds RotationHolds SegmentsHold LinksHold SharesHold
PROPERTIES ResetSparesAuth
CHECK_DEADLOCK FALSE
