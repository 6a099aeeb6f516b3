SPECIFICATION PanelSpec
CONSTANTS
  p1 = p1
  p2 = p2
  j1 = j1
  j2 = j2
  j3 = j3
  j4 = j4
  q1 = q1
  q2 = q2
  NoLock = NoLock
  NoJob = NoJob
  Procs = {p1, p2}
  Jobs = {j1, j2, j3, j4}
  Requests = {q1}
  Pages = 2
  BatchPages = 1
  MaxRetries = 2
  AutoContinue = {}
  Budgets <- OperatorBudgets
  x1 = x1
  x2 = x2
  v1 = v1
  v2 = v2
  Emails = {1, 2}
  Bad = {2}
  Lists = {1, 2}
  Reqs = {1, 2, 3}
  Scripts <- AudienceScripts
  Situations <- KnownOrNot
  Verifiers = {v1, v2}
  MaxAttempts = 2
  MaxTries = 4
  RedisFaults = 2
  QueueCampaigns = {x1, x2}
  ScanChunk = 1
  MaxScan = 2
  MaxJobs = 3
  MaxEvents = 2
  Books <- SomeBooks
  MaxPages = 3
  Today = 40
  Picks <- SomePicks
  MaxOthers = 1
  Imported <- Addresses
  Inputs <- Files
  Concurrency = 2
  ListSize = 2
  Situated <- EmptyOrNot
  MaxImports = 2
  ImportFaults = 1
  Sendings = {1, 2}
  MaxSent = 1
  MaxReadings = 2
  LiveFaults = 1
  TableRows = {1, 2}
  TableKinds <- SomeTables
  MaxClicks = 3
  MaxMishaps = 1
  Templates = {1, 2}
  Calls = {1, 2}
  DraftStatuses = {"draft", "archived"}
  Edits = {1, 2}
  Occasions <- SomeClicks
  Recipients = {1, 2}
  Visitors = {x1, x2}
  MaxVisits = 3
SYMMETRY SyncSymmetry
INVARIANTS TypeOK CompletedIsComplete OnePageAtATime NoFalseAlarm
  PanelTypes AudienceHolds GatesHold ReportsHold PagesHold TotalsHold
CHECK_DEADLOCK FALSE
