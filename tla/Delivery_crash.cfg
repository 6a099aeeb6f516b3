SPECIFICATION Spec
CONSTANTS
  r1 = r1
  r2 = r2
  p1 = p1
  p2 = p2
  w1 = w1
  w2 = w2
  NoJob = NoJob
  Recipients = {r1, r2}
  Procs = {p1, p2}
  Workers = {w1, w2}
  Home <- OneEach
  Attempts = 2
  RetryCount = 2
  MaxFails = 0
  MaxVersion = 1
  Budgets <- CrashBudget
SYMMETRY PairSymmetry
INVARIANTS QueuedHasJob
