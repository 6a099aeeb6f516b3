SPECIFICATION FairSpec
CONSTANTS
  r1 = r1
  r2 = r2
  p1 = p1
  p2 = p2
  w1 = w1
  w2 = w2
  NoJob = NoJob
  Recipients = {r1, r2}
  Procs = {p1}
  Workers = {w1, w2}
  Home <- AllInOne
  Attempts = 2
  RetryCount = 2
  MaxFails = 1
  MaxVersion = 2
  Budgets <- LiveBudgets
PROPERTIES EveryRowSettles CampaignEnds
