SPECIFICATION FairSpec
CONSTANTS
  Accounts = {1}
  w1 = w1
  Slots = {w1}
  Cap = 1
  MaxTotal = 4
  ThrottlePct = 50
  RecoverPct = 35
  MaxLevel = 2
  CooldownSet = TRUE
  Budgets <- Failure
PROPERTIES CooldownEnds
CHECK_DEADLOCK FALSE
