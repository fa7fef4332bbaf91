CONSTANTS
  MaxGens = 2
  MaxBuilds = 2
  MaxFlushes = 2
  Budgets <- MCBudgets
SPECIFICATION FairSpec
\* sources settle and events run out: the system may come to rest
CHECK_DEADLOCK FALSE
INVARIANTS QuietAfterStop
PROPERTY StateFollowsSources
