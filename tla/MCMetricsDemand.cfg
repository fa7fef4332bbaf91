SPECIFICATION FairSpec
CONSTANTS
  MaxGens = 2
  MaxSetups = 1
  Budget <- EventBudget
  Lease = 2
  Other = 1
  Read = 2
  Change = 2
  Any = 4
INVARIANTS
  PollsAreOwned
PROPERTIES
  LeaseIsPolled
  UnleasedIsIdle
CHECK_DEADLOCK FALSE
