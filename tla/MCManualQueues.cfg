SPECIFICATION FairSpec
CONSTANTS
  Jobs = {j1}
  MaxQueues = 2
  Capacity = 1
  MaxUpdates = 2
INVARIANTS
  UnfinishedIsServed
PROPERTIES
  JobsEnd
  UpdatesReturn
CHECK_DEADLOCK FALSE
