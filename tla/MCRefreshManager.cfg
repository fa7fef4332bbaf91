SPECIFICATION ManagerFairSpec
CONSTANTS
  MaxInstances = 3
  MaxRuns = 6
  MaxTimers = 6
  MaxCommands = 4
INVARIANTS WorkIsOwned KeepsCadence
PROPERTIES RefreshesGoOn
CHECK_DEADLOCK FALSE
