SPECIFICATION FairSpec
CONSTANTS
  MaxAttempts = 2
  BackoffSchedule <- MCBackoff
  ConnectivityRetryInterval = 1
  SteadyRetryInterval = 0
  ClusterAuthSteadyRetryInterval = 1
  Loops = {l1, l2}
  Requests = {r1}
  Reporters = {r1}
  MaxRetries = 1
  None = None
INVARIANTS RecoveryNeverGivesUp OneActiveLoop
PROPERTIES
  SettlesOnlyAfterBurst
  EventuallyValid
  RejectionSettles
CHECK_DEADLOCK FALSE
