CONSTANTS
  Subs = {s1, s2}
  Workers = {w1, w2}
  Managers = {m1}
  None = None
  SubscriberBufferSize = 1
  ResumeBufferSize = 2
  MaxSubscribersPerScope = 2
  MaxChanges = 4
SYMMETRY Symmetry
SPECIFICATION ReadersSpec
CHECK_DEADLOCK FALSE
INVARIANTS NoSilentLoss ResetReachesReader
