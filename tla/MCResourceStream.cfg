CONSTANTS
  None = None
  NoValue = NoValue
  Managers = {m1, m2}
  FirstManager = m1
  Sessions = {x1, x2}
  FirstSession = x1
  Subs = {s1, s2}
  Workers = {w1}
  SubscriberBufferSize = 1
  ResumeBufferSize = 1
  MaxSubscribersPerScope = 2
  OutgoingBufferSize = 2
  MaxPendingChanges = 1
  MaxChanges = 2
  MaxManual = 1
SYMMETRY Symmetry
SPECIFICATION Spec
CONSTRAINT InBounds
\* a bounded number of changes: the system comes to rest
CHECK_DEADLOCK FALSE
INVARIANTS HealthyIsFresh HealthyIsServed NoOrphanSubscriber
