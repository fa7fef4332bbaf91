SPECIFICATION OneKindSpec
CONSTANTS
  Forwards = {f1}
  Shells = {s1}
  Drains = {d1, d2}
  Reconnecting = {f1}
  Ops <- AllOps
  MaxAttempts = 1
  MaxOpenings = 2
INVARIANTS SessionsAreRegistered SessionsOfThisOpening ShutdownIsFinal NoGhosts OneDrainer
PROPERTY StoppedEnd
CHECK_DEADLOCK FALSE
