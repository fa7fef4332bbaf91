SPECIFICATION Spec
CONSTANTS
  Forwards = {}
  Shells = {}
  Drains = {d1}
  Reconnecting = {}
  Ops <- AllOps
  MaxAttempts = 1
  MaxOpenings = 1
INVARIANT DrainsOfThisOpening
CHECK_DEADLOCK FALSE
