CONSTANTS
  Capacities = {0, 1, 3}
  Numbers <- MCNumbers
SPECIFICATION RingSpec
CHECK_DEADLOCK FALSE
INVARIANTS NothingSkipped
PROPERTY RefinesLog
