SPECIFICATION Spec
CONSTANTS
  Ops <- AllOps
  Timeouts = {0, 4}
  Limit = 3
  Faults = {}
  MaxCalls = 2
  MaxNoise = 2
  MaxTime = 5
CHECK_DEADLOCK FALSE
INVARIANT NullMeansExpired
