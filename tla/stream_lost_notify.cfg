SPECIFICATION Spec
CONSTANTS
  Callers = {c1}
  MaxSubs = 1
  MaxMsgs = 0
  Faults <- StartupFaults
  NoOne = NoOne
  Listener = Listener
CHECK_DEADLOCK FALSE
PROPERTY StartupErrorIsTransferred
