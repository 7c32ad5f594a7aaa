SPECIFICATION SafetySpec
CONSTANTS
  Callers = {c1}
  MaxSubs = 1
  MaxMsgs = 0
  Faults <- PublishFaults
  NoOne = NoOne
  Listener = Listener
CHECK_DEADLOCK FALSE
INVARIANT NoTerminate
