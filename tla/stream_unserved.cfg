SPECIFICATION SafetySpec
CONSTANTS
  Callers = {c1}
  MaxSubs = 2
  MaxMsgs = 0
  Faults <- StartupFaults
  NoOne = NoOne
  Listener = Listener
CHECK_DEADLOCK FALSE
INVARIANT SubscriptionIsServed
