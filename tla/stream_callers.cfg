SPECIFICATION Spec
CONSTANTS
  Callers = {c1, c2}
  MaxSubs = 2
  MaxMsgs = 1
  Faults <- CallerFaults
  NoOne = NoOne
  Listener = Listener
CHECK_DEADLOCK FALSE
INVARIANTS NoCallbackAfterErase LockOwnerIsInside
PROPERTY LockIsReleased
