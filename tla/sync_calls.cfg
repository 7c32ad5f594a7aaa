SPECIFICATION Spec
CONSTANTS
  Threads = {t1, t2}
  MaxCalls = 3
  MaxStrays = 1
  Faults <- AllFaults
CHECK_DEADLOCK FALSE
INVARIANTS TypeOK OwnReply NoMismatch WaitIsNotInVain
PROPERTIES CallEnds RequestReplySpec
