SPECIFICATION Spec
CONSTANTS
  Ops <- AllOps
  Timeouts = {0, 4}
  Limit = 3
  Faults <- AllFaults
  MaxCalls = 2
  MaxNoise = 1
  MaxTime = 5
CHECK_DEADLOCK FALSE
INVARIANTS TypeOK OwnReply NotLate ReplyIsNotMissed RequestWaitsFully RecvWaitsItsShare
PROPERTY RequestReplySpec
