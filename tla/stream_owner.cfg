SPECIFICATION Spec
CONSTANTS
  Callers = {c1}
  MaxSubs = 3
  MaxMsgs = 2
  Faults <- OwnerFaults
  NoOne = NoOne
  Listener = Listener
CHECK_DEADLOCK FALSE
INVARIANTS TypeOK SyncStopsItsTarget NoTerminate StartedIsServed JoinIsNotInVain
PROPERTIES StoppingReturns RoutedIsDelivered SubscriptionSpec
