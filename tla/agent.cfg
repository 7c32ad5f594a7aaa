SPECIFICATION Spec
CONSTANTS
  PollerTimeout = 3
  MaxBusy = 1
  Quitters <- SomeQuitters
  Interrupts = TRUE
  MaxMessages = 3
  MaxTime = 13
CHECK_DEADLOCK FALSE
INVARIANTS TypeOK TickIsNotStarved
PROPERTY TermStops
