SPECIFICATION Spec
CONSTANTS
  Deliveries = 1
  MaxRuntimes = 1
  MaxStops = 2
  CloseMayFail = FALSE
CHECK_DEADLOCK FALSE
INVARIANT
  StopLeavesDisposable
