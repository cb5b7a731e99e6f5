SPECIFICATION FairSpec
CONSTANTS
  Deliveries = 3
  MaxRuntimes = 2
  MaxStops = 2
  CloseMayFail = TRUE
CHECK_DEADLOCK FALSE
INVARIANT NeverAheadOfHost
INVARIANT NoGap
PROPERTY AckMeansCommitted
PROPERTY IdleMeansRunning
PROPERTY ReservationReleased
