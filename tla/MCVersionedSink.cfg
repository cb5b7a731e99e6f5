SPECIFICATION FairSpec
CONSTANTS
  Row = {"a", "b"}
  Pages <- MCPages
  MaxEvents = 5
  MaxBytes = 8
  MaxBatch = 3
  MaxOffset = 8
  MaxLate = 2
  Faults = {"crash", "commit", "sync", "target"}
  None = None
INVARIANT TargetNeverRefuses
INVARIANT StateFollowsEvents
PROPERTY ImplementsContract
PROPERTY EventuallySettled
