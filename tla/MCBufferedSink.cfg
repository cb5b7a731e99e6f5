SPECIFICATION FairSpec
CONSTANTS
  Row = {"a", "b"}
  Pages <- MCPages
  MaxEvents = 5
  MaxBytes = 8
  MaxBatch = 3
  MaxOffset = 12
  Faults = {"crash", "commit", "sync", "target"}
  None = None
INVARIANT BuffersAreValid
INVARIANT TargetNeverRefuses
INVARIANT YoungestSurvive
PROPERTY ImplementsContract
PROPERTY EventuallySettled
