SPECIFICATION MCSpec
CONSTANTS
  MaxWeight = 1
  MaxSequence = 2
  MapKey <- MCMapKey
  Payload <- MCPayload
  Difference <- MCDifference
  Capacity = 17
  ReadBound <- MCReadBound
  Limit <- MCLimit
  MapId = 255
  QueueId = 256
  MaxCalls = 2
  MaxBatched = 1
  MaxUnsynced = 1
INVARIANT ScanIsComplete
PROPERTY ImplementsContract
