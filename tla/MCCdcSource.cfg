SPECIFICATION FairSpec
CONSTANTS
  Sources <- MCSources
  MaxChanges = 3
  MaxRecords = 2
  StreamBytes = 2
  ResetBatch = 1
  Faults = {"crash", "commit", "sync", "poll", "ack"}
  None = None
INVARIANT CapturedOnce
INVARIANT RestoreAccepts
INVARIANT SlotAgrees
INVARIANT ConversionAccepts
PROPERTY EventuallyConsumed
