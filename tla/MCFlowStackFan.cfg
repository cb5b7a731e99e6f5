SPECIFICATION Spec
CONSTANTS
  SourceOrder <- FanSources
  SinkOrder <- FanSinks
  Heads <- FanHeads
  Consumers <- FanConsumers
  Ports <- FanPorts
  Rank <- FanRank
  Script <- FanScript
  Row <- MCRow
  Change <- MCChange
  Items <- MCItems
  Output <- MCOutput
  AckBarrier = {"s"}
  Discard = {"z"}
  MaxDepth = 2
  QueueCap = 1
  OutboxCap = 2
  HeadItems = 2
  StackActions = 2
  Faults = {"crash", "commit", "sync", "target", "poll", "ack", "step"}
  NoSource = NoSource
INVARIANT TypeOK
INVARIANT RestoreAccepts
INVARIANT EffectsAreDurable
INVARIANT SettledIsDelivered
INVARIANT FailedRootIsPinned
INVARIANT ExactlyOnce
