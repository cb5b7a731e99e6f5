SPECIFICATION FairSpec
CONSTANTS
  SourceOrder <- PairSources
  SinkOrder <- PairSinks
  Heads <- PairHeads
  Consumers <- PairConsumers
  Ports <- PairPorts
  Rank <- PairRank
  Script <- PairScript
  Row <- MCRow
  Change <- MCChange
  Items <- MCItems
  Output <- MCOutput
  AckBarrier = {"s"}
  Discard = {}
  MaxDepth = 2
  QueueCap = 1
  OutboxCap = 2
  HeadItems = 2
  StackActions = 1
  Faults = {"crash", "step"}
  NoSource = NoSource
INVARIANT ExactlyOnce
PROPERTY EventuallyComplete
