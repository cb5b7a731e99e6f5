CONSTANTS
  MaxOperations = 12
  MaxDepth = 3
  MaxDeclared = 5
  Projecting = {1, 3}
  Table <- MCTable
  JoinName <- MCJoinName
  Databases <- MCDatabases
  Queries <- MCQueries
  Offered <- MCOffered
SPECIFICATION Spec
INVARIANTS
  QueryIsComputed
  TopologyIsSound
  RefusedForAReason
CHECK_DEADLOCK FALSE
