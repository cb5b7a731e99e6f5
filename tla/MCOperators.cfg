SPECIFICATION Spec
CONSTANTS
  MaxWeight = 2
  MaxDiff = 3
  Diff <- MCDiff
  LaterRow = {1, 4}
  LeftRow <- MCLeftRow
  RightRow <- MCRightRow
  Key <- MCKey
  NullKey = 0
  Qualifying <- MCQualifying
  AsOfLeft <- MCAsOfLeft
  AsOfRight <- MCAsOfRight
  Part <- MCPart
  NullPart = 0
  OrderOf <- MCOrderOf
  NullOrder <- MCNullOrder
  AggRow <- MCAggRow
  GroupOf <- MCGroupOf
  ArgOf <- MCArgOf
  NullArg <- MCNullArg
  MaxGroupId = 2
  MaxSum = 3
  Predicate <- MCPredicate
  Image <- MCImage
  Op <- MCOp
INVARIANTS
  ResultIsRelation
  OutputNeverOverdraws
  StopsOnlyForInput
  RestoredPositionIsValid
CHECK_DEADLOCK FALSE
