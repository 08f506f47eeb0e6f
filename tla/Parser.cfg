SPECIFICATION PartsSpec
CONSTANTS
  MaxStack = 12
  MaxNested = 3
  Liberties <- AllLiberties
  Refusals <- AllRefusals
  BinOps = {"+", "-", "IS", "AND"}
  MaxLexems = 10
  MaxCalls = 3
  Exprs <- MCExprs
  StackSize = 1
  Size = 3
  Byte = {0, 1, 2, 3, 4, 5, 6, 7, 8, 9}
  Sizes = {1, 2, 4}
  SendSize = 4
  Chunks = {1, 3}
  Crossing = FALSE
  ShortWrites = FALSE
  MaxGiven = 9
INVARIANT Buffered
INVARIANT EndToEnd
PROPERTY ReadReturns
INVARIANT OnlyDocumented
INVARIANT AllDocumented
INVARIANT SameText
INVARIANT RightBinds
INVARIANT Folded
PROPERTY WalkOfValueEnds
CHECK_DEADLOCK FALSE
