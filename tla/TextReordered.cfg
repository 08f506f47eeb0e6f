SPECIFICATION ExprSpec
CONSTANTS
  BinOps = {"*", "+", "-", "=", "AND", "OR"}
  MaxLexems = 11
  MaxCalls = 1
CHECK_DEADLOCK FALSE
INVARIANT TextKept
