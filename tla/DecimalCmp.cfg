SPECIFICATION DecimalSpec
CONSTANTS
  Parts = 3
  Log10 = 2
  MinExponent <- MCMinExponent
  MaxExponent = 4
  Literals <- MCLiterals
  Stale = {0, 7}
  MaxReuse = 1
  MaxDigits = 9
CHECK_DEADLOCK FALSE
INVARIANT CmpAsDocumented
