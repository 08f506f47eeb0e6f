SPECIFICATION LexSpec
CONSTANTS
  Lower = {"e"}
  Upper = {"E"}
  ToUpper <- MCToUpper
  Digits <- MCDigits
  Specials <- MCSpecials
  Others = {"o"}
  Width = 2
  Reserved <- MCReserved
  MaxIdent = 3
  MaxLiteral = 2
  Positions = 2
  MaxExpRead = 9
  MinExp <- MCMinExp
  MaxExp = 2
  MaxInteger = 32
  MaxText = 6
  MaxLexems = 2
CHECK_DEADLOCK FALSE
INVARIANT Tokenized
INVARIANT NumbersExact
INVARIANT IntegerFits
