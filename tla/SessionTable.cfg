CONSTANTS
  ServerEncoding = 2
  Verdicts = {TRUE, FALSE}
  NameSz = 1
  CredSz = 2
  LenSz = 1
  ClientMsgs <- UsualMsgs
  MaxMsgs = 3
  MaxAnyMsgs = 3
SPECIFICATION ClientsSpec
CHECK_DEADLOCK FALSE
PROPERTY TableAsDrawn
