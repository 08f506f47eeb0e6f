CONSTANTS
  ServerEncoding = 2
  Verdicts = {TRUE, FALSE}
  NameSz = 1
  CredSz = 2
  LenSz = 1
  ClientMsgs <- UsualMsgs
  MaxMsgs = 1
  MaxAnyMsgs = 1
SPECIFICATION ClientsSpec
CHECK_DEADLOCK FALSE
PROPERTY HelloGetsHello
