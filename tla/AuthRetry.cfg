CONSTANTS
  ServerEncoding = 2
  Verdicts = {TRUE, FALSE}
  NameSz = 1
  CredSz = 2
  LenSz = 1
  ClientMsgs <- NoMsgs
  MaxMsgs = 0
  UserName <- User
  Password <- Hash
  MaxConns = 1
  MaxCalls = 4
SPECIFICATION ClientFairSpec
CHECK_DEADLOCK FALSE
PROPERTY AuthenticateReturns
