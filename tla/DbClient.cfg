CONSTANTS
  ServerEncoding = 2
  Verdicts = {TRUE, FALSE}
  NameSz = 1
  CredSz = 2
  LenSz = 1
  ClientMsgs <- NoMsgs
  MaxMsgs = 0
  UserName <- User
  Password <- Hash
  MaxConns = 3
  MaxCalls = 9
SPECIFICATION ClientFairSpec
CHECK_DEADLOCK FALSE
INVARIANT HandshakeAgreed
PROPERTY CredentialsOnRequest
PROPERTY SuccessIsGranted
PROPERTY CallsEndWithServer
