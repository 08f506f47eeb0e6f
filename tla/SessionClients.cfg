CONSTANTS
  ServerEncoding = 2
  Verdicts = {TRUE, FALSE}
  NameSz = 1
  CredSz = 2
  LenSz = 1
  ClientMsgs <- AnyMsgs
  MaxMsgs = 4
  MaxAnyMsgs = 3
SPECIFICATION ClientsSpec
CHECK_DEADLOCK FALSE
INVARIANT TypeOK
INVARIANT AuthBeforeExec
INVARIANT OutDiscipline
INVARIANT AttemptsAnswered
PROPERTY EndsWithClient
PROPERTY FollowsTable
INVARIANT PoliteReadsAtBoundary
PROPERTY PoliteAttemptAnswered
