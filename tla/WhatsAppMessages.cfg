SPECIFICATION FairSpec
CONSTANTS
  q1 = q1
  q2 = q2
  Socks <- ThreeSocks
  NoSock = NoSock
  MaxReconnectAttempts = 1
  MaxQrAttempts = 1
  Scenarios <- FiveScenarios
  MaxEvents = 3
  Requests <- TwoRequests
  MaxAttempts = 2
INVARIANTS TypeOK OneSocket DeliveriesCounted
PROPERTIES CredentialsKept DeletedGoesAway AnswerSettles
CHECK_DEADLOCK FALSE
