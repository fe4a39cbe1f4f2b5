SPECIFICATION PageSpec
CONSTANTS
  q1 = q1
  q2 = q2
  Socks <- ThreeSocks
  NoSock = NoSock
  MaxReconnectAttempts = 1
  MaxQrAttempts = 1
  Scenarios <- OnlyThePage
  MaxEvents = 0
  Requests <- TwoRequests
  MaxAttempts = 2
PROPERTY StatusFollows
CHECK_DEADLOCK FALSE
