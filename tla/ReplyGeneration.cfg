SPECIFICATION FairSpec
CONSTANTS
  u1 = u1
  u2 = u2
  q1 = q1
  q2 = q2
  w1 = w1
  w2 = w2
  NoUpdate = NoUpdate
  Updates <- TwoUpdates
  MessageOf <- Edited
  Requests <- TwoRequests
  Workers <- TwoWorkers
  ClaimTimeout = 2
  TaskTimeLimit = 2
  HumanHandoff = TRUE
  MaxConversations = 2
  FaultKinds <- AllFaults
  MaxFaults = 2
  MaxEdits = 1
INVARIANTS TypeOK OneReply NothingForgotten
PROPERTIES EveryMessageAnswered BlockedStaysOut UpdatesAnswered
