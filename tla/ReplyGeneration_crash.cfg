SPECIFICATION FairSpec
CONSTANTS
  u1 = u1
  u2 = u2
  q1 = q1
  q2 = q2
  w1 = w1
  w2 = w2
  NoUpdate = NoUpdate
  Updates <- OneUpdate
  MessageOf <- NoEdits
  Requests <- OneRequest
  Workers <- OneWorker
  ClaimTimeout = 2
  TaskTimeLimit = 2
  HumanHandoff = TRUE
  MaxConversations = 1
  FaultKinds <- OnlyCrash
  MaxFaults = 1
  MaxEdits = 0
PROPERTIES NoTaskLostInCrash
