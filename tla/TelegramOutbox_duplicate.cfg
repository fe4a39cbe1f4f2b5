SPECIFICATION Spec
CONSTANTS
  w1 = w1
  w2 = w2
  Workers <- TwoWorkers
  NumMessages = 2
  Undeliverable <- NoRows
  Outcomes <- OnlyAccepted
  BatchLimit = 2
  MaxAttempts = 3
  ClaimTimeout = 2
  SendTimeout = 1
  RetryBase = 1
  RetryMax = 2
  MaxSends = 3
  MaxCrashes = 0
  MaxDeletes = 0
INVARIANTS NoDuplicateDelivery
