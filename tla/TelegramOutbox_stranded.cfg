SPECIFICATION FairSpec
CONSTANTS
  w1 = w1
  w2 = w2
  Workers <- OneWorker
  NumMessages = 1
  Undeliverable <- NoRows
  Outcomes <- AllOutcomes
  BatchLimit = 1
  MaxAttempts = 3
  ClaimTimeout = 2
  SendTimeout = 1
  RetryBase = 1
  RetryMax = 2
  MaxSends = 3
  MaxCrashes = 1
  MaxDeletes = 0
PROPERTIES StaleClaimsRetried
