SPECIFICATION DeploymentsSpec
CONSTANTS
  w1 = w1
  w2 = w2
  Workers <- TwoWorkers
  NumMessages = 3
  Undeliverable <- FirstRow
  Outcomes <- AllOutcomes
  BatchLimit = 1
  MaxAttempts = 2
  ClaimTimeout = 2
  SendTimeout = 2
  RetryBase = 2
  RetryMax = 3
  MaxSends = 3
  MaxCrashes = 1
  MaxDeletes = 1
INVARIANTS TypeOK NoSharedRow SendsWithinAttempts FailedIsGivenUp SentInBatches
PROPERTIES Settles ImplementsDelivery BatchesSettle
