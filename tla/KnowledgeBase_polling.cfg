SPECIFICATION Spec
CONSTANTS
  s1 = s1
  s2 = s2
  s3 = s3
  Servers = {s1, s2, s3}
  NoServer = NoServer
  MaxRequests = 1
  MaxChains = 1
  MaxRetries = 0
  MaxEvents = 1
  c1 = c1
  c2 = c2
  c3 = c3
  c4 = c4
  doc1 = doc1
  doc2 = doc2
  shared = shared
  short = short
  long = long
  ChunkIds = {c1, c2, c3, c4}
  Asset <- MCAsset
  Text <- MCText
  Size <- MCSize
  AnyAsset = AnyAsset
  CandidateK = 3
  TopK = 2
  Budget = 5
  NumTexts = 5
  BatchSize = 2
  Concurrency = 2
  Fits <- MCFits
  GeminiAttempts = 2
  CohereRetries = 1
  UpsertBatch = 2
  UpsertAttempts = 2
  MaxRuns = 2
  NoVector = NoVector
INVARIANT FinalWithoutPolling
CHECK_DEADLOCK FALSE
