SPECIFICATION FairSpec
CONSTANTS
  t1 = t1
  t2 = t2
  w1 = w1
  w2 = w2
  NoTask = NoTask
  Tasks <- TwoTasks
  Workers <- TwoWorkers
  MaxFaults = 2
  Deletable = TRUE
INVARIANTS TypeOK CompletedIsIndexed SuccessIsTrue
PROPERTIES CompletedIsFinal DocumentSettles BlockIsTemporary
CHECK_DEADLOCK FALSE
