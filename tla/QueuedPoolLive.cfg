\* FIFO pool under fairness: two tasks with deadlines, one cancellable, one stopping its own pool.
SPECIFICATION FairSpec
CONSTANTS
  t1 = t1  t2 = t2  t3 = t3  s1 = s1  s2 = s2  b1 = b1  b2 = b2
  Tasks <- TwoTasks
  Cancellable <- First
  Failing <- Nothing
  SelfStoppers <- Second
  Stoppers <- OneStopper
  Starters <- OneStarter
  StartContexts <- AlreadyCancelled
  Priority = FALSE
  Priorities <- OnePriority
  MinPriority <- Extreme
  ExecutorCounts <- One
  Hardware = 2
  kCount = 2
  MaxTime = 1
PROPERTIES StopReturns AcceptedRuns UrgentPromoted
CHECK_DEADLOCK FALSE
