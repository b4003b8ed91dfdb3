\* FIFO pool: addTask racing with two starts, a stop, a self-stop, a failing post and resizes.
SPECIFICATION Spec
CONSTANTS
  t1 = t1  t2 = t2  t3 = t3  s1 = s1  s2 = s2  b1 = b1  b2 = b2
  Tasks <- TwoTasks
  Cancellable <- Nothing
  Failing <- First
  SelfStoppers <- Second
  Stoppers <- OneStopper
  Starters <- TwoStarters
  StartContexts <- CancelledLater
  Priority = FALSE
  Priorities <- OnePriority
  MinPriority <- Extreme
  ExecutorCounts <- Resizes
  Hardware = 2
  kCount = 2
  MaxTime = 0
SYMMETRY Symmetry
INVARIANTS DrainSafe Accounting NoStalledQueue
PROPERTIES  ImplementsDrainingPool
CHECK_DEADLOCK FALSE
