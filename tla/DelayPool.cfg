\* Delays, failing posts, cancellation, a self-stop and a stop, under fairness.
SPECIFICATION FairSpec
CONSTANTS
  t1 = t1  t2 = t2  s1 = s1
  Tasks <- TwoTasks
  Cancellable <- First
  Failing <- Second
  SelfStoppers <- Second
  Stoppers <- OneStopper
  Delays <- SomeDelays
  kMaxActiveTasks = 2
  Batch = 1
  MaxTime = 1
INVARIANTS ExactlyOnce
PROPERTIES NotEarly ImplementsDrainingPool DueRuns StopReturns
CHECK_DEADLOCK FALSE
