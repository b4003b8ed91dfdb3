\* Priority pool: three tasks with deadlines over two priorities, the extreme one included.
SPECIFICATION Spec
CONSTANTS
  t1 = t1  t2 = t2  t3 = t3  s1 = s1  s2 = s2  b1 = b1  b2 = b2
  Tasks <- ThreeTasks
  Cancellable <- Third
  Failing <- Nothing
  SelfStoppers <- Nothing
  Stoppers <- Nothing
  Starters <- OneStarter
  StartContexts <- AlreadyCancelled
  Priority = TRUE
  Priorities <- SomePriorities
  MinPriority <- Extreme
  ExecutorCounts <- One
  Hardware = 2
  kCount = 3
  MaxTime = 1
SYMMETRY Symmetry
INVARIANTS  PriorityOrder
PROPERTIES RunsOnce
CHECK_DEADLOCK FALSE
