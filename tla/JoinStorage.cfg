\* Both sides of one key, with renewal, cancellation, timers, rotation and a stop.
SPECIFICATION FairSpec
CONSTANTS
  c1 = c1  c2 = c2  k1 = k1  s1 = s1
  Calls <- TwoCalls
  KeyOf <- OneKey
  IndexOf <- Sides
  JoinType = "Inner"
  Ttl = 1
  RenewTtl = TRUE
  Contexts <- ShortDeadline
  Cancellable <- First
  Stoppers <- OneStopper
  MaxTime = 2
INVARIANTS OneOpenItem ValueOnce
PROPERTIES EndsOnce  JoinReturns
CHECK_DEADLOCK FALSE
