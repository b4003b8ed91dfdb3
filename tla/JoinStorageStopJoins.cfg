\* Does stop join the expiry callbacks?
SPECIFICATION Spec
CONSTANTS
  c1 = c1  c2 = c2  k1 = k1  s1 = s1
  Calls <- TwoCalls
  KeyOf <- OneKey
  IndexOf <- Sides
  JoinType = "Inner"
  Ttl = 1
  RenewTtl = FALSE
  Contexts <- NoContextDeadline
  Cancellable <- Nobody
  Stoppers <- OneStopper
  MaxTime = 1
INVARIANTS StopJoins
CHECK_DEADLOCK FALSE
