\* Two senders against a waiter of each kind.
SPECIFICATION FairSpec
CONSTANTS
  s1 = s1  s2 = s2  w1 = w1  w2 = w2  w3 = w3  w4 = w4
  Senders <- TwoSenders
  Waiters <- FourWaiters
  Async <- SomeAsync
  Bounded <- SomeBounded
INVARIANTS Truthful OneOwner
PROPERTIES WaitersReturn
CHECK_DEADLOCK FALSE
