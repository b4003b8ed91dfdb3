\* Three readers and two writers, each locking again and again.
SPECIFICATION FairSpec
CONSTANTS
  r1 = r1  r2 = r2  r3 = r3  w1 = w1  w2 = w2
  Readers <- ThreeReaders
  Writers <- TwoWriters
INVARIANTS Exclusion
PROPERTIES EveryWaiterEnters
