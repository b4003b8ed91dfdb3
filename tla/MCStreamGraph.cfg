SPECIFICATION FairSpec
CONSTANTS
  call = call
  message = message
  j1 = j1
  j2 = j2
  None = None
  Calls <- MCCalls
  Timed <- MCCalls
  Inputs <- MCInputs
  Jobs <- MCJobs
  Nodes <- MCNodes
  Kind <- MCKind
  Out <- MCOut
  LinkTo <- MCLinkTo
  LinkCall <- MCLinkCall
  Throwing = {"process"}
  Entry = "entry"
  Result = "result"
  Root = "input"
  MaxEmit = 1
INVARIANTS CollectorAlive CallbacksSerialized VerdictIsAnswer CountersExact
PROPERTIES CallsReturn
CHECK_DEADLOCK FALSE
