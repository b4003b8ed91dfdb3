CONSTANTS
  r1 = r1
  r2 = r2
  q1 = q1
  q2 = q2
  i1 = i1
  None = None
  Requests <- TwoRequests
  Results <- TwoResults
  StreamIds <- OneId
  RequestId <- RequestIdOf
  ResultId <- ResultIdOf
  Timed <- OneTimed
  Limits <- OneOrTwo
  Transports <- AllTransports
SPECIFICATION FairSpec
INVARIANTS
  FenceHolds
  
  
  
PROPERTIES
  
  StopReturns
CHECK_DEADLOCK FALSE
