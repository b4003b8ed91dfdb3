CONSTANTS
  server = server
  pool = pool
  sink = sink
  source = source
  Components <- Three
  Kind <- KindOf
  MaxWork = 3
  MaxInputInvocations = 1
SPECIFICATION FairSpec

  
PROPERTIES
  PhaseOrder
  ShutdownCompletes
CHECK_DEADLOCK FALSE
