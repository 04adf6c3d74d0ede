SPECIFICATION Spec
CONSTANTS
  Runs = {r1}
  Operations = {k1}
  TransportRetries = 0
  MaxExecutions = 1
  MaxCrashes = 1
INVARIANTS FailedFetchFailsNode
CHECK_DEADLOCK FALSE
