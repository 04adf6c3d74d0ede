\* Two runs of one business operation or of two, killed at any point.
\* No deadlock check: runs that are over owe no step.
SPECIFICATION FairSpec
CONSTANTS
  Runs = {r1, r2}
  Operations = {k1, k2}
  TransportRetries = 1
  MaxExecutions = 2
  MaxCrashes = 1
INVARIANTS OneIdentity
PROPERTIES EveryDeliveryReturns
CHECK_DEADLOCK FALSE
