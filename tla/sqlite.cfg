\* The lives of a SQLite host.
\* No deadlock check: a run that ended, or waits for an answer nobody is left to
\* give, leaves nothing to do.
SPECIFICATION Spec
CONSTANTS
  root = root
  kid1 = kid1
  kid2 = kid2
  amy = amy
  bob = bob
  Roots = {root}
  Kids = {kid1, kid2}
  Flow <- Flows
  RootFlows <- AllFlows
  ChildFlow = "child"
  Plan <- TwoWorkers
  Limit = 3
  Voters = {amy, bob}
  Required = 2
  Policy = "majority"
  MaxThreads = 4
  Bound <- Bounds
INVARIANTS OrphansHaveOldClaims GateHonoured WaitsAnswerable
CHECK_DEADLOCK FALSE
