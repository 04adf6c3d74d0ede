\* No deadlock check: a run that ended, or waits for an answer nobody is left to
\* give, leaves nothing to do.
SPECIFICATION Spec
CONSTANTS
  p1 = p1
  p2 = p2
  root = root
  kid1 = kid1
  kid2 = kid2
  amy = amy
  bob = bob
  Procs = {p1, p2}
  Roots = {root}
  Kids = {kid1, kid2}
  Flow <- Flows
  RootFlows <- AllFlows
  ChildFlow = "child"
  Plan <- TwoWorkers
  Limit = 3
  Voters = {amy, bob}
  Required = 2
  Policy = "first"
  Entry = {p1}
  MaxThreads = 3
  Bound <- Bounds
INVARIANTS ClaimExclusive NodesInOrder GateHonoured OneChildPerWorker CancelledIfAsked NoneLeftBehind
CHECK_DEADLOCK FALSE
