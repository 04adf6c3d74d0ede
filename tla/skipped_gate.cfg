\* Two answers to one callback, at a node with a gate behind it.
SPECIFICATION Spec
CONSTANTS
  p1 = p1
  p2 = p2
  root = root
  kid1 = kid1
  kid2 = kid2
  amy = amy
  bob = bob
  Procs = {p1, p2}
  Roots = {root}
  Kids = {kid1, kid2}
  Flow <- Flows
  RootFlows <- RelayedFlow
  ChildFlow = "child"
  Plan <- TwoWorkers
  Limit = 3
  Voters = {amy, bob}
  Required = 2
  Policy = "first"
  Entry = {p1}
  MaxThreads = 3
  Bound <- AnswersOnly
INVARIANT ResumeNeedsVotes
CHECK_DEADLOCK FALSE
