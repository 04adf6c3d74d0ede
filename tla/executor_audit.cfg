\* Runs of the v2 host, where a body may lag behind its head and the process may
\* be killed between any two statements; three hosts that keep an audit log, in
\* two processes with three handlers, and someone who edits what it holds.
\* No deadlock check: a run that is over, paused or waiting owes no step, and no
\* more than MaxSeq entries are written.
SPECIFICATION ExecutorAuditSpec
CONSTANTS
  a = a
  b = b
  c = c
  NoNode = NoNode
  Runs = {r1}
  Clients = {c1}
  Workflows <- All
  SlowBodies = {"cancel", "pause-drain", "pause-immediate", "resume", "granted", "rejected"}
  MaxOps = 3
  MaxCrashes = 1
  Hosts = {"v2", "sqlite", "postgres"}
  Contents = {e1, e2}
  e1 = e1
  e2 = e2
  Procs = {p1, p2}
  Threads = {t1, t2, t3}
  p1 = p1
  p2 = p2
  t1 = t1
  t2 = t2
  t3 = t3
  ProcOf <- MCProcOf
  Interval = 2
  MaxSeq = 3
  None = None
SYMMETRY MCSymmetry
INVARIANTS GateNeverBypassed ResolvedOnce ChainIntact TamperSeen AnchorsKeepUp
PROPERTY LogIsAppendOnly
CHECK_DEADLOCK FALSE
