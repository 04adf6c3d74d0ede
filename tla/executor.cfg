\* The body of any request may lag behind its head, or come with it; the process
\* may be killed between any two statements, and timers and the supervisor do
\* their part.
\* No deadlock check: a run that is over, paused or waiting owes no step.
SPECIFICATION FairSpec
CONSTANTS
  a = a
  b = b
  c = c
  NoNode = NoNode
  Runs = {r1}
  Clients = {c1}
  Workflows <- All
  SlowBodies = {"cancel", "pause-drain", "pause-immediate", "resume", "granted", "rejected"}
  MaxOps = 3
  MaxCrashes = 1
PROPERTIES TerminalIsFinal CancelSettles RunSettles
CHECK_DEADLOCK FALSE
