\* Every small workflow, cyclic or not, under every sequence of node results;
\* clients that retry and share a key, a process that is killed twice; a run that
\* stops twice for input, over A2A and MCP, two requests at a time, each message
\* and requestState used wherever it can be, a kill anywhere.
\* No deadlock check: a run may be over, and every request sent.
SPECIFICATION PartsSpec
CONSTANTS
  n1 = n1
  n2 = n2
  n3 = n3
  NoNode = NoNode
  Values <- MCValues
  Workflows <- MCWorkflows
  RecursionLimit = 4
  MaxEvents = 30
  Requests <- SharedKey
  Clients = {c1, c2}
  MaxSends = 4
  MaxCrashes = 2
  Messages = {"m1", "m2"}
  Callers = {d1, d2}
  Kinds = {"form", "page", "credential"}
  MaxRuns = 1
  MaxInterrupts = 2
  MaxTokens = 2
  MaxKills = 1
SYMMETRY ConnectionSymmetry
INVARIANTS OrderSound WorkedOnce OneReply AnswersFit EndIsPushed
PROPERTIES NoStaleInput
CHECK_DEADLOCK FALSE
