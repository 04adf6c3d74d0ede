\* A message sent again after a kill.
SPECIFICATION AgentSpec
CONSTANTS
  Messages = {"m1"}
  Callers = {c1}
  Kinds = {"form"}
  MaxRuns = 2
  MaxInterrupts = 1
  MaxTokens = 1
  MaxKills = 1
INVARIANT OneTaskPerMessage
CHECK_DEADLOCK FALSE
