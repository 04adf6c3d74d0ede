SPECIFICATION FairSpec
CONSTANTS
  c1 = c1
  c2 = c2
  d1 = d1
  d2 = d2
  k = k
  Workflows <- MCWorkflows
  Creators = {c1, c2}
  KeyOf <- MCKeyOf
  BodyOf <- MCBodyOf
  Callers = {d1, d2}
  CallsOf <- MCCallsOf
  Streams = {s1}
  Asks <- MCAsks
  MaxParks = 1
  None = None
INVARIANTS EndsWithItsEvent StreamExact
PROPERTIES StreamsClose RunEnds
CHECK_DEADLOCK FALSE
