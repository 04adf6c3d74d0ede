--------------------------- MODULE MCPostgresHost ---------------------------
(***************************************************************************)
(* Two processes, one run of one of several workflows and, in those with a  *)
(* sub-workflow or a dispatch, its children.                                *)
(***************************************************************************)
EXTENDS PostgresHost

CONSTANTS p1, p2, root, kid1, kid2, amy, bob

Flows == [
  gated    |-> <<"approval", "noop">>,
  nested   |-> <<"sub">>,
  cascaded |-> <<"sub">>,
  child    |-> <<"clarification">>,
  dispatch |-> <<"supervisor", "dispatch">>,
  timed    |-> <<"delay", "noop">>,
  paused   |-> <<"delay", "noop">>,
  asked    |-> <<"clarification", "noop", "noop">>,
  external |-> <<"external">>,
  relayed  |-> <<"external", "approval", "noop">>,
  llm      |-> <<"llm">>,
  mcp      |-> <<"mcp">>,
  http     |-> <<"http">>,
  mock     |-> <<"mock">>,
  plain    |-> <<"identity", "cost">>,
  secret   |-> <<"secret">>,
  needs    |-> <<"requires">>,
  models   |-> <<"model">>,
  long     |-> <<"noop", "noop", "noop", "noop">>,
  unknown  |-> <<"unknown">>]

AllFlows == DOMAIN Flows \ {"child"}
TwoWorkers == <<2>>
Bounded(c, f, both, ops) == [calls |-> c, faults |-> f, events |-> both, ops |-> ops]
Bounds == [f \in AllFlows |->
  CASE f = "gated" -> Bounded(2, 1, 3, {"resolve"})
    [] f = "nested" -> Bounded(1, 1, 2, {"resolve"})
    [] f = "cascaded" -> Bounded(1, 0, 1, {"cancel", "resolve"})
    [] f = "paused" -> Bounded(2, 0, 2, {"cancel", "pause", "resume"})
    [] f = "timed" -> Bounded(1, 1, 2, {"cancel", "shutdown"})
    [] f = "http" -> Bounded(2, 0, 2, {"pause", "resume"})
    [] f = "dispatch" -> Bounded(2, 1, 2, {"pause", "resume", "resolve"})
    [] f = "relayed" -> Bounded(2, 1, 2, {"resolve"})
    [] f = "asked" -> Bounded(2, 1, 2, {"cancel", "resolve"})
    [] f \in {"mock", "llm", "long", "plain"} -> Bounded(1, 1, 1, {"cancel"})
    [] OTHER -> Bounded(1, 1, 2, {"cancel", "resolve"})]

\* A callback that is delivered twice.
RelayedFlow == {"relayed"}
AnswersOnly == [f \in RelayedFlow |-> Bounded(2, 0, 2, {"resolve"})]
=============================================================================
