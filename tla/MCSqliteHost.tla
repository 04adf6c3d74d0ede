---------------------------- MODULE MCSqliteHost ----------------------------
(***************************************************************************)
(* One run of one of several workflows and, in those with a sub-workflow or  *)
(* a dispatch, its children, over the lives of several processes.            *)
(***************************************************************************)
EXTENDS SqliteHost

CONSTANTS root, kid1, kid2, amy, bob

Flows == [
  gated    |-> <<"approval", "noop">>,
  asked    |-> <<"clarification", "channel">>,
  external |-> <<"external", "cost">>,
  nested   |-> <<"sub">>,
  child    |-> <<"clarification">>,
  dispatch |-> <<"supervisor", "dispatch">>,
  leaf     |-> <<"dispatch">>,
  reviewed |-> <<"supervisor", "approval", "dispatch">>,
  timed    |-> <<"delay", "noop">>,
  secret   |-> <<"secret">>,
  needs    |-> <<"requires">>,
  models   |-> <<"model">>,
  long     |-> <<"identity", "noop", "noop", "noop">>,
  unknown  |-> <<"unknown">>]

AllFlows == DOMAIN Flows \ {"child"}
TwoWorkers == <<2>>
Bounded(c, f, s) == [calls |-> c, faults |-> f, stops |-> s]
Bounds == [f \in AllFlows |->
  CASE f = "gated" -> Bounded(3, 1, 0)
    [] f = "reviewed" -> Bounded(4, 0, 0)
    [] f \in {"nested", "dispatch"} -> Bounded(2, 1, 1)
    [] OTHER -> Bounded(2, 2, 1)]
=============================================================================
