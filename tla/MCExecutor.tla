---------------------------- MODULE MCExecutor ----------------------------
(***************************************************************************)
(* Small workflows for the executor, one for each thing a node can do and   *)
(* each way an edge can carry it on.                                        *)
(***************************************************************************)
EXTENDS ExecutorInvariant

CONSTANTS a, b, c

Link(from, to, rule) == [from |-> from, to |-> to, rule |-> rule, when |-> Vals]

Workflow(nodes, kinds, links) ==
  [nodes |-> nodes, links |-> links,
   kind |-> [n \in Range(nodes) |-> kinds[Position(nodes, n)]],
   timed |-> {}, compensable |-> {}, limit |-> 4]

\* An approval behind a held node, in front of a last one.
HoldGateWork ==
  Workflow(<<a, b, c>>, <<"hold", "approval", "work">>,
           <<Link(a, b, "all_success"), Link(b, c, "all_success")>>)

\* A timed approval whose rejection is routed, and an unrouted failure after it.
RejectRouted ==
  [Workflow(<<a, b, c>>, <<"approval", "effect", "work">>,
            <<Link(a, b, "any_failed"), Link(a, c, "all_success")>>) EXCEPT !.timed = {a}]

\* A failure with a compensable node behind it, in front of a node it skips.
WorkThenFail ==
  [Workflow(<<a, b, c>>, <<"work", "fail", "work">>,
            <<Link(a, b, "all_success"), Link(b, c, "all_success")>>) EXCEPT !.compensable = {a}]

\* A credential whose rejection fails the run, then a clarification.
CredentialThenClarify ==
  Workflow(<<a, b>>, <<"credential", "clarify">>, <<Link(a, b, "all_success")>>)

\* A loop around an approval, entered from a first node and cut by the
\* recursion limit on its third round.
GateLoop ==
  [Workflow(<<c, a, b>>, <<"work", "work", "approval">>,
            <<Link(c, a, "any_success"), Link(b, a, "any_success"), Link(a, b, "all_success")>>)
   EXCEPT !.limit = 5]

\* A hard budget on the way to a node that admits failures.
Overrun ==
  Workflow(<<a, b>>, <<"overrun", "hold">>, <<Link(a, b, "all_complete")>>)

All == {HoldGateWork, RejectRouted, WorkThenFail, CredentialThenClarify, GateLoop, Overrun}
=============================================================================
