--------------------------- MODULE MCScheduler ---------------------------
(***************************************************************************)
(* Every workflow of two nodes with at most two edges over all five rules,  *)
(* with and without a condition, and every workflow of three nodes with at  *)
(* most three edges over three rules, up to the choice of which edges.      *)
(***************************************************************************)
EXTENDS Scheduler

CONSTANTS n1, n2, n3

MCValues == {"yes", "no"}

LinkOf(ns, rules, whens) ==
  [from : ns, to : ns, rule : rules, when : whens]

Small ==
  {[nodes |-> <<n1, n2>>, links |-> ls] :
     ls \in SeqOf(LinkOf({n1, n2}, Rules, {MCValues, {"yes"}}), 2)}

\* All the edge relations of three nodes with three or fewer edges, one rule
\* for the edges out of n1 and another for the rest.
Shapes == {S \in SUBSET ({n1, n2, n3} \X {n1, n2, n3}) : Cardinality(S) \in 2..3}

Ruled(S, r1, r2) ==
  SetToSeq({[from |-> e[1], to |-> e[2], when |-> MCValues,
             rule |-> IF e[1] = n1 THEN r1 ELSE r2] : e \in S})

Medium ==
  {[nodes |-> ns, links |-> Ruled(S, r1, r2)] :
     ns \in {<<n1, n2, n3>>, <<n3, n1, n2>>}, S \in Shapes,
     r1, r2 \in {"all_success", "any_failed", "all_complete"}}

MCWorkflows == Small \cup Medium
=============================================================================
