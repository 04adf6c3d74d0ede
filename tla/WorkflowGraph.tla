--------------------------- MODULE WorkflowGraph ---------------------------
(***************************************************************************)
(* The executor's view of a workflow definition: its edges, the order the   *)
(* nodes are visited in, the trigger rule that decides whether a node       *)
(* fires, and the scheduler that picks the next node from the event log     *)
(* alone (executor.ts: links .. latestOutcomes).                            *)
(*                                                                          *)
(* A workflow is a record                                                   *)
(*    [nodes : Seq(Node),             definition order                      *)
(*     links : Seq(Link)]             edge order                            *)
(* with  Link == [from, to : Node, rule : Rules, when : SUBSET Values].     *)
(* "when" is what an edge condition can tell apart: the output values of    *)
(* the source for which the condition holds (all of them, when the edge     *)
(* carries no condition or one the host does not evaluate).                 *)
(*                                                                          *)
(* A log is a sequence of records that have at least the fields type, node  *)
(* and val; its index is the event's sequence number.                       *)
(***************************************************************************)
EXTENDS Integers, Sequences, SequencesExt, FiniteSetsExt

CONSTANT NoNode           \* the node of an event about the whole run

Rules == {"all_success", "any_success", "all_complete", "none_failed", "any_failed"}

OutcomeTypes == {"node.completed", "node.failed", "node.skipped"}

---------------------------------------------------------------------------
(* Edges *)

Links(w) == Range(w.links)

Incoming(w, n) == SelectSeq(w.links, LAMBDA l : l.to = n)

AdmitsFailed == {"all_complete", "any_failed"}

\* A failure the definition routes: some edge out of n admits a failed source.
FailureRouted(w, n) == \E l \in Links(w) : l.from = n /\ l.rule \in AdmitsFailed

---------------------------------------------------------------------------
(* The visiting order: Kahn's algorithm with a FIFO of ready nodes, then    *)
(* whatever a cycle kept out of it, in definition order.                    *)

\* The elements of a sequence at these positions, in its order.
Picked(s, places) ==
  LET place(i) == Cardinality({j \in places : j <= i})
  IN  [k \in 1..Cardinality(places) |-> s[CHOOSE i \in places : place(i) = k]]

Targets(w) == [i \in DOMAIN w.links |-> w.links[i].to]

\* The edges whose source is not ordered: what the in-degrees count.
Unordered(w, order) == {i \in DOMAIN w.links : w.links[i].from \notin Range(order)}

KahnInit(w) ==
  [ready |-> Picked(w.nodes, {i \in DOMAIN w.nodes : w.nodes[i] \notin Range(Targets(w))}),
   order |-> <<>>]

\* A wrong form: ready as soon as one of its sources is ordered.
FreedAny(w, order, n) ==
  LET left == Unordered(w, order)
      taken == {i \in left : w.links[i].from = n}
      before == DOMAIN w.links \ left
  IN  {i \in taken : \A j \in before \cup taken : w.links[j].to = w.links[i].to => j \notin before /\ j >= i}

\* The edges out of n that are the last to enter their targets.
Freed(w, order, n) ==
  LET left == Unordered(w, order)
  IN  {i \in left : w.links[i].from = n /\ \A j \in left :
         w.links[j].to = w.links[i].to => w.links[j].from = n /\ j <= i}

\* The first ready node is ordered, and what waited only for it gets ready.
KahnStep(w, k) ==
  IF k.ready = <<>> THEN k
  ELSE [ready |-> Tail(k.ready) \o Picked(Targets(w), Freed(w, k.order, Head(k.ready))),
        order |-> Append(k.order, Head(k.ready))]

OrderNodes(w) ==
  LET kahn[i \in 0..Len(w.nodes)] ==
        IF i = 0 THEN KahnInit(w) ELSE KahnStep(w, kahn[i - 1])
      sorted == kahn[Len(w.nodes)].order
  IN  sorted \o Picked(w.nodes, {i \in DOMAIN w.nodes : w.nodes[i] \notin Range(sorted)})

Position(order, n) == CHOOSE i \in DOMAIN order : order[i] = n

\* An edge that closes a cycle: its source is not before its target.
IsBack(order, l) == Position(order, l.from) >= Position(order, l.to)

---------------------------------------------------------------------------
(* What the log says of the nodes: each one's latest outcome (0 = none), the *)
(* event's type and value, and its latest start.                            *)

EventsOf(log, n, types) == {i \in DOMAIN log : log[i].node = n /\ log[i].type \in types}

LastOf(log, n, types) == Max(EventsOf(log, n, types) \cup {0})

Fold(w, log) ==
  LET outcome == [n \in Range(w.nodes) |-> LastOf(log, n, OutcomeTypes)]
  IN  [outcome |-> outcome,
       type    |-> [n \in Range(w.nodes) |-> IF outcome[n] = 0 THEN "none" ELSE log[outcome[n]].type],
       val     |-> [n \in Range(w.nodes) |-> IF outcome[n] = 0 THEN "none" ELSE log[outcome[n]].val],
       start   |-> [n \in Range(w.nodes) |-> LastOf(log, n, {"node.started"})]]

---------------------------------------------------------------------------
(* Trigger rules *)

\* A completed source counts as a success unless its edge's condition declines.
Succeeds(st, l) == st.type[l.from] = "node.completed" /\ st.val[l.from] \in l.when

RuleHolds(rule, incoming, st) ==
  LET done == \A l \in incoming : st.outcome[l.from] # 0
      noneFailed == \A l \in incoming : st.type[l.from] # "node.failed"
  IN  CASE rule = "any_success"  -> \E l \in incoming : Succeeds(st, l)
        [] rule = "all_complete" -> done
        [] rule = "none_failed"  -> noneFailed /\ done
        [] rule = "any_failed"   -> ~noneFailed
        [] OTHER                 -> \A l \in incoming : Succeeds(st, l)

\* A node no edge enters always fires; otherwise the rule of its FIRST incoming
\* edge governs all of them.
Fires(w, n, st) ==
  \/ Incoming(w, n) = <<>>
  \/ /\ Incoming(w, n) # <<>>
     /\ RuleHolds(Head(Incoming(w, n)).rule, Range(Incoming(w, n)), st)

\* Over a back edge only an outcome that satisfies the edge's own rule travels.
Delivers(rule, type) ==
  CASE rule = "any_failed"   -> type = "node.failed"
    [] rule = "all_complete" -> type \in {"node.completed", "node.failed"}
    [] OTHER                 -> type = "node.completed"

---------------------------------------------------------------------------
(* The scheduler *)

\* A node owes an evaluation: no outcome yet, an open start, or a source that
\* finished after it.
Owed(w, order, st, n) ==
  \/ st.outcome[n] = 0
  \/ st.start[n] > st.outcome[n]
  \/ \E l \in Links(w) :
        /\ l.to = n
        /\ st.outcome[l.from] > st.outcome[n]
        /\ IsBack(order, l) => Delivers(l.rule, st.type[l.from])

\* A wrong form: the first owed node of the definition, whatever its sources owe.
NextNodeUnordered(w, order, st) ==
  LET eligible == {i \in DOMAIN w.nodes : Owed(w, order, st, w.nodes[i])}
  IN  IF eligible = {} THEN NoNode ELSE w.nodes[Min(eligible)]

\* The first owed node, in order, whose forward sources owe nothing.
NextNode(w, order, st) ==
  LET owed == {n \in Range(w.nodes) : Owed(w, order, st, n)}
      eligible == {i \in DOMAIN order :
                     /\ order[i] \in owed
                     /\ \A l \in Links(w) :
                          l.to = order[i] /\ ~IsBack(order, l) => l.from \notin owed}
  IN  IF eligible = {} THEN NoNode ELSE order[Min(eligible)]

=============================================================================
