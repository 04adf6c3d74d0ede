----------------------------- MODULE Scheduler -----------------------------
(***************************************************************************)
(* The scheduling loop of continueRun over an arbitrary workflow, with      *)
(* every node of the kind that ends in the step that executes it: no        *)
(* suspend, no pause, no cancel, no crash.  What it explores is the GRAPH:   *)
(* every workflow of a set, cyclic ones included, every trigger rule, every  *)
(* edge condition and every sequence of node results.                       *)
(***************************************************************************)
EXTENDS WorkflowGraph

CONSTANTS Workflows,        \* the workflow definitions explored
          Values,           \* the outputs a node can complete with
          RecursionLimit,   \* node starts a run is allowed
          MaxEvents         \* bound on the events, more than RecursionLimit lets a run write

ASSUME BoundsAssumption == RecursionLimit \in Nat \ {0} /\ MaxEvents \in Nat

\* Nodes are known by their ids, which a definition gives once each; links() drops
\* an edge of nodes it does not name.
ASSUME WorkflowsAssumption ==
  \A v \in Workflows :
    /\ v.nodes \in Seq(Range(v.nodes)) /\ IsInjective(v.nodes)
    /\ v.links \in Seq(Links(v)) /\ \A l \in Links(v) : {l.from, l.to} \subseteq Range(v.nodes)

VARIABLES w,                \* the definition of the run
          order,            \* orderNodes of it
          events,           \* its events
          status            \* its status

schedulerVars == <<w, order, events, status>>

Event(type, n, val) == [type |-> type, node |-> n, val |-> val]

State == Fold(w, events)

\* The node started and has no outcome yet.
Open(st, n) == st.start[n] > st.outcome[n]

Starts == Cardinality({i \in DOMAIN events : events[i].type = "node.started"})

SchedulerInit ==
  /\ w \in Workflows
  /\ order = OrderNodes(w)
  /\ events = <<>>
  /\ status = "running"

\* The next node's incoming rule is not satisfied.
Skip(st, n) ==
  /\ ~Fires(w, n, st)
  /\ events' = Append(events, Event("node.skipped", n, "none"))
  /\ UNCHANGED status

\* The next node fires and the run may still start one.
Start(st, n) ==
  /\ Fires(w, n, st) /\ ~Open(st, n)
  /\ Starts < RecursionLimit
  /\ events' = Append(events, Event("node.started", n, "none"))
  /\ UNCHANGED status

\* The next node fires but would exceed the limit: the run fails.
Breach(st, n) ==
  /\ Fires(w, n, st) /\ ~Open(st, n)
  /\ Starts >= RecursionLimit
  /\ events' = Append(events, Event("cap.breached", NoNode, "none"))
  /\ status' = "failed"

\* The node that started completes.
Succeed(st, n) ==
  /\ Open(st, n)
  /\ \E v \in Values : events' = Append(events, Event("node.completed", n, v))
  /\ UNCHANGED status

\* It fails: routed to the edges that admit it, or the end of the run.
FailNode(st, n) ==
  /\ Open(st, n)
  /\ events' = Append(events, Event("node.failed", n, "none"))
  /\ status' = IF FailureRouted(w, n) THEN "running" ELSE "failed"

\* Nothing is owed.
Finish(n) ==
  /\ n = NoNode
  /\ status' = "completed"
  /\ UNCHANGED events

SchedulerNext ==
  /\ status = "running" /\ Len(events) < MaxEvents
  /\ \E st \in {State} : \E n \in {NextNode(w, order, st)} :
       \/ n # NoNode /\ (Skip(st, n) \/ Start(st, n) \/ Breach(st, n) \/ Succeed(st, n) \/ FailNode(st, n))
       \/ Finish(n)
  /\ UNCHANGED <<w, order>>

SchedulerSpec == SchedulerInit /\ [][SchedulerNext]_schedulerVars

---------------------------------------------------------------------------
(* Properties *)

Nodes == Range(w.nodes)

Acyclic(v) ==
  \E rank \in [Range(v.nodes) -> 1..Len(v.nodes)] :
    \A l \in Links(v) : rank[l.from] < rank[l.to]

\* orderNodes loses no node, repeats none, and puts every edge of an acyclic
\* definition forward, whatever the order nodes[] and edges[] are written in.
OrderSound ==
  /\ Range(order) = Nodes /\ Len(order) = Len(w.nodes)
  /\ Acyclic(w) => \A l \in Links(w) : ~IsBack(order, l)

\* The edges into n that close no cycle.
Forward(n) == {l \in Links(w) : l.to = n /\ ~IsBack(order, l)}

\* A node that starts has sources decided after their own.
FreshInputs ==
  Len(events') > Len(events) /\ events'[Len(events')].type = "node.started"
    => \A l \in Forward(events'[Len(events')].node) :
         /\ State.outcome[l.from] # 0
         /\ \A src \in Forward(l.from) : State.outcome[src.from] < State.outcome[l.from]

\* A node never runs on a stale input: when it starts, each source it has over a
\* forward edge was decided, and not before one of that source's own forward
\* sources was decided again - a lap of a loop is not overtaken by the next one.
NoStaleInput == [][FreshInputs]_schedulerVars

=============================================================================
