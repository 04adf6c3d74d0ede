--------------------------- MODULE HostStatements ---------------------------
(***************************************************************************)
(* What the models of the example hosts share: the statuses of a run, and    *)
(* the statements the programs of their executors and handlers are made of.  *)
(***************************************************************************)
EXTENDS Naturals, FiniteSets, Sequences, SequencesExt

Terminal == {"completed", "failed", "cancelled"}
Waiting == {"waiting-approval", "waiting-input", "waiting-external"}

NoParent == [run |-> "none", node |-> 0, worker |-> 0]

\* A statement: on no run in particular, an append, a status, on a run, a node's outcome.
Do(op) == [op |-> op]
Ev(r, type, n) == [op |-> "append", run |-> r, type |-> type, node |-> n]
Set(r, status) == [op |-> "set", run |-> r, status |-> status]
Of(op, r) == [op |-> op, run |-> r]
Out(outcome) == [op |-> "out", outcome |-> outcome]

\* Of a run's log, a bag of events: whether an event is in it, and how many of a type.
In(events, type, n) == BagIn(<<type, n>>, events)
CountOf(events, type) == BagCardinality([e \in {x \in DOMAIN events : x[1] = type} |-> events[e]])

With(events, type, n) == events (+) SetToBag({<<type, n>>})
=============================================================================
