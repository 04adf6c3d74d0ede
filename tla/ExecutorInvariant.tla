------------------------- MODULE ExecutorInvariant -------------------------
(***************************************************************************)
(* Why the gates of the executor hold: the invariant of one run's rows that *)
(* every single statement preserves, so that no kill between two statements  *)
(* and no request decided on a stale row can break it.                      *)
(***************************************************************************)
EXTENDS Executor

EventsOfType(log, types) == {i \in DOMAIN log : log[i].type \in types}

\* A terminal status has its event on the log.
Witnessed(d) ==
  /\ d.status = "completed" => EventsOfType(d.log, {"run.completed"}) # {}
  /\ d.status = "failed"    => EventsOfType(d.log, {"run.failed"}) # {}
  /\ d.status = "cancelled" => EventsOfType(d.log, {"run.cancelled"}) # {}

\* A recorded resolution is a decision on an interrupt that was minted and is
\* not open any more.
DecisionsClosed(d) ==
  /\ d.open \subseteq d.minted
  /\ \A i \in EventsOfType(d.log, {"interrupt.resolved"}) :
       /\ d.log[i].val \in {"granted", "rejected"}
       /\ <<d.log[i].node, d.log[i].visit>> \in d.minted \ d.open

\* No interrupt is decided twice.
DecidedOnce(d) ==
  \A i, j \in EventsOfType(d.log, {"interrupt.resolved"}) :
    d.log[i].node = d.log[j].node /\ d.log[i].visit = d.log[j].visit => i = j

\* An open interrupt of a gate belongs to the visit the gate is on, and the gate
\* has no decision it has not yet acted upon.
OpenIsCurrent(w, d) ==
  \A key \in d.open :
    key[1] \in Gates(w) =>
      key[2] = Visit(d.log, key[1]) /\ ~Resumed(d.log, key[1]) /\ ~Resolved(d.log, key[1])

\* A gate that resumed and has not ended stands on a granted decision.
ResumedIsGranted(w, d) ==
  \A n \in Gates(w) : Resumed(d.log, n) => GrantedBefore(d.log, n, Len(d.log) + 1)

\* So does every completion of a gate.
Gated(w, d) ==
  \A i \in EventsOfType(d.log, {"node.completed"}) :
    d.log[i].node \in Gates(w) => GrantedBefore(d.log, d.log[i].node, i)

RowInv(w, d) ==
  /\ d \in Rows
  /\ Witnessed(d)
  /\ DecisionsClosed(d) /\ DecidedOnce(d)
  /\ OpenIsCurrent(w, d) /\ ResumedIsGranted(w, d)
  /\ Gated(w, d)

\* The inductive invariant.
Consistent == TypeOK /\ \A r \in Runs : RowInv(wf[r], file[r])
=============================================================================
