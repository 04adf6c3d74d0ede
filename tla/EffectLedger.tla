---------------------------- MODULE EffectLedger ----------------------------
(***************************************************************************)
(* The Layer-2 effect ledger of the v2 reference host: what core.httpFetch   *)
(* does around its request (effects.ts performHttpFetch, the effects table   *)
(* of store.ts), inside runs that visit the node again and again, under      *)
(* transport retries, a run delivered twice, a kill and the re-entry at      *)
(* boot, and several runs whose fetches are one business operation.          *)
(*                                                                           *)
(* A loop gives the thread away only where it awaits a request or another    *)
(* loop's outcome.  Between those points it is Busy, and nothing but a kill  *)
(* or the continuations of the same turn come in.                            *)
(***************************************************************************)
EXTENDS Integers, Sequences, FiniteSetsExt

CONSTANTS Runs,             \* runs, with one core.httpFetch node each
          Operations,       \* business operations (businessKey)
          TransportRetries, \* transport retries of a fetch
          MaxExecutions,    \* bound: executions of the node in one run
          MaxCrashes        \* bound: times the process is killed

ASSUME LedgerAssumption ==
  TransportRetries \in Nat /\ MaxExecutions \in Nat /\ MaxCrashes \in Nat

VARIABLES op,               \* the business operation of each run
          accepted,         \* durable: each run's deliveries and executions of the node
          rows,             \* durable: the effects table
          log,              \* durable: how each execution of the node ended
          loops,            \* volatile: where each delivery of a run is
          inFlight,         \* volatile: the attempts this process is making
          up, crashes

vars == <<op, accepted, rows, log, loops, inFlight, up, crashes>>

---------------------------------------------------------------------------
(* Deliveries.  A loop is a call of continueRun; the durability seam calls it *)
(* twice in one turn for a run it stages, whose one node it makes attempt     *)
(* the request once.                                                          *)

Loops == Runs \X {1, 2}

RunOf(l) == l[1]

Off == [at |-> "off"]

Started == [at |-> "begin"]

Idle == [l \in Loops |-> Off]

Busy == {l \in Loops : loops[l].at \in {"begin", "retry", "resolved", "thrown"}}

ThreadFree == up /\ Busy = {} /\ \A l \in Loops : loops[l].at # "released"

\* How a run may be accepted: its workflow visits the node one or more times.
Acceptances == [times : {1}, visits : 1..MaxExecutions] \cup [times : {2}, visits : {1}]

NotYet == [times |-> 0, visits |-> 0]

Retries(r) == IF accepted[r].times = 2 THEN 0 ELSE TransportRetries

Over(r) == Len(log[r]) >= accepted[r].visits

---------------------------------------------------------------------------
(* The table *)

\* claimEffect: insert, unless the primary key is taken.
Claim(r, id, attempt, n, state, outcome) ==
  IF \E row \in rows : row.run = r /\ row.id = id /\ row.attempt = attempt THEN rows
  ELSE rows \cup {[run |-> r, id |-> id, attempt |-> attempt, execution |-> n,
                   key |-> op[r], state |-> state, outcome |-> outcome]}

\* updateEffect of one attempt.
Update(r, id, attempt, state, outcome) ==
  {IF row.run = r /\ row.id = id /\ row.attempt = attempt
   THEN [row EXCEPT !.state = state, !.outcome = outcome] ELSE row : row \in rows}

First(S) == {row \in S : \A other \in S : row.attempt <= other.attempt}

\* A wrong form: an identity is looked up in the run's own rows only.
IdentityOfRun(r) ==
  LET same == {row \in rows : row.key = op[r] /\ row.run = r}
  IN  IF same = {} THEN {r} ELSE {row.id : row \in First(same)}

\* The effect id of r's operation: the one assigned already, or a fresh one,
\* named here after the run that assigns it.
Identity(r) ==
  LET same == {row \in rows : row.key = op[r]}
  IN  IF same = {} THEN {r} ELSE {row.id : row \in First(same)}

\* The first completed attempt at the operation, in any run.
CompletedEffect(r) == First({row \in rows : row.key = op[r] /\ row.state = "completed"})

Prior(r, id) == {row \in rows : row.run = r /\ row.id = id}

Mine(r, id, n) == {row \in Prior(r, id) : row.execution = n}

\* What an execution of this run performed.
Performed(r, id) == First({row \in Prior(r, id) : row.state = "completed" /\ row.outcome # "error"})

---------------------------------------------------------------------------
(* One execution of the node *)

\* A wrong form: an execution that failed does not count.
ExecutionOfCompletions(r) == 1 + Len(SelectSeq(log[r], LAMBDA e : e.type = "completed"))

\* The ordinal of the execution that is due.
Execution(r) == 1 + Len(log[r])

Resolved(n, outcome) == [at |-> "resolved", execution |-> n, outcome |-> outcome]

Fetch(n, id, base) == [at |-> "fire", execution |-> n, id |-> id, base |-> base, i |-> 0]

Attempt(f) == f.base + f.i + 1

Flight(f) == <<f.id, Attempt(f)>>

\* The loops of this process making attempt f, as a loop that lost its claim sees them.
Holders(l, f) ==
  IF \E row \in Prior(RunOf(l), f.id) : row.attempt = Attempt(f)
  THEN {e.holder : e \in {e \in inFlight : e.flight = Flight(f)}} ELSE {}

\* Transport attempt f: it was made already; or this process is making it; or
\* it is l's to make, claimed now or taken over from a dead process.
Try(l, f) ==
  LET made == {row \in Prior(RunOf(l), f.id) : row.attempt = Attempt(f) /\ row.outcome # "none"}
  IN  \/ \E row \in made :
           /\ loops' = [loops EXCEPT ![l] = Resolved(f.execution, row.outcome)]
           /\ UNCHANGED <<rows, inFlight>>
      \/ /\ made = {}
         /\ \E h \in Holders(l, f) :
              loops' = [loops EXCEPT ![l] = [at |-> "wait", execution |-> f.execution, on |-> h]]
         /\ UNCHANGED <<rows, inFlight>>
      \/ /\ made = {} /\ Holders(l, f) = {}
         /\ rows' = Claim(RunOf(l), f.id, Attempt(f), f.execution, "claimed", "none")
         /\ inFlight' = {e \in inFlight : e.flight # Flight(f)} \cup {[flight |-> Flight(f), holder |-> l]}
         /\ loops' = [loops EXCEPT ![l] = [f EXCEPT !.at = "fire"]]

\* Another run performed the operation: mirror its outcome.
Mirror(l, n, id, done) ==
  /\ rows' = Claim(RunOf(l), id, 1, n, "completed", done.outcome)
  /\ loops' = [loops EXCEPT ![l] = Resolved(n, done.outcome)]
  /\ UNCHANGED inFlight

\* Nobody did, or this run itself: a re-delivery reuses its own attempts, a
\* later execution takes the record or goes on after the failed attempts.
Perform(l, n, id) ==
  LET r == RunOf(l)
      attempts(S) == {row.attempt : row \in S}
  IN  \/ /\ Mine(r, id, n) # {}
         /\ Try(l, Fetch(n, id, Min(attempts(Mine(r, id, n))) - 1))
      \/ /\ Mine(r, id, n) = {}
         /\ \E row \in Performed(r, id) :
              loops' = [loops EXCEPT ![l] = Resolved(n, row.outcome)]
         /\ UNCHANGED <<rows, inFlight>>
      \/ /\ Mine(r, id, n) = {} /\ Performed(r, id) = {}
         /\ Try(l, Fetch(n, id, Max(attempts(Prior(r, id)) \cup {0})))

\* The top of the loop: the run is over, or the node is executed once more.
Begin(l) ==
  LET r == RunOf(l)
      done == CompletedEffect(r)
  IN  /\ up /\ loops[l].at = "begin"
      /\ \/ /\ Over(r)
            /\ loops' = [loops EXCEPT ![l] = Off]
            /\ UNCHANGED <<rows, inFlight>>
         \/ /\ ~Over(r)
            /\ \E id \in Identity(r) :
                 \/ \E row \in done : row.run # r /\ Mirror(l, Execution(r), id, row)
                 \/ (done = {} \/ \E row \in done : row.run = r) /\ Perform(l, Execution(r), id)
      /\ UNCHANGED <<op, accepted, log, up, crashes>>

\* The next transport attempt of an execution.
Retry(l) ==
  /\ up /\ loops[l].at = "retry"
  /\ Try(l, loops[l])
  /\ UNCHANGED <<op, accepted, log, up, crashes>>

\* Another transport attempt is left.
More(f, r) == f.i < Retries(r)

\* settle: the loops that learn l's outcome.
Waiters(l) == {w \in Loops : loops[w].at = "wait" /\ loops[w].on = l}

\* l's request is answered, refused by a gateway, or fails (a timeout, a reset
\* or a refusal of the egress guard): the outcome is recorded, whoever waits
\* for it learns it, and l retries, throws or goes on with it.
Answer(l, o) ==
  LET f == loops[l]
      r == RunOf(l)
      again == o # "ok" /\ More(f, r)
      performed == o # "error" /\ ~again
  IN  /\ ThreadFree /\ f.at = "fire"
      /\ rows' = Update(r, f.id, Attempt(f), IF performed THEN "completed" ELSE "released", o)
      /\ inFlight' = {e \in inFlight : e.flight # Flight(f)}
      /\ loops' = [w \in Loops |->
           IF w \in Waiters(l) THEN [at |-> "released", execution |-> loops[w].execution, outcome |-> o]
           ELSE IF w # l THEN loops[w]
           ELSE IF again THEN [f EXCEPT !.at = "retry", !.i = @ + 1]
           ELSE IF performed THEN Resolved(f.execution, o)
           ELSE [at |-> "thrown", execution |-> f.execution]]
      /\ UNCHANGED <<op, accepted, log, up, crashes>>

\* The holder's own return is queued before those of the loops that waited.
Wake(l) ==
  /\ up /\ Busy = {} /\ loops[l].at = "released"
  /\ loops' = [loops EXCEPT ![l] = Resolved(@.execution, @.outcome)]
  /\ UNCHANGED <<op, accepted, rows, log, inFlight, up, crashes>>

\* The log, read again after the await, shows the end of r's execution n.
EndedMeanwhile(r, n) == Len(log[r]) >= n

\* The node completes, unless the other delivery ended this execution.
Complete(l) ==
  LET r == RunOf(l)
      n == loops[l].execution
  IN  /\ up /\ loops[l].at = "resolved"
      /\ log' = IF EndedMeanwhile(r, n) THEN log
                ELSE [log EXCEPT ![r] = Append(@, [type |-> "completed", outcome |-> loops[l].outcome, execution |-> n])]
      /\ loops' = [loops EXCEPT ![l] = Started]
      /\ UNCHANGED <<op, accepted, rows, inFlight, up, crashes>>

\* The node fails, and the run goes on along its failure edge.
Fail(l) ==
  /\ up /\ loops[l].at = "thrown"
  /\ log' = [log EXCEPT ![RunOf(l)] = Append(@, [type |-> "failed", outcome |-> "error", execution |-> loops[l].execution])]
  /\ loops' = [loops EXCEPT ![l] = Started]
  /\ UNCHANGED <<op, accepted, rows, inFlight, up, crashes>>

---------------------------------------------------------------------------
(* The process *)

\* A run is accepted and delivered, or staged by the seam and delivered twice.
Accept(r) ==
  /\ ThreadFree /\ accepted[r] = NotYet
  /\ \E how \in Acceptances :
       /\ accepted' = [accepted EXCEPT ![r] = how]
       /\ loops' = [l \in Loops |-> IF RunOf(l) = r /\ l[2] <= how.times THEN Started ELSE loops[l]]
  /\ UNCHANGED <<op, rows, log, inFlight, up, crashes>>

\* Killed at any point: what is not in the database is gone.
Crash ==
  /\ up /\ crashes < MaxCrashes
  /\ up' = FALSE /\ crashes' = crashes + 1
  /\ loops' = Idle /\ inFlight' = {}
  /\ UNCHANGED <<op, accepted, rows, log>>

\* Every run that is not over is delivered again, once.
Boot ==
  /\ ~up /\ up' = TRUE
  /\ loops' = [l \in Loops |-> IF l[2] = 1 /\ ~Over(RunOf(l)) THEN Started ELSE Off]
  /\ UNCHANGED <<op, accepted, rows, log, inFlight, crashes>>

Init ==
  /\ op \in [Runs -> Operations]
  /\ accepted = [r \in Runs |-> NotYet]
  /\ rows = {} /\ log = [r \in Runs |-> <<>>]
  /\ loops = Idle /\ inFlight = {}
  /\ up = TRUE /\ crashes = 0

Outcomes == {"ok", "gateway", "error"}

Step(l) == Begin(l) \/ Retry(l) \/ (\E o \in Outcomes : Answer(l, o)) \/ Wake(l) \/ Complete(l) \/ Fail(l)

Next == (\E r \in Runs : Accept(r)) \/ (\E l \in Loops : Step(l)) \/ Crash \/ Boot

Spec == Init /\ [][Next]_vars

\* Every request ends (timeoutMs), what can run runs, a killed process is restarted.
FairSpec == Spec /\ WF_vars(Boot \/ \E l \in Loops : Step(l))

---------------------------------------------------------------------------
(* What is promised *)

Flying(l) == loops[l].at \in {"fire", "retry"}

\* An operation has one effect id, whichever run, execution or attempt presents
\* it, so the provider sees one Idempotency-Key (effects.ts:167-170).
OneIdentity ==
  \A row, other \in rows : row.key = other.key => row.id = other.id

\* A failed fetch fails its node (effects.ts:98-102): no execution completes
\* with the outcome of a request that was not answered.
FailedFetchFailsNode ==
  \A r \in Runs : \A i \in DOMAIN log[r] : log[r][i].type = "completed" => log[r][i].outcome # "error"

\* Every delivery of a run comes to its end, and every accepted run with it: no
\* loop waits for an attempt nobody makes.
EveryDeliveryReturns ==
  <>[](up /\ loops = Idle /\ \A r \in Runs : accepted[r] # NotYet => Over(r))
=============================================================================
