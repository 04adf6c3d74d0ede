----------------------------- MODULE SqliteHost -----------------------------
(***************************************************************************)
(* The run lifecycle of the sqlite host (sqlite/src/server.ts,              *)
(* interrupts.ts): one process at a time over a database file.              *)
(*                                                                          *)
(* Every statement is synchronous.  What a process runs between two events   *)
(* of its event loop is its queue of threads: the first runs until it waits  *)
(* for a timer or a body (it leaves the queue), awaits its node's outcome     *)
(* (it goes to the end) or is over; only then, and with the queue empty, does *)
(* the loop take the next event.  A crash can come after any statement.  A     *)
(* claim is a lease in the run's row: a dead process's lapses with time, and    *)
(* orphans are sought once, when a process starts.                           *)
(***************************************************************************)
EXTENDS HostStatements

CONSTANTS Roots, Kids, \* ids of the runs clients create, of those nodes create
          Flow,        \* workflow -> the kinds of its nodes, in order
          RootFlows,   \* the workflows clients create runs of
          ChildFlow,   \* the workflow of a child
          Plan,        \* mockDispatchPlan: the workers of each decision
          Limit,       \* recursionLimit
          Voters, Required, Policy,  \* of an approval gate
          MaxThreads,  \* bound: threads
          Bound        \* bounds, by root workflow: requests, crashes, deadlines and shutdowns

ASSUME SqliteAssumption ==
  /\ Roots \cap Kids = {} /\ RootFlows \cup {ChildFlow} \subseteq DOMAIN Flow
  /\ \A f \in DOMAIN Flow : Flow[f] \in Seq(STRING)
  /\ Policy \in {"first", "majority"} /\ Required \in Nat \ {0} /\ Plan \in Seq(Nat) /\ Limit \in Nat \ {0}
  /\ IsFiniteSet(Roots \cup Kids) /\ MaxThreads \in Nat \ {0}
  /\ \A f \in RootFlows : {Bound[f].calls, Bound[f].faults, Bound[f].stops} \subseteq Nat

VARIABLES runs,       \* durable: the runs table, with the claim on each run
          log,        \* durable: how often each run appended each event
          interrupts, \* durable: the interrupts table
          keyed,      \* durable: the runs the idempotency table replays, all under one key
          life,       \* which process it is (PROCESS_ID)
          up,         \* whether it is alive
          queue,      \* volatile: the threads that run before the event loop goes on
          th,         \* volatile: the threads
          calls, faults, stops,
          cast        \* history: voters whose last vote is to accept a gate as it is, by run and node

vars == <<runs, log, interrupts, keyed, life, up, queue, th, calls, faults, stops, cast>>

---------------------------------------------------------------------------
(* Values *)

Runs == Roots \cup Kids
Slots == 1..MaxThreads
Nodes == {0} \cup UNION {DOMAIN Flow[f] : f \in DOMAIN Flow}

\* row: next_node_index as a handler read it; ballot: the vote it carries.
Idle == [kind |-> "free", run |-> "none", at |-> 0, worker |-> 0, child |-> "none", aborted |-> FALSE,
         late |-> FALSE, row |-> 0, node |-> 0, ballot |-> <<>>, todo |-> <<>>]

Kind(r, n) == Flow[runs[r].flow][n]
Length(r) == Len(Flow[runs[r].flow])
Logged(r, type, n) == In(log[r], type, n)
Open(r, n) == interrupts[r][n].state = "open"
NoRow == [state |-> "none", votes |-> {}]

Executors(r) == {t \in Slots : th[t].kind = "exec" /\ th[t].run = r}

\* The bounds in force: those of the workflows of the runs there are.
InForce == {Bound[runs[r].flow] : r \in {x \in Roots : runs[x].status # "none"}}
MayCall == \E b \in InForce : calls < b.calls
MayFail == \E b \in InForce : faults < b.faults
MayStop == \E b \in InForce : stops < b.stops

FreeSlots == {t \in Slots : th[t].kind = "free"}
NewSlot == CHOOSE t \in FreeSlots : \A s \in FreeSlots : t <= s
Handler(r, todo) == [Idle EXCEPT !.kind = "call", !.run = r, !.todo = todo]

---------------------------------------------------------------------------
(* Programs *)

Completed(r, n) == <<Ev(r, "node.completed", n), Out("completed")>>
Failed(r, n) == <<Ev(r, "node.failed", n), Out("failed")>>
Abandoned(r, n) == <<Ev(r, "node.cancelled", n), Out("cancelled")>>
Suspends(r, n) == <<Do("mint"), Ev(r, "node.suspended", n), Out("suspended")>>

\* setRunTerminal
Ends(r, status) == <<Set(r, status), Of("release", r)>>
Fails(r) == <<Ev(r, "run.failed", 0)>> \o Ends(r, "failed")
Cancels(r) == <<Ev(r, "run.cancelled", 0)>> \o Ends(r, "cancelled")
FailRunDuration(r) == <<Ev(r, "cap.breached", 0)>> \o Fails(r)
Recursion(r, n) == <<Ev(r, "cap.breached", n)>> \o Fails(r)

\* A memory entry is best effort: it may be missing.
Completes(r) ==
  LET ended == <<Ev(r, "run.completed", 0)>> \o Ends(r, "completed")
  IN  {<<Ev(r, "memory.written", 0)>> \o ended, ended}

SecretEcho(r, n) == {Completed(r, n), Failed(r, n)}
ChannelWrite(r, n) == {<<Ev(r, "channel.written", n)>> \o Completed(r, n), Failed(r, n)}
CostEmit(r, n) == {Completed(r, n)}
ApprovalGate(r, n) == {Suspends(r, n)}
ClarificationGate(r, n) == {Suspends(r, n)}
Interrupt(r, n) == {Suspends(r, n), Failed(r, n)}
Supervisor(r, n) == {<<Ev(r, "runOrchestrator.decided", n)>> \o Completed(r, n)}
SubWorkflow(r, n) == {<<Do("find")>>, Failed(r, n)}

\* The programs of a node's executeNode, one for each way its data may decide.
Body(r, n) ==
  LET kind == Kind(r, n) IN
  CASE kind \in {"noop", "identity"} -> {Completed(r, n)}
    [] kind = "secret" -> SecretEcho(r, n)
    [] kind = "channel" -> ChannelWrite(r, n)
    [] kind = "cost" -> CostEmit(r, n)
    [] kind = "delay" -> {<<Do("sleep")>>}
    [] kind = "approval" -> ApprovalGate(r, n)
    [] kind = "clarification" -> ClarificationGate(r, n)
    [] kind = "external" -> Interrupt(r, n)
    [] kind = "supervisor" -> Supervisor(r, n)
    [] kind = "dispatch" -> {<<Do("dispatch")>>}
    [] kind = "sub" -> SubWorkflow(r, n)
    [] OTHER -> {Failed(r, n)}

\* executeNode up to its switch: a missing capability refuses the node unstarted.
Enters(r, n) ==
  CASE Kind(r, n) = "requires" -> {<<Out("failed")>>}
    [] Kind(r, n) = "model" -> {<<Ev(r, "model.capability.insufficient", n)>> \o Failed(r, n)}
    [] OTHER -> {<<Ev(r, "node.started", n)>> \o body : body \in Body(r, n)}

---------------------------------------------------------------------------
(* The event loop *)

Counters == <<calls, faults, stops>>
Process == <<life, up>>
Tables == <<runs, log, interrupts, keyed>>

At(t, op) == queue # <<>> /\ Head(queue) = t /\ th[t].todo # <<>> /\ Head(th[t].todo).op = op
First(t) == Head(th[t].todo)
Rest(t) == Tail(th[t].todo)

\* An aborted wait is over as soon as what runs now has awaited something.
Parks(thread) ==
  LET op == Head(thread.todo).op IN op = "body" \/ (op \in {"sleep", "nap"} /\ ~thread.aborted)

\* The queue once its first thread has become this.
After(thread) ==
  IF thread.todo = <<>> \/ Parks(thread) THEN Tail(queue)
  ELSE IF Head(thread.todo).op \in {"out", "sleep", "nap"} THEN Append(Tail(queue), Head(queue))
  ELSE queue

Becomes(t, thread) ==
  /\ th' = [th EXCEPT ![t] = IF thread.todo = <<>> THEN Idle ELSE thread]
  /\ queue' = After(thread)

Goes(t, todo) == Becomes(t, [th[t] EXCEPT !.todo = todo])
Then(t, more) == Goes(t, more \o Rest(t))

\* The loop takes an event that starts, or goes on with, thread t.
Takes(t, thread) == up /\ queue = <<>> /\ queue' = <<t>> /\ th' = [th EXCEPT ![t] = thread]
Parked(t, op) == th[t].todo # <<>> /\ Head(th[t].todo).op = op

---------------------------------------------------------------------------
(* One statement *)

AppendEvent(t) ==
  LET e == First(t) IN
  /\ At(t, "append")
  /\ log' = [log EXCEPT ![e.run] = With(@, e.type, e.node)]
  /\ Then(t, <<>>)
  /\ UNCHANGED <<runs, interrupts, keyed, Process, Counters, cast>>

\* updateRunStatus
SetStatus(t) ==
  /\ At(t, "set")
  /\ runs' = [runs EXCEPT ![First(t).run].status = First(t).status]
  /\ Then(t, <<>>)
  /\ UNCHANGED <<log, interrupts, keyed, Process, Counters, cast>>

ReleaseClaim(t) ==
  LET r == First(t).run IN
  /\ At(t, "release")
  /\ runs' = IF runs[r].holder = life THEN [runs EXCEPT ![r].holder = 0, ![r].fresh = FALSE] ELSE runs
  /\ Then(t, <<>>)
  /\ UNCHANGED <<log, interrupts, keyed, Process, Counters, cast>>

---------------------------------------------------------------------------
(* The executor *)

Claimable(r) == (runs[r].holder = 0 \/ ~runs[r].fresh) /\ runs[r].status \notin Terminal

\* tryClaim and, if it was won, runWorkflow up to its loop: it runs before its
\* caller goes on.
Launch(t) ==
  LET r == First(t).run
      event == IF Logged(r, "run.started", 0) THEN "run.resumed" ELSE "run.started"
      executor == [Idle EXCEPT !.kind = "exec", !.run = r, !.at = runs[r].next,
                               !.todo = <<Set(r, "running"), Ev(r, event, 0), Do("next")>>]
      caller == [th[t] EXCEPT !.todo = Rest(t)]
  IN  /\ At(t, "launch")
      /\ IF ~Claimable(r) THEN Then(t, <<>>) /\ UNCHANGED runs
         ELSE /\ FreeSlots # {}
              /\ runs' = [runs EXCEPT ![r].holder = life, ![r].fresh = TRUE]
              /\ th' = [th EXCEPT ![t] = IF caller.todo = <<>> THEN Idle ELSE caller, ![NewSlot] = executor]
              /\ queue' = <<NewSlot>> \o After(caller)
      /\ UNCHANGED <<log, interrupts, keyed, Process, Counters, cast>>

\* A claim nobody renews expires; a live process's heartbeat renews its own.
Lapse(r) ==
  /\ runs[r].fresh /\ ~(up /\ runs[r].holder = life)
  /\ runs' = [runs EXCEPT ![r].fresh = FALSE]
  /\ UNCHANGED <<log, interrupts, keyed, Process, queue, th, Counters, cast>>

\* The head of the loop, or its end.
NextNode(t) ==
  LET r == th[t].run
      n == th[t].at
      over == n > Length(r)
      todo == IF ~over /\ n > Limit THEN {Recursion(r, n)}
              ELSE IF runs[r].status = "cancelling" THEN {Cancels(r)}
              ELSE IF over THEN Completes(r)
              ELSE Enters(r, n)
  IN  /\ At(t, "next")
      /\ \E more \in todo : Goes(t, more)
      /\ UNCHANGED <<Tables, Process, Counters, cast>>

WaitingFor(kind) ==
  CASE kind = "clarification" -> "waiting-input"
    [] kind = "external" -> "waiting-external"
    [] OTHER -> "waiting-approval"

SupervisorOf(r) == CHOOSE n \in 1..Length(r) :
  Kind(r, n) = "supervisor" /\ \A m \in 1..Length(r) : Kind(r, m) = "supervisor" => n <= m

\* What the loop does with the node's outcome; a deadline that fired comes first.
Outcome(t) ==
  LET r == th[t].run
      n == th[t].at
      o == IF th[t].late THEN "late" ELSE First(t).outcome
      goes(at) == Becomes(t, [th[t] EXCEPT !.at = at, !.todo = <<Do("next")>>])
  IN  /\ At(t, "out")
      /\ CASE o = "late" -> Goes(t, FailRunDuration(r)) /\ UNCHANGED runs
           [] o = "failed" -> Goes(t, Fails(r)) /\ UNCHANGED runs
           [] o = "cancelled" -> Goes(t, Cancels(r)) /\ UNCHANGED runs
           [] o = "completed" -> goes(n + 1) /\ runs' = [runs EXCEPT ![r].next = n + 1]
           [] o = "loopback" -> goes(SupervisorOf(r)) /\ runs' = [runs EXCEPT ![r].next = SupervisorOf(r)]
           [] o = "suspended" -> /\ Goes(t, <<Of("release", r)>>)
                                 /\ runs' = [runs EXCEPT ![r].status = WaitingFor(Kind(r, n)), ![r].next = n]
      /\ UNCHANGED <<log, interrupts, keyed, Process, Counters, cast>>

\* The run's wall-clock timer: it wakes what its executor waits for.
Deadline(t) ==
  /\ th[t].kind = "exec" /\ ~th[t].late
  /\ MayFail /\ faults' = faults + 1
  /\ Takes(t, [th[t] EXCEPT !.late = TRUE, !.aborted = TRUE])
  /\ UNCHANGED <<Tables, Process, calls, stops, cast>>

---------------------------------------------------------------------------
(* Nodes that wait *)

\* core.delay elapses.
DelayOver(t) ==
  /\ Parked(t, "sleep") /\ Takes(t, [th[t] EXCEPT !.todo = Completed(th[t].run, th[t].at)])
  /\ UNCHANGED <<Tables, Process, Counters, cast>>

\* core.delay is aborted.
DelayAborted(t) ==
  /\ At(t, "sleep") /\ Goes(t, Abandoned(th[t].run, th[t].at))
  /\ UNCHANGED <<Tables, Process, Counters, cast>>

\* A wrong form: a resolved row stays.
MintedOnce(row) == IF row.state = "none" THEN [state |-> "open", votes |-> {}] ELSE row

\* createInterrupt: a resolved row is replaced, an active one left alone.
Minted(row) == IF row.state = "open" THEN row ELSE [state |-> "open", votes |-> {}]

CreateInterrupt(t) ==
  LET r == th[t].run  n == th[t].at IN
  /\ At(t, "mint")
  /\ interrupts' = [interrupts EXCEPT ![r][n] = Minted(@)]
  /\ cast' = IF Open(r, n) THEN cast ELSE [cast EXCEPT ![r][n] = {}]
  /\ Then(t, <<>>)
  /\ UNCHANGED <<runs, log, keyed, Process, Counters>>

---------------------------------------------------------------------------
(* Nodes with children *)

Existing(r, n, w) == {c \in Kids : runs[c].status # "none" /\ runs[c].parent = [run |-> r, node |-> n, worker |-> w]}
FreshKids == {c \in Kids : runs[c].status = "none"}

\* The child on record is taken up; else one is inserted, announced and launched.
FindChild(t) ==
  LET there == Existing(th[t].run, th[t].at, th[t].worker)
      takes(c, todo) == Becomes(t, [th[t] EXCEPT !.child = c, !.todo = todo])
  IN  /\ At(t, "find")
      /\ IF there # {} THEN takes(CHOOSE c \in there : TRUE, <<Do("poll")>>)
         ELSE /\ FreshKids # {}
              /\ LET c == CHOOSE x \in FreshKids : TRUE IN
                 takes(c, <<Do("insert"), Ev(th[t].run, "node.dispatched", th[t].at), Of("launch", c), Do("poll")>>)
      /\ UNCHANGED <<Tables, Process, Counters, cast>>

InsertChild(t) ==
  /\ At(t, "insert")
  /\ runs' = [runs EXCEPT ![th[t].child].status = "pending",
                          ![th[t].child].parent = [run |-> th[t].run, node |-> th[t].at, worker |-> th[t].worker]]
  /\ Then(t, <<>>)
  /\ UNCHANGED <<log, interrupts, keyed, Process, Counters, cast>>

\* One poll of core.subWorkflow: its own cancellation, then the child, mirrored
\* onto the parent while it waits.
PollSub(t) ==
  LET r == th[t].run
      n == th[t].at
      own == runs[r].status
      child == runs[th[t].child].status
      mirrored == IF child \in Waiting THEN child ELSE "running"
      resumes == <<Ev(r, "node.completed", n), Set(r, "running"), Out("completed")>>
      todo == IF own = "cancelling" THEN {<<Of("cascade", th[t].child)>> \o Abandoned(r, n), Abandoned(r, n)}
              ELSE IF child = "completed" THEN {resumes}
              ELSE IF child = "failed" THEN {resumes, Failed(r, n)}
              ELSE IF child = "cancelled" THEN {Abandoned(r, n)}
              ELSE IF own # mirrored THEN {<<Set(r, mirrored), Do("nap")>>}
              ELSE {<<Do("nap")>>}
  IN  /\ At(t, "poll") /\ Kind(r, n) = "sub"
      /\ \E more \in todo : Goes(t, more)
      /\ UNCHANGED <<Tables, Process, Counters, cast>>

\* The next worker of a decision; or there is none, or its workflow is unknown.
NextWorker(r, n) == {<<Do("find")>>, Failed(r, n)}

\* core.dispatch: the workers of the latest decision, none of which terminates.
DispatchNode(t) ==
  LET r == th[t].run
      n == th[t].at
      decisions == CountOf(log[r], "runOrchestrator.decided")
      decided == \E m \in Nodes : Logged(r, "runOrchestrator.decided", m)
  IN  /\ At(t, "dispatch")
      /\ \E todo \in IF ~decided THEN {Failed(r, n)}
                   ELSE IF decisions > Len(Plan) THEN {Completed(r, n)} ELSE NextWorker(r, n) :
           Becomes(t, [th[t] EXCEPT !.worker = 0, !.todo = todo])
      /\ UNCHANGED <<Tables, Process, Counters, cast>>

\* One poll of core.dispatch: the next worker, or back to the supervisor.
PollWorker(t) ==
  LET r == th[t].run
      n == th[t].at
      child == runs[th[t].child].status
      last == th[t].worker + 1 = Plan[CountOf(log[r], "runOrchestrator.decided")]
      supervised == \E m \in 1..Length(r) : Kind(r, m) = "supervisor"
      done == <<Ev(r, "node.completed", n)>> \o IF supervised THEN <<Out("loopback")>> ELSE <<Set(r, "running"), Out("completed")>>
      goes(worker, todo) == Becomes(t, [th[t] EXCEPT !.worker = worker, !.todo = todo])
  IN  /\ At(t, "poll") /\ Kind(r, n) = "dispatch"
      /\ IF runs[r].status = "cancelling" THEN Goes(t, <<Of("cascade", th[t].child)>> \o Abandoned(r, n))
         ELSE IF child = "completed"
              THEN \/ last /\ goes(0, done)
                   \/ ~last /\ \E todo \in NextWorker(r, n) : goes(th[t].worker + 1, todo)
         ELSE IF child \in Terminal THEN Goes(t, Failed(r, n))
         ELSE Goes(t, <<Do("nap")>>)
      /\ UNCHANGED <<Tables, Process, Counters, cast>>

\* The poll's 50 ms are over.
NapOver(t) ==
  /\ Parked(t, "nap") /\ Takes(t, [th[t] EXCEPT !.todo = <<Do("poll")>>])
  /\ UNCHANGED <<Tables, Process, Counters, cast>>

\* Once the signal is aborted, sleep rejects at once, and the loop polls again.
NapAborted(t) ==
  /\ At(t, "nap") /\ Goes(t, <<Do("poll")>>)
  /\ UNCHANGED <<Tables, Process, Counters, cast>>

---------------------------------------------------------------------------
(* Cancel *)

\* A run that waits is ended; one that runs is asked to.
EndWaiting(r) == <<Of("invalidate", r)>> \o Cancels(r)
Ask(r) == <<Of("request", r), Of("abort", r)>>
Cancelled(r) == IF runs[r].status \in Waiting THEN EndWaiting(r) ELSE Ask(r)

\* handleCancelRun and cancelOneRun: the live children first.
Cancel(t) ==
  LET r == th[t].run
      live == SetToSeq({c \in Kids : runs[c].parent.run = r /\ runs[c].status \notin Terminal \cup {"none"}})
  IN  /\ At(t, "cancel")
      /\ Then(t, IF runs[r].status \in Terminal THEN <<>>
                 ELSE [i \in DOMAIN live |-> Of("cascade", live[i])] \o Cancelled(r))
      /\ UNCHANGED <<Tables, Process, Counters, cast>>

CancelRunInternal(t) ==
  LET c == First(t).run IN
  /\ At(t, "cascade")
  /\ Then(t, IF runs[c].status \in Terminal THEN <<>> ELSE Cancelled(c))
  /\ UNCHANGED <<Tables, Process, Counters, cast>>

InvalidateInterrupts(t) ==
  /\ At(t, "invalidate")
  /\ interrupts' = [interrupts EXCEPT ![First(t).run] =
                      [n \in Nodes |-> IF @[n].state = "open" THEN [@[n] EXCEPT !.state = "invalidated"] ELSE @[n]]]
  /\ Then(t, <<>>)
  /\ UNCHANGED <<runs, log, keyed, Process, Counters, cast>>

SetCancelRequested(t) ==
  /\ At(t, "request")
  /\ runs' = [runs EXCEPT ![First(t).run].status = IF @ \in Terminal THEN @ ELSE "cancelling"]
  /\ Then(t, <<>>)
  /\ UNCHANGED <<log, interrupts, keyed, Process, Counters, cast>>

\* The run's executor is woken from what it waits for; it runs after this thread.
Abort(t) ==
  LET woken == Executors(First(t).run)
      asleep == {s \in woken \ {t} : ~th[s].aborted /\ (Parked(s, "sleep") \/ Parked(s, "nap"))}
      caller == [th[t] EXCEPT !.todo = Rest(t)]
  IN  /\ At(t, "abort")
      /\ th' = [s \in Slots |-> IF s = t THEN (IF caller.todo = <<>> THEN Idle ELSE caller)
                                ELSE IF s \in woken THEN [th[s] EXCEPT !.aborted = TRUE] ELSE th[s]]
      /\ queue' = After(caller) \o SetToSeq(asleep)
      /\ UNCHANGED <<Tables, Process, Counters, cast>>

---------------------------------------------------------------------------
(* Resolve *)

\* recordInterruptResolved, and what follows it.
Recorded(r, n) == <<Ev(r, "interrupt.resolved", n)>>
Resumes(r, n) == <<Ev(r, "node.resumed", n), Ev(r, "node.completed", n), Do("advance"), Of("launch", r)>>
RejectThreshold == IF Policy = "majority" THEN Required \div 2 + 1 ELSE 1

\* A wrong form: a voter's new vote is added to the old one.
EveryVote(votes, ballot) == votes \cup {ballot}

\* Votes, one for each voter, and how many of them made a choice.
LastOfEach(votes, ballot) == {b \in votes : b.voter # ballot.voter} \cup {ballot}
Chose(votes, choice) == Cardinality({b \in votes : b.choice = choice})

\* handleResolveInterrupt once the body is read, and resolveApproval: refine
\* sends the gate back, else the votes decide.
ResolveApproval(t) ==
  LET r == th[t].run
      n == th[t].node
      choice == th[t].ballot.choice
      votes == LastOfEach(interrupts[r][n].votes, th[t].ballot)
      counts(voters) == cast' = [cast EXCEPT ![r][n] = voters]
      others == cast[r][n] \ {th[t].ballot.voter}
      voted == IF choice = "accept" THEN others \cup {th[t].ballot.voter} ELSE others
      marks(state) == interrupts' = [interrupts EXCEPT ![r][n] = [state |-> state, votes |-> votes]]
  IN  /\ At(t, "tally")
      /\ IF ~Open(r, n) THEN Goes(t, <<>>) /\ UNCHANGED <<interrupts, cast>>
         ELSE IF choice = "refine"
         THEN marks("refined") /\ counts({}) /\ Goes(t, Recorded(r, n) \o <<Set(r, "running"), Of("launch", r)>>)
         ELSE IF Chose(votes, "accept") >= Required
         THEN marks("accepted") /\ counts(voted) /\ Goes(t, Recorded(r, n) \o Resumes(r, n))
         ELSE IF Chose(votes, "reject") >= RejectThreshold
         THEN marks("rejected") /\ counts(voted) /\ Goes(t, Recorded(r, n) \o <<Ev(r, "node.completed", n)>> \o Fails(r))
         ELSE marks("open") /\ counts(voted) /\ Goes(t, <<Ev(r, "interrupt.vote", n)>>)
      /\ UNCHANGED <<runs, log, keyed, Process, Counters>>

\* resolveClarification
ResolveClarification(t) ==
  LET r == th[t].run  n == th[t].node IN
  /\ At(t, "answer") /\ Kind(r, n) = "clarification"
  /\ IF Open(r, n)
     THEN interrupts' = [interrupts EXCEPT ![r][n].state = "resolved"] /\ Goes(t, Recorded(r, n) \o Resumes(r, n))
     ELSE Goes(t, <<>>) /\ UNCHANGED interrupts
  /\ UNCHANGED <<runs, log, keyed, Process, Counters, cast>>

\* handleResolveInterruptByToken and resolveExternalEvent: it may have expired.
ResolveExternalEvent(t) ==
  LET r == th[t].run
      n == th[t].node
      marks(state) == interrupts' = [interrupts EXCEPT ![r][n].state = state]
  IN  /\ At(t, "answer") /\ Kind(r, n) = "external"
      /\ \/ ~Open(r, n) /\ Goes(t, <<>>) /\ UNCHANGED interrupts
         \/ Open(r, n) /\ marks("expired") /\ Goes(t, <<>>)
         \/ Open(r, n) /\ marks("resolved") /\ Goes(t, Resumes(r, n))
      /\ UNCHANGED <<runs, log, keyed, Process, Counters, cast>>

\* The UPDATE, whatever the status, to the node behind the one the handler read;
\* a token's handler reads it only now.
Advance(t) ==
  LET r == th[t].run
      row == IF Kind(r, th[t].node) = "external" THEN runs[r].next ELSE th[t].row
  IN  /\ At(t, "advance")
      /\ runs' = [runs EXCEPT ![r].status = "running", ![r].next = row + 1]
      /\ Then(t, <<>>)
      /\ UNCHANGED <<log, interrupts, keyed, Process, Counters, cast>>

---------------------------------------------------------------------------
(* Requests *)

\* handleCreateRun: what was created with the key is replied, nothing is done.
CreateRun(r, flow, withKey) ==
  /\ runs[r].status = "none" /\ FreeSlots # {} /\ (withKey => keyed = {})
  /\ LET key == IF withKey THEN <<Of("key", r)>> ELSE <<>>
     IN Takes(NewSlot, Handler(r, <<[op |-> "insert run", flow |-> flow]>> \o key \o <<Of("launch", r)>>))
  /\ UNCHANGED <<Tables, Process, Counters, cast>>

InsertRun(t) ==
  /\ At(t, "insert run")
  /\ runs' = [runs EXCEPT ![th[t].run].status = "pending", ![th[t].run].flow = First(t).flow]
  /\ Then(t, <<>>)
  /\ UNCHANGED <<log, interrupts, keyed, Process, Counters, cast>>

InsertIdempotency(t) ==
  /\ At(t, "key")
  /\ keyed' = keyed \cup {th[t].run}
  /\ Then(t, <<>>)
  /\ UNCHANGED <<runs, log, interrupts, Process, Counters, cast>>

\* A request whose handler is this arrives.
Arrives(r, handler) ==
  /\ runs[r].status # "none" /\ FreeSlots # {} /\ MayCall
  /\ calls' = calls + 1
  /\ Takes(NewSlot, handler)
  /\ UNCHANGED <<Tables, Process, faults, stops, cast>>

CallCancel(r) == Arrives(r, Handler(r, <<Do("cancel")>>))

\* What an interrupt may be answered with: only an approval counts votes.
AnswersTo(r, n) ==
  IF Kind(r, n) = "approval" THEN [voter : Voters, choice : {"accept", "reject", "refine"}] ELSE {<<>>}

\* handleResolveInterrupt reads the row, then awaits the body.
CallResolve(r, n) ==
  /\ n \in 1..Length(r) /\ Open(r, n) /\ FreeSlots # {} /\ MayCall /\ up /\ queue = <<>>
  /\ calls' = calls + 1
  /\ \E ballot \in AnswersTo(r, n) :
       th' = [th EXCEPT ![NewSlot] = [Handler(r, <<Do("body"), Do(IF Kind(r, n) = "approval" THEN "tally" ELSE "answer")>>)
                                        EXCEPT !.row = runs[r].next, !.node = n, !.ballot = ballot]]
  /\ UNCHANGED <<Tables, Process, queue, faults, stops, cast>>

BodyRead(t) ==
  /\ Parked(t, "body") /\ Takes(t, [th[t] EXCEPT !.todo = Rest(t)])
  /\ UNCHANGED <<Tables, Process, Counters, cast>>

---------------------------------------------------------------------------
(* Death and restart *)

Dies == up' = FALSE /\ queue' = <<>> /\ th' = [t \in Slots |-> Idle] /\ UNCHANGED <<log, interrupts, keyed, life, calls, cast>>

Crash ==
  /\ up /\ MayFail /\ faults' = faults + 1
  /\ Dies
  /\ UNCHANGED <<runs, stops>>

\* shutdown: the claims are released and the database closed; what was aborted
\* can write no more.
Shutdown ==
  /\ up /\ queue = <<>> /\ MayStop /\ stops' = stops + 1
  /\ runs' = [r \in Runs |-> IF runs[r].holder = life THEN [runs[r] EXCEPT !.holder = 0, !.fresh = FALSE] ELSE runs[r]]
  /\ Dies
  /\ UNCHANGED faults

\* A wrong form: only what had begun.
OrphanBegun(r) == runs[r].status \in {"running", "cancelling"} /\ Claimable(r)

\* findOrphans
Orphan(r) == runs[r].status \in {"pending", "running", "cancelling"} /\ Claimable(r)

\* The next process starts, and resumeOrphans tries each orphan before any
\* request is taken.
Boot ==
  LET orphans == SetToSeq({r \in Runs : Orphan(r)})
      resumes == Handler("none", [i \in DOMAIN orphans |-> Of("launch", orphans[i])])
  IN  /\ ~up /\ up' = TRUE /\ life' = life + 1
      /\ IF orphans = <<>> THEN UNCHANGED <<th, queue>> ELSE th' = [th EXCEPT ![1] = resumes] /\ queue' = <<1>>
      /\ UNCHANGED <<Tables, Counters, cast>>

---------------------------------------------------------------------------
Init ==
  /\ runs = [r \in Runs |-> [status |-> "none", next |-> 1, flow |-> ChildFlow, parent |-> NoParent, holder |-> 0, fresh |-> FALSE]]
  /\ log = [r \in Runs |-> EmptyBag] /\ interrupts = [r \in Runs |-> [n \in Nodes |-> NoRow]] /\ keyed = {}
  /\ life = 1 /\ up = TRUE /\ queue = <<>> /\ th = [t \in Slots |-> Idle]
  /\ calls = 0 /\ faults = 0 /\ stops = 0 /\ cast = [r \in Runs |-> [n \in Nodes |-> {}]]

\* What runs before the event loop goes on.
Turn ==
  \E t \in Slots :
    \/ AppendEvent(t) \/ SetStatus(t) \/ ReleaseClaim(t)
    \/ Launch(t) \/ NextNode(t) \/ Outcome(t) \/ DelayAborted(t) \/ CreateInterrupt(t)
    \/ FindChild(t) \/ InsertChild(t) \/ PollSub(t) \/ DispatchNode(t) \/ PollWorker(t) \/ NapAborted(t)
    \/ Cancel(t) \/ CancelRunInternal(t) \/ InvalidateInterrupts(t) \/ SetCancelRequested(t) \/ Abort(t)
    \/ ResolveApproval(t) \/ ResolveClarification(t) \/ ResolveExternalEvent(t) \/ Advance(t)
    \/ InsertRun(t) \/ InsertIdempotency(t)

\* Timers and bodies that come by themselves.
Elapses(t) == DelayOver(t) \/ NapOver(t) \/ BodyRead(t)

Next ==
  \/ Turn
  \/ \E t \in Slots : Elapses(t) \/ Deadline(t)
  \/ \E r \in Roots, flow \in RootFlows, withKey \in BOOLEAN : CreateRun(r, flow, withKey)
  \/ \E r \in Runs : CallCancel(r) \/ Lapse(r) \/ \E n \in Nodes : CallResolve(r, n)
  \/ Crash \/ Shutdown \/ Boot

Spec == Init /\ [][Next]_vars

---------------------------------------------------------------------------
(* Properties *)

\* When a process has nothing to run, each run that is to run has an executor in
\* it, or is under the claim of a process that died: nothing else is lost by a
\* crash, wherever it comes, or by a shutdown.
OrphansHaveOldClaims ==
  up /\ queue = <<>> =>
    \A r \in Runs : runs[r].status \in {"pending", "running", "cancelling"} /\ Executors(r) = {} => runs[r].holder \notin {0, life}

\* Neither a run's row nor its executor is past an approval gate but by the votes
\* of as many approvers as it asks for, each of whom voted to accept, and last so,
\* since the gate last asked.
GateHonoured ==
  \A r \in Runs : \A n \in 1..Length(r) :
    Kind(r, n) = "approval" /\ (runs[r].next > n \/ \E t \in Executors(r) : th[t].at > n)
    => Cardinality(cast[r][n]) >= Required

\* A run that waits at a gate can be answered, however often it was sent back:
\* only a crash may leave it without an interrupt to answer.
WaitsAnswerable ==
  faults = 0 /\ queue = <<>> =>
    \A r \in Runs : runs[r].status \in Waiting /\ Kind(r, runs[r].next) \in {"approval", "clarification", "external"}
                    => Open(r, runs[r].next) \/ interrupts[r][runs[r].next].state = "expired"

=============================================================================
