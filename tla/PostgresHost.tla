---------------------------- MODULE PostgresHost ----------------------------
(***************************************************************************)
(* The run lifecycle of the postgres host (postgres/src/server.ts,          *)
(* interrupts.ts, db.ts): several processes over one database.              *)
(*                                                                          *)
(* Every statement is awaited, so other handlers and executors run between   *)
(* any two of them.  An executor or a handler is a thread, and what it has    *)
(* left to do is a sequence of statements: a step takes the first one and,   *)
(* where the code branches, puts in its place those the branch leads to.     *)
(* Adjacent reads are one step.  A run is claimed with an advisory lock of   *)
(* the process's connection: another process is refused, the same one is     *)
(* let in again, and a dead one's is gone.  Variables, channels, spans and    *)
(* the audit trail are left out: no step of this module reads them.          *)
(***************************************************************************)
EXTENDS HostStatements

CONSTANTS Procs,       \* host processes
          Roots, Kids, \* ids of the runs clients create, of those nodes create
          Flow,        \* workflow -> the kinds of its nodes, in order
          RootFlows,   \* the workflows clients create runs of
          ChildFlow,   \* the workflow of a child
          Plan,        \* mockDispatchPlan: the workers of each decision
          Limit,       \* recursionLimit
          Voters, Required, Policy,  \* of an approval gate
          Entry,       \* the processes runs are created at
          MaxThreads,  \* bound: threads
          Bound        \* bounds, by root workflow: requests, crashes and deadlines, both; operations used

Operations == {"cancel", "resolve", "pause", "resume", "shutdown"}

ASSUME PostgresAssumption ==
  /\ IsFiniteSet(Procs) /\ IsFiniteSet(Roots \cup Kids) /\ Roots \cap Kids = {} /\ RootFlows \cup {ChildFlow} \subseteq DOMAIN Flow
  /\ Policy \in {"first", "majority"} /\ Required \in Nat \ {0} /\ Plan \in Seq(Nat) /\ Limit \in Nat \ {0}
  /\ Entry \subseteq Procs /\ MaxThreads \in Nat
  /\ \A f \in RootFlows : {Bound[f].calls, Bound[f].faults, Bound[f].events} \subseteq Nat /\ Bound[f].ops \subseteq Operations

VARIABLES runs,       \* durable: the runs table
          log,        \* durable: how often each run appended each event
          interrupts, \* durable: the interrupts table
          lock,       \* the server's: the advisory locks each process holds on a run
          up, closing, \* the processes that are up, and of them those being shut down
          th,         \* volatile: the threads
          aborters,   \* volatile: runningAborters
          tx,         \* volatile: the thread whose transaction is open, in each process
          calls, faults,
          asked,      \* history: runs an operator had cancelled or paused, or whose process was shut down
          cast,       \* history: voters who ever voted to accept, by run and node
          twice       \* history: runs two executors were at once at work on

vars == <<runs, log, interrupts, lock, up, closing, th, aborters, tx, calls, faults, asked, cast, twice>>

---------------------------------------------------------------------------
(* Values *)

Runs == Roots \cup Kids
Slots == 1..MaxThreads
MaxLen == 4
Nodes == 0..MaxLen


\* kind: a handler ("call"), an executor before its claim or after it ("exec");
\* worker: which worker of a dispatch is due; row: next_node_index as a handler
\* read it; ballot: the vote it carries; votes: those its transaction read.
Idle == [kind |-> "free", proc |-> "none", run |-> "none", at |-> 0, worker |-> 0, child |-> "none", aborted |-> FALSE,
         late |-> FALSE, row |-> 0, node |-> 0, ballot |-> <<>>, votes |-> <<>>, todo |-> <<>>]

Nodesof(r) == Flow[runs[r].flow]
Kind(r, n) == Nodesof(r)[n]
Logged(r, type, n) == In(log[r], type, n)
Count(r, type) == CountOf(log[r], type)

Open(r, n) == interrupts[r][n].state = "open"

\* A thread that holds its run's claim, and one that is not about to give it up.
Executing(t) == th[t].kind = "exec"
Working(t) == Executing(t) /\ th[t].todo # <<>>

\* The bounds in force: those of the workflow a client created a run of.
InForce == {Bound[runs[r].flow] : r \in {x \in Roots : runs[x].status # "none"}}
MayCall(op) == \E b \in InForce : calls < b.calls /\ calls + faults < b.events /\ op \in b.ops
MayFail == \E b \in InForce : faults < b.faults /\ calls + faults < b.events

FreeSlots == {t \in Slots : th[t].kind = "free"}
NewSlot == CHOOSE t \in FreeSlots : \A s \in FreeSlots : t <= s
Executor(p, r) == [Idle EXCEPT !.kind = "claim", !.proc = p, !.run = r]
Handler(p, r, todo) == [Idle EXCEPT !.kind = "call", !.proc = p, !.run = r, !.todo = todo]

---------------------------------------------------------------------------
(* Programs *)

Completed(r, n) == <<Ev(r, "node.completed", n), Out("completed")>>
Failed(r, n) == <<Ev(r, "node.failed", n), Out("failed")>>
Abandoned(r, n) == <<Ev(r, "node.cancelled", n), Out("cancelled")>>
Suspends(r, n) == <<Ev(r, "node.suspended", n), Out("suspended")>>

Fails(r) == <<Ev(r, "run.failed", 0), Set(r, "failed")>>
Cancels(r) == <<Ev(r, "run.cancelled", 0), Set(r, "cancelled")>>
FailRunDuration(r) == <<Ev(r, "cap.breached", 0)>> \o Fails(r)
Recursion(r, n) == <<Ev(r, "cap.breached", n)>> \o Fails(r)

\* A memory entry is best effort: it may be missing.
Completes(r) == {<<Ev(r, "memory.written", 0), Ev(r, "run.completed", 0), Set(r, "completed")>>,
                 <<Ev(r, "run.completed", 0), Set(r, "completed")>>}

\* The dispatch or the return may be off its schema.
Handoff(r, n) == {Completed(r, n), Failed(r, n)}
Identity(r, n) == Handoff(r, n) \cup {Completed(r, n)}
SecretEcho(r, n) == {Completed(r, n), Failed(r, n)}
CostEmit(r, n) == {Completed(r, n)}
Unsupported(r, n) == {Failed(r, n)}

\* Misconfigured or unknown provider; denied; the call failed; or done.
LlmCall(r, n) ==
  LET decided == <<Ev(r, "policy.decision", n)>>
  IN  {Failed(r, n), decided \o Failed(r, n), decided \o <<Ev(r, "agent.decided", n)>> \o Completed(r, n),
       decided \o <<Ev(r, "agent.reasoned", n), Ev(r, "agent.decided", n)>> \o Completed(r, n)}

ToolCall(r, n) == {<<Ev(r, "agent.toolCalled", n), Do("tool")>>}
HttpRequest(r, n) == {<<Do("http")>>}

MockTools(r, n) ==
  {<<>>, <<Ev(r, "agent.reasoned", n), Ev(r, "agent.toolCalled", n), Ev(r, "agent.toolReturned", n)>>}

\* A low confidence suspends.
MockDecision(r, n) ==
  LET decided == <<Ev(r, "agent.decided", n)>>
  IN  {Completed(r, n), <<Ev(r, "agent.handoff", n)>> \o decided \o Completed(r, n), decided \o Suspends(r, n)}

\* Refused outside the conformance workflows.
MockAgent(r, n) == {Failed(r, n)} \cup {tools \o rest : tools \in MockTools(r, n), rest \in MockDecision(r, n)}

Delay(r, n) == {<<Do("sleep")>>}
Gate(r, n) == {<<Do("mint")>> \o Suspends(r, n)}
Interrupt(r, n) == Gate(r, n) \cup {Failed(r, n)}
Supervisor(r, n) == {<<Ev(r, "runOrchestrator.decided", n)>> \o Completed(r, n), Suspends(r, n)}
Dispatch(r, n) == {<<Do("dispatch")>>}
SubWorkflow(r, n) == {<<Do("find")>>, Failed(r, n)}

\* The programs of a node's executeNode, one for each way its data may decide.
Body(r, n) ==
  LET kind == Kind(r, n) IN
  CASE kind = "noop" -> {Completed(r, n)}
    [] kind = "identity" -> Identity(r, n)
    [] kind = "secret" -> SecretEcho(r, n)
    [] kind = "llm" -> LlmCall(r, n)
    [] kind = "mcp" -> ToolCall(r, n)
    [] kind = "http" -> HttpRequest(r, n)
    [] kind = "mock" -> MockAgent(r, n)
    [] kind = "cost" -> CostEmit(r, n)
    [] kind = "delay" -> Delay(r, n)
    [] kind \in {"approval", "clarification"} -> Gate(r, n)
    [] kind = "external" -> Interrupt(r, n)
    [] kind = "supervisor" -> Supervisor(r, n)
    [] kind = "dispatch" -> Dispatch(r, n)
    [] kind = "sub" -> SubWorkflow(r, n)
    [] OTHER -> Unsupported(r, n)

\* Refused before node.started: a capability, or a capability of the model.
Refusals(r, n) ==
  CASE Kind(r, n) = "requires" -> {<<Out("failed")>>}
    [] Kind(r, n) = "model" -> {<<Ev(r, "model.capability.insufficient", n)>> \o Failed(r, n)}
    [] OTHER -> {}

---------------------------------------------------------------------------
(* One statement *)

Database == <<runs, log, interrupts>>
Ledger == <<calls, faults>>
History == <<asked, cast, twice>>
Others == <<up, closing, Ledger>>

\* The first statement of t is op: t goes on with the ones given, then the rest.
At(t, op) == th[t].kind # "free" /\ th[t].todo # <<>> /\ Head(th[t].todo).op = op
Handles(t, op) == th[t].kind = "call" /\ At(t, op)
First(t) == Head(th[t].todo)
Rest(t) == Tail(th[t].todo)
Becomes(t, new) == th' = [th EXCEPT ![t] = new]

\* A handler is over with its last statement, an executor has its claim to release.
Then(t, more) ==
  LET todo == more \o Rest(t) IN
  Becomes(t, IF th[t].kind = "call" /\ todo = <<>> THEN Idle ELSE [th[t] EXCEPT !.todo = todo])

\* appendEvent, once no other transaction of the process is open.
AppendEvent(t) ==
  LET e == First(t) IN
  /\ At(t, "append") /\ tx[th[t].proc] = 0
  /\ log' = [log EXCEPT ![e.run] = With(@, e.type, e.node)]
  /\ Then(t, <<>>)
  /\ UNCHANGED <<runs, interrupts, lock, aborters, tx, Others, History>>

\* updateRunStatus, setRunTerminal and the other writes of a status.
SetStatus(t) ==
  /\ At(t, "set")
  /\ runs' = [runs EXCEPT ![First(t).run].status = First(t).status]
  /\ Then(t, <<>>)
  /\ UNCHANGED <<log, interrupts, lock, aborters, tx, Others, History>>

---------------------------------------------------------------------------
(* The executor *)

\* A wrong form: the claim is a stamp, not a lock.
ClaimableStamped(r, p) == TRUE

\* pg_try_advisory_lock lets the session that holds the lock in again.
Claimable(r, p) == \A q \in Procs \ {p} : lock[r][q] = 0

\* tryClaim: contended, runWorkflow returns and leaves the run to its holder.
TryClaim(t) ==
  LET r == th[t].run  p == th[t].proc IN
  /\ th[t].kind = "claim"
  /\ IF Claimable(r, p)
     THEN /\ lock' = [lock EXCEPT ![r][p] = @ + 1] /\ Becomes(t, [th[t] EXCEPT !.kind = "exec", !.todo = <<Do("load")>>])
          /\ twice' = IF \E s \in Slots : Working(s) /\ th[s].run = r THEN twice \cup {r} ELSE twice
     ELSE Becomes(t, Idle) /\ UNCHANGED <<lock, twice>>
  /\ UNCHANGED <<Database, aborters, tx, Others, asked, cast>>

\* runWorkflowClaimed, up to its loop.
Load(t) ==
  LET r == th[t].run
      event == IF Logged(r, "run.started", 0) THEN "run.resumed" ELSE "run.started"
  IN  /\ At(t, "load")
      /\ aborters' = [aborters EXCEPT ![th[t].proc][r] = t]
      /\ th' = [th EXCEPT ![t].at = runs[r].next, ![t].todo = <<Set(r, "running"), Ev(r, event, 0), Do("next")>>]
      /\ UNCHANGED <<Database, lock, tx, Others, History>>

\* executeNode up to what is particular to the node's type.
Enters(r, n) ==
  IF Refusals(r, n) # {} THEN Refusals(r, n) ELSE {<<Ev(r, "node.started", n)>> \o body : body \in Body(r, n)}

\* The head of the loop; executeNode reads the status once more, so a
\* cancellation may be noticed by either.
NextNode(t) ==
  LET r == th[t].run
      n == th[t].at
      status == runs[r].status
      over == n > Len(Nodesof(r))
      todo == IF status = "cancelling" THEN {Cancels(r)} \cup IF over THEN {} ELSE {Abandoned(r, n)}
              ELSE IF status = "paused" THEN {<<>>}
              ELSE IF over THEN Completes(r)
              ELSE IF n > Limit THEN {Recursion(r, n)}
              ELSE Enters(r, n)
  IN  /\ At(t, "next")
      /\ \E more \in todo : Then(t, more)
      /\ UNCHANGED <<Database, lock, aborters, tx, Others, History>>

WaitingFor(kind) ==
  CASE kind = "clarification" -> "waiting-input"
    [] kind = "external" -> "waiting-external"
    [] OTHER -> "waiting-approval"

\* A wrong form: a deadline that fired is taken for a cancellation.
BreachedNever(t) == FALSE

\* The deadline fired while the node ran.
Breached(t) == th[t].late

SupervisorOf(r) == CHOOSE n \in 1..Len(Nodesof(r)) :
  Kind(r, n) = "supervisor" /\ \A m \in 1..Len(Nodesof(r)) : Kind(r, m) = "supervisor" => n <= m

\* What the loop does with the node's outcome.
Outcome(t) ==
  LET r == th[t].run
      n == th[t].at
      o == First(t).outcome
      goes(at, more) == th' = [th EXCEPT ![t].at = at, ![t].todo = more]
  IN  /\ At(t, "out")
      /\ CASE Breached(t) -> Then(t, FailRunDuration(r)) /\ UNCHANGED runs
           [] ~Breached(t) /\ o = "completed" ->
                goes(n + 1, <<Do("next")>>) /\ runs' = [runs EXCEPT ![r].next = n + 1]
           [] ~Breached(t) /\ o = "loopback" ->
                goes(SupervisorOf(r), <<Do("next")>>) /\ runs' = [runs EXCEPT ![r].next = SupervisorOf(r)]
           [] ~Breached(t) /\ o = "suspended" ->
                Then(t, <<>>) /\ runs' = [runs EXCEPT ![r].status = WaitingFor(Kind(r, n)), ![r].next = n]
           [] ~Breached(t) /\ o = "failed" -> Then(t, Fails(r)) /\ UNCHANGED runs
           [] ~Breached(t) /\ o = "cancelled" -> Then(t, Cancels(r)) /\ UNCHANGED runs
           [] OTHER -> Then(t, <<>>) /\ UNCHANGED runs
      /\ UNCHANGED <<log, interrupts, lock, aborters, tx, Others, History>>

\* The end of runWorkflow, by whatever way: both finally blocks.
Leave(t) ==
  LET r == th[t].run  p == th[t].proc IN
  /\ Executing(t) /\ th[t].todo = <<>>
  /\ aborters' = [aborters EXCEPT ![p][r] = 0]
  /\ lock' = [lock EXCEPT ![r][p] = @ - 1]
  /\ Becomes(t, Idle)
  /\ UNCHANGED <<Database, tx, Others, History>>

\* The run's wall-clock timer.
Deadline(t) ==
  /\ MayFail /\ faults' = faults + 1
  /\ Executing(t) /\ ~At(t, "load") /\ th[t].todo # <<>> /\ ~th[t].late
  /\ th' = [th EXCEPT ![t].late = TRUE, ![t].aborted = TRUE]
  /\ UNCHANGED <<Database, lock, up, closing, aborters, tx, calls, History>>

---------------------------------------------------------------------------
(* Nodes that wait *)

\* core.delay: it elapses, or is woken to ask the database what for.
Sleep(t) ==
  LET r == th[t].run  n == th[t].at IN
  /\ At(t, "sleep")
  /\ \/ Then(t, Completed(r, n))
     \/ /\ th[t].aborted
        /\ Then(t, IF runs[r].status = "paused" THEN Completed(r, n) ELSE Abandoned(r, n))
  /\ UNCHANGED <<Database, lock, aborters, tx, Others, History>>

\* The requests of core.mcp.toolCall and core.http.request.
Request(t) ==
  LET r == th[t].run
      n == th[t].at
      tool == At(t, "tool")
      returned == <<Ev(r, "agent.toolReturned", n)>>
  IN  /\ At(t, "tool") \/ At(t, "http")
      /\ \/ Then(t, IF tool THEN <<Ev(r, "mcp.invoked", n)>> \o returned \o Completed(r, n) ELSE Completed(r, n))
         \/ ~th[t].aborted /\ Then(t, IF tool THEN returned \o Failed(r, n) ELSE Failed(r, n))
         \/ th[t].aborted /\ Then(t, IF runs[r].status = "paused" THEN <<Out("paused")>> ELSE Abandoned(r, n))
      /\ UNCHANGED <<Database, lock, aborters, tx, Others, History>>

\* createInterrupt.  Its key is taken when the node is executed a second time:
\* the insert throws, and the run's catch ends it.
CreateInterrupt(t) ==
  LET r == th[t].run  n == th[t].at IN
  /\ At(t, "mint")
  /\ IF interrupts[r][n].state = "none"
     THEN interrupts' = [interrupts EXCEPT ![r][n].state = "open"] /\ Then(t, <<>>)
     ELSE th' = [th EXCEPT ![t].todo = IF Breached(t) THEN FailRunDuration(r) ELSE Fails(r)] /\ UNCHANGED interrupts
  /\ UNCHANGED <<runs, log, lock, aborters, tx, Others, History>>

---------------------------------------------------------------------------
(* Nodes with children *)

Child(t) == th[t].child

\* A wrong form: a node executed again starts over.
ExistingNever(r, n, w) == {}

\* The child runs on record for a worker of a node.
Existing(r, n, w) == {c \in Kids : runs[c].status # "none" /\ runs[c].parent = [run |-> r, node |-> n, worker |-> w]}

FreshKids == {c \in Kids : runs[c].status = "none"}

\* The child on record is taken up; else one is inserted, announced and started.
FindChild(t) ==
  LET there == Existing(th[t].run, th[t].at, th[t].worker) IN
  /\ At(t, "find")
  /\ IF there # {} THEN th' = [th EXCEPT ![t].child = CHOOSE c \in there : TRUE, ![t].todo = <<Do("watch")>>]
     ELSE Then(t, <<Do("insert"), Do("spawn"), Do("watch")>>)
  /\ UNCHANGED <<Database, lock, aborters, tx, Others, History>>

InsertChild(t) ==
  LET c == CHOOSE x \in FreshKids : TRUE IN
  /\ At(t, "insert") /\ FreshKids # {}
  /\ runs' = [runs EXCEPT ![c] = [status |-> "pending", next |-> 1, flow |-> ChildFlow,
                                  parent |-> [run |-> th[t].run, node |-> th[t].at, worker |-> th[t].worker]]]
  /\ th' = [th EXCEPT ![t].child = c, ![t].todo = Rest(t)]
  /\ UNCHANGED <<log, interrupts, lock, aborters, tx, Others, History>>
\* node.dispatched, and the child's runWorkflow.
Spawn(t) ==
  /\ At(t, "spawn") /\ Child(t) \in Kids /\ FreeSlots # {} /\ tx[th[t].proc] = 0
  /\ log' = [log EXCEPT ![th[t].run] = With(@, "node.dispatched", th[t].at)]
  /\ th' = [th EXCEPT ![t].todo = Rest(t), ![NewSlot] = Executor(th[t].proc, Child(t))]
  /\ UNCHANGED <<runs, interrupts, lock, aborters, tx, Others, History>>

\* One poll of core.subWorkflow: its own cancellation first, then the child.
WatchSub(t) ==
  LET r == th[t].run
      n == th[t].at
      own == runs[r].status
      child == runs[Child(t)].status
      resumes == <<Ev(r, "node.completed", n), Set(r, "running"), Out("completed")>>
      todo == IF own = "cancelling" THEN {<<Of("cascade", Child(t))>> \o Abandoned(r, n), Abandoned(r, n)}
              ELSE IF child = "completed" THEN {resumes}
              ELSE IF child = "failed" THEN {resumes, Failed(r, n)}
              ELSE IF child = "cancelled" THEN {Abandoned(r, n)}
              ELSE IF child \in Waiting /\ own # child THEN {<<Set(r, child), Do("watch")>>}
              ELSE {}
  IN  /\ At(t, "watch") /\ Kind(r, n) = "sub"
      /\ \E more \in todo : Then(t, more)
      /\ UNCHANGED <<Database, lock, aborters, tx, Others, History>>

\* The workers of the latest decision; none ends the orchestration.
Workers(r) ==
  LET k == Count(r, "runOrchestrator.decided") IN IF k \in 1..Len(Plan) THEN Plan[k] ELSE 0

\* The next worker of a decision; or there is none, or its workflow is unknown.
NextWorker(r, n) == {<<Do("find")>>, Failed(r, n)}

\* core.dispatch, up to its first worker.
DispatchNode(t) ==
  LET r == th[t].run  n == th[t].at IN
  /\ At(t, "dispatch")
  /\ \E todo \in IF Count(r, "runOrchestrator.decided") = 0 THEN {Failed(r, n)}
                ELSE IF Workers(r) = 0 THEN {Completed(r, n)} ELSE NextWorker(r, n) :
       th' = [th EXCEPT ![t].worker = 0, ![t].todo = todo]
  /\ UNCHANGED <<Database, lock, aborters, tx, Others, History>>

\* One poll of core.dispatch: the next worker, or back to the supervisor.
WatchWorker(t) ==
  LET r == th[t].run
      n == th[t].at
      child == runs[Child(t)].status
      last == th[t].worker + 1 >= Workers(r)
      supervised == \E m \in 1..Len(Nodesof(r)) : Kind(r, m) = "supervisor"
      done == <<Ev(r, "node.completed", n)>> \o IF supervised THEN <<Out("loopback")>> ELSE <<Set(r, "running"), Out("completed")>>
      goes(worker, todo) == th' = [th EXCEPT ![t].worker = worker, ![t].todo = todo]
  IN  /\ At(t, "watch") /\ Kind(r, n) = "dispatch"
      /\ \/ runs[r].status = "cancelling" /\ Then(t, <<Of("cascade", Child(t))>> \o Abandoned(r, n))
         \/ /\ runs[r].status # "cancelling" /\ child \in Terminal
            /\ IF child # "completed" THEN Then(t, Failed(r, n))
               ELSE \/ last /\ goes(0, done)
                    \/ ~last /\ \E todo \in NextWorker(r, n) : goes(th[t].worker + 1, todo)
      /\ UNCHANGED <<Database, lock, aborters, tx, Others, History>>

---------------------------------------------------------------------------
(* Cancel *)

\* How a run that waits is ended, and one that runs is asked to.
EndWaiting(r) == <<Of("invalidate", r)>> \o Cancels(r)
Ask(r) == <<Of("request", r), Of("abort", r)>>

\* handleCancelRun and cancelOneRun: the run and its live children as they are
\* now decide what will be done.
Cancel(t) ==
  LET r == th[t].run
      live == {c \in Kids : runs[c].parent.run = r /\ runs[c].status \notin Terminal \cup {"none"}}
  IN  /\ At(t, "cancel")
      /\ IF runs[r].status \in Terminal \cup {"none"} THEN Then(t, <<>>) /\ UNCHANGED asked
         ELSE /\ asked' = asked \cup {r}
              /\ \E order \in SetToSeqs(live) :
                   Then(t, [i \in DOMAIN order |-> Of("cascade", order[i])]
                           \o IF runs[r].status \in Waiting THEN EndWaiting(r) ELSE Ask(r))
      /\ UNCHANGED <<Database, lock, aborters, tx, Others, cast, twice>>

\* cancelRunInternal
CancelInternal(t) ==
  LET c == First(t).run IN
  /\ At(t, "cascade")
  /\ Then(t, IF runs[c].status \in Terminal \cup {"none"} THEN <<>>
             ELSE IF runs[c].status \in Waiting THEN EndWaiting(c) ELSE Ask(c))
  /\ UNCHANGED <<Database, lock, aborters, tx, Others, History>>

InvalidateInterrupts(t) ==
  /\ At(t, "invalidate")
  /\ interrupts' = [interrupts EXCEPT ![First(t).run] =
                      [n \in Nodes |-> IF @[n].state = "open" THEN [@[n] EXCEPT !.state = "invalidated"] ELSE @[n]]]
  /\ Then(t, <<>>)
  /\ UNCHANGED <<runs, log, lock, aborters, tx, Others, History>>

SetCancelRequested(t) ==
  LET r == First(t).run IN
  /\ At(t, "request")
  /\ runs' = [runs EXCEPT ![r].status = IF @ \in Terminal THEN @ ELSE "cancelling"]
  /\ Then(t, <<>>)
  /\ UNCHANGED <<log, interrupts, lock, aborters, tx, Others, History>>

\* The executor of the run in this process is woken, if there is one.
Abort(t) ==
  LET woken == aborters[th[t].proc][First(t).run]
      over == th[t].kind = "call" /\ Rest(t) = <<>>
  IN  /\ At(t, "abort")
      /\ th' = [s \in Slots |-> IF s = t THEN (IF over THEN Idle ELSE [th[t] EXCEPT !.todo = Rest(t)])
                                ELSE IF s = woken THEN [th[s] EXCEPT !.aborted = TRUE] ELSE th[s]]
      /\ UNCHANGED <<Database, lock, aborters, tx, Others, History>>

---------------------------------------------------------------------------
(* Resolve *)

Resumes(r, n) == <<Ev(r, "node.resumed", n), Ev(r, "node.completed", n)>>
Ends(t) == Becomes(t, Idle)

\* handleResolveInterrupt and, of an external event, handleResolveInterruptByToken,
\* up to the kind's own resolve.
Look(t) ==
  LET r == th[t].run  n == th[t].node IN
  /\ Handles(t, "resolve")
  /\ IF ~Open(r, n) THEN Ends(t)
     ELSE th' = [th EXCEPT ![t].row = runs[r].next,
                           ![t].todo = IF Kind(r, n) = "approval" THEN <<Do("ballot"), Do("tally")>> ELSE <<Do("check"), Do("mark")>>]
  /\ UNCHANGED <<Database, lock, aborters, tx, Others, History>>

\* A wrong form: a voter's new vote is added to the old one.
BallotsAdded(votes, ballot) == Append(votes, ballot)

\* Per voter the last vote counts.
Ballots(votes, ballot) == Append(SelectSeq(votes, LAMBDA b : b.voter # ballot.voter), ballot)
Chose(votes, choice) == Len(SelectSeq(votes, LAMBDA b : b.choice = choice))

RejectThreshold == IF Policy = "majority" THEN Required \div 2 + 1 ELSE 1

\* resolveApproval, first half: the transaction reads the row.
ReadVotes(t) ==
  LET r == th[t].run  n == th[t].node  p == th[t].proc IN
  /\ Handles(t, "ballot") /\ tx[p] = 0
  /\ IF Open(r, n) THEN tx' = [tx EXCEPT ![p] = t] /\ th' = [th EXCEPT ![t].votes = interrupts[r][n].votes, ![t].todo = Rest(t)]
     ELSE Ends(t) /\ UNCHANGED tx
  /\ UNCHANGED <<Database, lock, aborters, Others, History>>

\* resolveApproval, second half: the row is written over what it has become.
ResolveApproval(t) ==
  LET r == th[t].run
      n == th[t].node
      votes == Ballots(th[t].votes, th[t].ballot)
      writes(state) == interrupts' = [interrupts EXCEPT ![r][n].votes = votes,
                                                       ![r][n].state = IF state = "open" THEN @ ELSE state]
  IN  /\ At(t, "tally")
      /\ tx' = [tx EXCEPT ![th[t].proc] = 0]
      /\ IF Chose(votes, "accept") >= Required
         THEN writes("accepted") /\ Then(t, Resumes(r, n) \o <<Do("advance")>>)
         ELSE IF Chose(votes, "reject") >= RejectThreshold
         THEN writes("rejected") /\ Then(t, <<Ev(r, "node.completed", n)>> \o Fails(r))
         ELSE writes("open") /\ Then(t, <<Ev(r, "interrupt.vote", n)>>)
      /\ cast' = IF th[t].ballot.choice = "accept" THEN [cast EXCEPT ![r][n] = @ \cup {th[t].ballot.voter}] ELSE cast
      /\ UNCHANGED <<runs, log, lock, aborters, Others, asked, twice>>

\* resolveClarification and resolveExternalEvent look again; an external event
\* may have expired.
CheckAnswer(t) ==
  LET r == th[t].run  n == th[t].node IN
  /\ Handles(t, "check")
  /\ \/ ~Open(r, n) /\ Ends(t) /\ UNCHANGED interrupts
     \/ Open(r, n) /\ Then(t, <<>>) /\ UNCHANGED interrupts
     \/ /\ Open(r, n) /\ Kind(r, n) = "external" /\ Ends(t)
        /\ interrupts' = [interrupts EXCEPT ![r][n].state = "expired"]
  /\ UNCHANGED <<runs, log, lock, aborters, tx, Others, History>>

\* markResolved.  A token's handler loads the run only after it.
MarkResolved(t) ==
  LET r == th[t].run
      n == th[t].node
      reload == IF Kind(r, n) = "external" THEN <<Do("reload")>> ELSE <<>>
  IN  /\ At(t, "mark")
      /\ interrupts' = [interrupts EXCEPT ![r][n].state = "answered"]
      /\ Then(t, Resumes(r, n) \o reload \o <<Do("advance")>>)
      /\ UNCHANGED <<runs, log, lock, aborters, tx, Others, History>>

Reload(t) ==
  /\ At(t, "reload")
  /\ th' = [th EXCEPT ![t].row = runs[th[t].run].next, ![t].todo = Rest(t)]
  /\ UNCHANGED <<Database, lock, aborters, tx, Others, History>>

\* A wrong form: the node behind the next one.
AfterNext(t) == th[t].row + 2

\* The node behind the one the run waits at.
After(t) == th[t].row + 1

\* The status-guarded UPDATE, and runWorkflow; or 409 run_no_longer_resumable.
Advance(t) ==
  LET r == th[t].run
      waits == runs[r].status \in Waiting
  IN  /\ Handles(t, "advance")
      /\ Becomes(t, IF waits THEN Executor(th[t].proc, r) ELSE Idle)
      /\ runs' = IF waits THEN [runs EXCEPT ![r].status = "running", ![r].next = After(t)] ELSE runs
      /\ UNCHANGED <<log, interrupts, lock, aborters, tx, Others, History>>

---------------------------------------------------------------------------
(* Pause and resume *)

Pause(t) ==
  LET r == th[t].run IN
  /\ At(t, "pause")
  /\ IF runs[r].status \in Terminal \cup {"none", "paused"} THEN Then(t, <<>>) /\ UNCHANGED asked
     ELSE Then(t, <<Set(r, "paused"), Ev(r, "run.paused", 0), Of("abort", r)>>) /\ asked' = asked \cup {r}
  /\ UNCHANGED <<Database, lock, aborters, tx, Others, cast, twice>>

Resume(t) ==
  LET r == th[t].run IN
  /\ At(t, "resume")
  /\ Then(t, IF runs[r].status = "paused" THEN <<Set(r, "running"), Do("relaunch")>> ELSE <<>>)
  /\ UNCHANGED <<Database, lock, aborters, tx, Others, History>>

Relaunch(t) ==
  /\ Handles(t, "relaunch")
  /\ Becomes(t, Executor(th[t].proc, th[t].run))
  /\ UNCHANGED <<Database, lock, aborters, tx, Others, History>>

---------------------------------------------------------------------------
(* Requests *)

\* handleCreateRun: the row, and runWorkflow.
CreateRun(p, r, flow) ==
  /\ p \in up /\ runs[r].status = "none" /\ FreeSlots # {}
  /\ runs' = [runs EXCEPT ![r].status = "pending", ![r].flow = flow]
  /\ Becomes(NewSlot, Executor(p, r))
  /\ UNCHANGED <<log, interrupts, lock, aborters, tx, Others, History>>

\* A request arrives that will run the handler todo.
Arrives(p, r, op, handler) ==
  /\ p \in up /\ runs[r].status # "none" /\ FreeSlots # {}
  /\ MayCall(op) /\ calls' = calls + 1
  /\ Becomes(NewSlot, handler)
  /\ UNCHANGED <<Database, lock, up, closing, aborters, tx, faults, History>>

CallRun(p, r, op) == Arrives(p, r, op, Handler(p, r, <<Do(op)>>))

\* What an interrupt may be answered with: only an approval counts votes.
AnswersTo(r, n) ==
  IF n \in 1..Len(Nodesof(r)) /\ Kind(r, n) = "approval" THEN [voter : Voters, choice : {"accept", "reject"}] ELSE {<<>>}

CallResolve(p, r, n, ballot) ==
  /\ n \in 1..Len(Nodesof(r)) /\ Open(r, n)
  /\ Arrives(p, r, "resolve", [Handler(p, r, <<Do("resolve")>>) EXCEPT !.node = n, !.ballot = ballot])

---------------------------------------------------------------------------
(* Death and restart *)

\* The connection drops: its locks and its open transaction are gone.
Gone(p) ==
  /\ up' = up \ {p} /\ closing' = closing \ {p}
  /\ th' = [t \in Slots |-> IF th[t].proc = p THEN Idle ELSE th[t]]
  /\ lock' = [r \in Runs |-> [lock[r] EXCEPT ![p] = 0]]
  /\ aborters' = [aborters EXCEPT ![p] = [r \in Runs |-> 0]]
  /\ tx' = [tx EXCEPT ![p] = 0]

Crash(p) ==
  /\ p \in up /\ MayFail /\ faults' = faults + 1
  /\ Gone(p)
  /\ UNCHANGED <<Database, calls, History>>

\* closeHost: every executor is aborted, and the process ends once they left.
CloseHost(p) ==
  /\ p \in up \ closing /\ MayCall("shutdown") /\ calls' = calls + 1 /\ closing' = closing \cup {p}
  /\ LET woken == {aborters[p][r] : r \in Runs} IN
     th' = [t \in Slots |-> IF t \in woken THEN [th[t] EXCEPT !.aborted = TRUE] ELSE th[t]]
  /\ aborters' = [aborters EXCEPT ![p] = [r \in Runs |-> 0]]
  /\ asked' = asked \cup {th[t].run : t \in {s \in Slots : th[s].proc = p}}
  /\ UNCHANGED <<Database, lock, up, tx, faults, cast, twice>>

Exit(p) ==
  /\ p \in closing /\ \A t \in Slots : th[t].proc # p
  /\ Gone(p)
  /\ UNCHANGED <<Database, Ledger, History>>

\* A wrong form: only what had begun.
OrphanBegun(r) == runs[r].status \in {"running", "cancelling"}

\* The runs recoverOrphans probes.
Orphan(r) == runs[r].status \in {"pending", "running", "cancelling"}

\* start, and recoverOrphans: one runWorkflow for each, none awaited.
Boot(p) ==
  LET orphans == SetToSeq({r \in Runs : Orphan(r)})
      free == SetToSeq(FreeSlots)
  IN  /\ p \notin up /\ Len(orphans) <= Len(free)
      /\ up' = up \cup {p}
      /\ th' = [t \in Slots |-> IF \E i \in DOMAIN orphans : free[i] = t
                                THEN Executor(p, orphans[CHOOSE i \in DOMAIN orphans : free[i] = t]) ELSE th[t]]
      /\ UNCHANGED <<Database, lock, closing, aborters, tx, Ledger, History>>

---------------------------------------------------------------------------
Init ==
  /\ runs = [r \in Runs |-> [status |-> "none", next |-> 1, flow |-> ChildFlow, parent |-> NoParent]]
  /\ log = [r \in Runs |-> EmptyBag] /\ interrupts = [r \in Runs |-> [n \in Nodes |-> [state |-> "none", votes |-> <<>>]]]
  /\ lock = [r \in Runs |-> [p \in Procs |-> 0]] /\ up = Procs /\ closing = {} /\ th = [t \in Slots |-> Idle]
  /\ aborters = [p \in Procs |-> [r \in Runs |-> 0]] /\ tx = [p \in Procs |-> 0]
  /\ calls = 0 /\ faults = 0
  /\ asked = {} /\ cast = [r \in Runs |-> [n \in Nodes |-> {}]] /\ twice = {}

Step(t) ==
  \/ AppendEvent(t) \/ SetStatus(t)
  \/ TryClaim(t) \/ Load(t) \/ NextNode(t) \/ Outcome(t) \/ Leave(t)
  \/ Sleep(t) \/ Request(t) \/ CreateInterrupt(t)
  \/ FindChild(t) \/ InsertChild(t) \/ Spawn(t) \/ WatchSub(t) \/ DispatchNode(t) \/ WatchWorker(t)
  \/ Cancel(t) \/ CancelInternal(t) \/ InvalidateInterrupts(t) \/ SetCancelRequested(t) \/ Abort(t)
  \/ Look(t) \/ ReadVotes(t) \/ ResolveApproval(t) \/ CheckAnswer(t) \/ MarkResolved(t) \/ Reload(t) \/ Advance(t)
  \/ Pause(t) \/ Resume(t) \/ Relaunch(t)

Next ==
  \/ \E t \in Slots : Step(t) \/ Deadline(t)
  \/ \E p \in Procs :
       \/ \E r \in Roots, flow \in RootFlows : p \in Entry /\ CreateRun(p, r, flow)
       \/ \E r \in Runs, op \in {"cancel", "pause", "resume"} : CallRun(p, r, op)
       \/ \E r \in Runs, n \in Nodes : \E ballot \in AnswersTo(r, n) : CallResolve(p, r, n, ballot)
       \/ Crash(p) \/ CloseHost(p) \/ Exit(p) \/ Boot(p)

Spec == Init /\ [][Next]_vars

---------------------------------------------------------------------------
(* Properties *)

\* Two processes never execute one run, whatever boots, crashes and answers race
\* for its claim.
ClaimExclusive ==
  \A s, t \in Slots : Executing(s) /\ Executing(t) /\ th[s].run = th[t].run => th[s].proc = th[t].proc

\* Two deliveries of one signed callback were both taken: each had found the event
\* open before the other marked it.
TakenTwice(r) ==
  \E n \in 1..Len(Nodesof(r)) :
    Kind(r, n) = "external" /\ Logged(r, "node.resumed", n) /\ log[r][<<"node.resumed", n>>] > 1

\* A node starts only after the node before it was completed, also in a run
\* that was recovered, answered twice or re-entered, unless a callback was taken twice.
NodesInOrder ==
  \A r \in Runs, n \in Nodes :
    n > 1 /\ ~TakenTwice(r) /\ Logged(r, "node.started", n) => Logged(r, "node.completed", n - 1)

\* A run is past a gate: a node behind it has started.
Passed(r, n) == n < Len(Nodesof(r)) /\ Kind(r, n) = "approval" /\ Logged(r, "node.started", n + 1)
Approved(r, n) == Cardinality(cast[r][n]) >= Required

\* No run gets past an approval gate but by the votes of as many approvers as it
\* asks for, unless a callback was taken twice.
GateHonoured == \A r \in Runs, n \in Nodes \ {0} : Passed(r, n) /\ ~TakenTwice(r) => Approved(r, n)

\* "Resume fires when accepts >= requiredApprovals" (interrupts.ts:269).
ResumeNeedsVotes == \A r \in Runs, n \in Nodes \ {0} : Passed(r, n) => Approved(r, n)

Created(c) == runs[c].status # "none"

\* A node has one child run for each worker, however often it is executed again,
\* unless two executors were at its run at once.
OneChildPerWorker ==
  \A c, d \in Kids : Created(c) /\ Created(d) /\ runs[c].parent = runs[d].parent /\ runs[c].parent.run \notin twice => c = d

\* A run ends as cancelled only if an operator stopped it: a deadline, a crash or
\* an answer is never taken for a cancellation.
CancelledIfAsked ==
  \A r \in Runs : runs[r].status = "cancelled" \/ Logged(r, "run.cancelled", 0) => asked # {}

\* A run no client meddles with always has an executor, or a process that has yet
\* to start and will recover it, until it ended or waits for an answer.
Unattended(r) == runs[r].status \in {"pending", "running", "cancelling"} /\ up = Procs /\ \A t \in Slots : r \notin {th[t].run, th[t].child}
NoneLeftBehind == calls = 0 => \A r \in Runs : ~Unattended(r)

=============================================================================
