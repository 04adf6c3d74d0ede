------------------------------ MODULE Executor ------------------------------
(***************************************************************************)
(* The run lifecycle of the v2 reference host: the executor loop, the       *)
(* cancel / pause / resume handlers, the interrupts a node suspends on and   *)
(* the two ways they resolve, the approval deadline sweep, and recovery at   *)
(* boot (executor.ts, interrupts.ts, the handlers of runs.ts, durability.ts). *)
(*                                                                          *)
(* The host is one JavaScript process over one SQLite file.  A handler, a    *)
(* timer tick or a stretch of the loop between two awaits runs to its end    *)
(* without another one getting the thread: it is one SECTION here, one step. *)
(* But it writes the file one autocommitted statement at a time, so a kill   *)
(* can fall between two of its statements.  A section is therefore given as  *)
(* the sequence of images the run's rows pass through, one per statement;    *)
(* it either leaves the last one, or the process dies on an earlier one.     *)
(***************************************************************************)
EXTENDS WorkflowGraph

CONSTANTS Runs,         \* run ids
          Workflows,      \* definitions, as in WorkflowGraph, with moreover
                          \*   kind        : what each node does: "work", "fail",
                          \*                 "overrun", "hold", "effect", "approval",
                          \*                 "clarify" or "credential"
                          \*   timed       : the approvals with a timeoutMs
                          \*   compensable : the nodes an unwind compensates
                          \*   limit       : the run's recursionLimit
          Clients,        \* connections whose body may lag behind their head
          SlowBodies,     \* operations asked for that way (the others come whole)
          MaxOps,         \* bound: requests sent
          MaxCrashes      \* bound: times the process is killed

ASSUME ExecutorAssumption ==
  /\ MaxOps \in Nat /\ MaxCrashes \in Nat

VARIABLES wf,             \* the definition each run is created with
          order,          \* orderNodes of it
          file,           \* durable: each run's row, event log and interrupt rows
          mem,            \* volatile: loops, pause policies, requests being read
          up,             \* whether the process is alive
          ops, crashes    \* counters for the bounds

vars == <<wf, order, file, mem, up, ops, crashes>>

---------------------------------------------------------------------------
(* Values *)

Terminal == {"completed", "failed", "cancelled"}

Waiting == {"waiting-approval", "waiting-input"}

Statuses == {"none", "pending", "running", "cancelling", "paused"} \cup Terminal \cup Waiting

\* The values of an event: the decision of a resolution, the output of a node.
Vals == {"none", "ok", "granted", "rejected"}

\* A run before it is accepted.
Blank ==
  [status |-> "none", cancel |-> FALSE, pause |-> FALSE, log |-> <<>>, minted |-> {}, open |-> {}]

\* A loop is off, queued behind setImmediate, on the thread, or awaiting a node;
\* the latter remembers the node, its execution ordinal and its visit index.
Off == [at |-> "off", node |-> NoNode, execution |-> 0, visit |-> 0]

At(where) == [Off EXCEPT !.at = where]

NoRequest == [op |-> "none"]

NoMemory ==
  [loop |-> [r \in Runs |-> Off], policy |-> [r \in Runs |-> "none"], req |-> [c \in Clients |-> NoRequest]]

---------------------------------------------------------------------------
(* Single statements on a run's rows *)

Emit(d, type, n, val, visit) ==
  [d EXCEPT !.log = Append(@, [type |-> type, node |-> n, val |-> val, visit |-> visit])]

EmitRun(d, type) == Emit(d, type, NoNode, "none", 0)

EmitNode(d, type, n) == Emit(d, type, n, "none", 0)

SetStatus(d, s) == [d EXCEPT !.status = s]

\* insertInterrupt, unless the key is there already.
Mint(d, key) ==
  IF key \in d.minted THEN d ELSE [d EXCEPT !.minted = @ \cup {key}, !.open = @ \cup {key}]

\* A wrong form: the row is not marked resolved.
ClaimNothing(d, key) == d

\* resolveInterrupt: UPDATE ... WHERE resolved_at IS NULL.
Claim(d, key) == [d EXCEPT !.open = @ \ {key}]

Invalidate(d) == [d EXCEPT !.open = {}]

---------------------------------------------------------------------------
(* What the log says *)

CountOf(log, n, types) == Cardinality(EventsOf(log, n, types))

Started(log) == \E i \in DOMAIN log : log[i].type = "run.started"

Starts(log) == Cardinality({i \in DOMAIN log : log[i].type = "node.started"})

Execution(log, n) == 1 + CountOf(log, n, {"node.completed", "node.failed"})

\* The visit index of n: how many of its interrupts were resolved so far.
Visit(log, n) == CountOf(log, n, {"interrupt.resolved"})

\* The node the run is suspended on, in the fold's sense.
Suspended(log) ==
  LET moves == {i \in DOMAIN log : log[i].type \in
                  {"node.suspended", "node.resumed", "node.completed", "node.failed"}}
  IN  IF moves = {} THEN NoNode
      ELSE IF log[Max(moves)].type = "node.suspended" THEN log[Max(moves)].node ELSE NoNode

Ended == {"node.completed", "node.failed"}

\* A wrong form: once resumed, resumed for ever.
ResumedForEver(log, n) == LastOf(log, n, {"node.resumed"}) > 0

\* node.resumed is recorded, and the node neither ended nor started again since.
Resumed(log, n) == LastOf(log, n, {"node.resumed"}) > LastOf(log, n, Ended \cup {"node.started"})

\* interrupt.resolved is recorded, and the node did not even resume since.
Resolved(log, n) ==
  LastOf(log, n, {"interrupt.resolved"}) > LastOf(log, n, Ended \cup {"node.started", "node.resumed"})

\* What the latest event of this type recorded of n.
ValOf(log, n, type) == log[LastOf(log, n, {type})].val

\* approval.rejected is recorded and the node has not failed yet.
RejectedEmitted(log, n) ==
  LastOf(log, n, {"approval.rejected"}) > LastOf(log, n, Ended)

---------------------------------------------------------------------------
(* Sequences of statements, as the images they leave *)

Final(d, imgs) == IF imgs = <<>> THEN d ELSE imgs[Len(imgs)]

TerminalCancel(d) ==
  LET d1 == EmitRun(d, "run.cancelled")
      d2 == Invalidate(d1)
      d3 == [d2 EXCEPT !.status = "cancelled", !.cancel = FALSE, !.pause = FALSE]
  IN  <<d1, d2, d3>>

RunFailed(d) ==
  LET d1 == EmitRun(d, "run.failed")
      d2 == Invalidate(d1)
  IN  <<d1, d2, SetStatus(d2, "failed")>>

RunCompleted(d) ==
  LET d1 == EmitRun(d, "run.completed")
      d2 == Invalidate(d1)
  IN  <<d1, d2, SetStatus(d2, "completed")>>

\* unwind: nothing, when no compensable node completed.
Unwind(w, d) ==
  LET d1 == EmitRun(d, "compensation.requested")
      d2 == EmitRun(d1, "compensation.started")
      d3 == EmitRun(d2, "compensation.completed")
  IN  IF \E n \in w.compensable : EventsOf(d.log, n, {"node.completed"}) # {}
      THEN <<d1, d2, d3>> ELSE <<>>

\* The failure of n is taken up by an edge, and is one an edge may take up.
Routed(w, n, routable) == routable /\ FailureRouted(w, n)

FailNode(w, d, n, routable) ==
  LET d1 == EmitNode(d, "node.failed", n)
      unwound == Unwind(w, d1)
  IN  IF Routed(w, n, routable) THEN <<d1>>
      ELSE <<d1>> \o unwound \o RunFailed(Final(d1, unwound))

\* applyResolution of a recorded interrupt.resolved with this decision.
Apply(w, d, n, decision, emitted) ==
  LET rejected == IF w.kind[n] = "approval" /\ ~emitted
                  THEN <<Emit(d, "approval.rejected", n, decision, 0)>> ELSE <<>>
      resumed == Emit(d, "node.resumed", n, decision, 0)
  IN  IF decision = "rejected"
      THEN rejected \o FailNode(w, Final(d, rejected), n, TRUE)
      ELSE <<resumed, Emit(resumed, "node.completed", n, decision, 0)>>

\* Whether that ended the run.
ApplyEnds(w, n, decision) == decision = "rejected" /\ ~FailureRouted(w, n)

\* interruptFor: K is the node and its visit index.
InterruptKey(n, visit) == <<n, visit>>

Suspend(w, d, n, visit) ==
  LET d1 == Mint(d, InterruptKey(n, visit))
      d2 == Emit(d1, "interrupt.requested", n, "none", visit)
      d3 == Emit(d2, "node.suspended", n, "none", visit)
  IN  <<d1, d2, d3, SetStatus(d3, IF w.kind[n] = "approval" THEN "waiting-approval" ELSE "waiting-input")>>

\* A drained pause, or an attempt cut short by an immediate one.
Paused(d) ==
  LET d1 == EmitRun(d, "run.paused")
  IN  <<d1, [d1 EXCEPT !.status = "paused", !.pause = FALSE]>>

---------------------------------------------------------------------------
(* Sections *)

Init ==
  /\ wf \in [Runs -> Workflows]
  /\ order = [r \in Runs |-> OrderNodes(wf[r])]
  /\ file = [r \in Runs |-> Blank]
  /\ mem = NoMemory
  /\ up = TRUE
  /\ ops = 0 /\ crashes = 0

Killed ==
  /\ crashes < MaxCrashes
  /\ crashes' = crashes + 1
  /\ mem' = NoMemory
  /\ up' = FALSE

\* A section over run r: its statements leave these images, and it ends with the
\* process memory m - or the process is killed after some of the statements.
Section(r, imgs, m) ==
  \/ /\ file' = [file EXCEPT ![r] = Final(@, imgs)]
     /\ mem' = m
     /\ UNCHANGED <<up, crashes>>
  \/ /\ \E i \in 1..Len(imgs) - 1 : file' = [file EXCEPT ![r] = imgs[i]]
     /\ Killed

\* The thread is free: no loop is in the middle of its stretch.
ThreadFree == up /\ \A r \in Runs : mem.loop[r].at # "on"

\* One loop per run: a run that has one is not given another.
Schedule(m, r) == IF m.loop[r].at = "off" THEN [m EXCEPT !.loop[r] = At("queued")] ELSE m

LeaveLoop(r) == [mem EXCEPT !.loop[r] = Off]

StayInLoop(r) == [mem EXCEPT !.loop[r] = At("on")]

Environment == UNCHANGED <<wf, order, ops>>

---------------------------------------------------------------------------
(* Requests *)

\* createRun: the row is inserted and the loop scheduled.
Create(r) ==
  /\ ThreadFree /\ file[r].status = "none"
  /\ Section(r, <<SetStatus(file[r], "pending")>>, Schedule(mem, r))
  /\ Environment

\* What a handler goes by: the run's row as it was when the handler loaded it,
\* which is before it awaited the request's body.
Seen(r) == [status |-> file[r].status, pause |-> file[r].pause]

Operations == {"cancel", "pause-drain", "pause-immediate", "resume", "granted", "rejected"}

\* The interrupts a resolve can still claim.  A clarification has no rejection.
Claimable(r, decision) ==
  {key \in file[r].open : decision = "rejected" => wf[r].kind[key[1]] # "clarify"}

\* Anything else is refused with a 409, which changes nothing.
Admits(op, r, seen) ==
  CASE op = "cancel" -> seen.status \notin Terminal
    [] op \in {"pause-drain", "pause-immediate"} -> seen.status \in {"running", "pending"} /\ ~seen.pause
    [] op = "resume" -> seen.status = "paused"
    [] OTHER -> seen.status \notin Terminal /\ Claimable(r, op) # {}

\* requestCancel: at once when no loop can do it, else a flag for the loop.
RequestCancel(r, seen, m) ==
  LET at == Suspended(file[r].log)
      cut == IF at = NoNode THEN <<>> ELSE <<EmitNode(file[r], "node.cancelled", at)>>
  IN  IF seen.status \in {"pending", "paused"} \cup Waiting \/ mem.loop[r].at = "off"
      THEN Section(r, cut \o TerminalCancel(Final(file[r], cut)), m)
      ELSE Section(r, <<[file[r] EXCEPT !.status = "cancelling", !.cancel = TRUE]>>, m)

\* requestPause: at once when no loop runs, else a flag and a policy for the loop.
RequestPause(r, seen, policy, m) ==
  LET d1 == EmitRun(file[r], "run.paused")
  IN  IF seen.status = "pending" \/ mem.loop[r].at = "off"
      THEN Section(r, <<d1, SetStatus(d1, "paused")>>, m)
      ELSE Section(r, <<[file[r] EXCEPT !.pause = TRUE]>>, [m EXCEPT !.policy[r] = policy])

\* A wrong form: nobody goes on with the run.
RequestResumeNoLoop(r, m) ==
  LET d1 == EmitRun(file[r], "run.resumed")
  IN  Section(r, <<d1, SetStatus(d1, "running")>>, m)

RequestResume(r, m) ==
  LET d1 == EmitRun(file[r], "run.resumed")
  IN  Section(r, <<d1, SetStatus(d1, "running")>>, Schedule(m, r))

\* The claim is won; recordResolution records, applies and reschedules.
RecordResolution(r, key, decision, m) ==
  LET w == wf[r]
      n == key[1]
      d1 == Claim(file[r], key)
      d2 == Emit(d1, "interrupt.resolved", n, decision, key[2])
      applied == Apply(w, d2, n, decision, FALSE)
  IN  IF ApplyEnds(w, n, decision)
      THEN Section(r, <<d1, d2>> \o applied, m)
      ELSE Section(r, <<d1, d2>> \o applied \o <<SetStatus(Final(d2, applied), "running")>>, Schedule(m, r))

\* resolveAndResume.
Resolve(r, decision, m) ==
  \E key \in Claimable(r, decision) : RecordResolution(r, key, decision, m)

Handle(op, r, seen, m) ==
  CASE op = "cancel"          -> RequestCancel(r, seen, m)
    [] op = "pause-drain"     -> RequestPause(r, seen, "drain-current-node", m)
    [] op = "pause-immediate" -> RequestPause(r, seen, "immediate", m)
    [] op = "resume"          -> RequestResume(r, m)
    [] OTHER                  -> Resolve(r, op, m)

\* A request whose body came with its head.
Call(op, r) ==
  /\ ThreadFree /\ ops < MaxOps
  /\ file[r].status # "none" /\ Admits(op, r, Seen(r))
  /\ Handle(op, r, Seen(r), mem)
  /\ ops' = ops + 1
  /\ UNCHANGED <<wf, order>>

\* The head of a request: the handler loads the run and awaits the body.
Arrive(c, op, r) ==
  /\ op \in SlowBodies /\ ThreadFree /\ ops < MaxOps
  /\ file[r].status # "none" /\ mem.req[c] = NoRequest
  /\ mem' = [mem EXCEPT !.req[c] = [op |-> op, run |-> r, seen |-> Seen(r)]]
  /\ ops' = ops + 1
  /\ UNCHANGED <<wf, order, file, up, crashes>>

\* Its body: the handler goes by the row it loaded.
Body(c) ==
  LET q == mem.req[c]
      m == [mem EXCEPT !.req[c] = NoRequest]
  IN  /\ ThreadFree /\ q # NoRequest
      /\ \/ Admits(q.op, q.run, q.seen) /\ Handle(q.op, q.run, q.seen, m)
         \/ ~Admits(q.op, q.run, q.seen) /\ mem' = m /\ UNCHANGED <<file, up, crashes>>
      /\ Environment

\* The oauth callback resolves the credential interrupt its grant was for.
GrantCompleted(r) ==
  /\ ThreadFree /\ ops < MaxOps
  /\ file[r].status \notin Terminal
  /\ \E key \in file[r].open :
       wf[r].kind[key[1]] = "credential" /\ RecordResolution(r, key, "granted", mem)
  /\ ops' = ops + 1
  /\ UNCHANGED <<wf, order>>

\* sweepApprovalTimeouts, for one approval whose deadline has passed.
Sweep(r) ==
  /\ ThreadFree
  /\ file[r].status \in Waiting
  /\ \E key \in file[r].open :
       /\ wf[r].kind[key[1]] = "approval" /\ key[1] \in wf[r].timed
       /\ RecordResolution(r, key, "rejected", mem)
  /\ Environment

---------------------------------------------------------------------------
(* The loop *)

\* A wrong form: a run that ended while its loop was queued is entered.
EnterBlind(r) ==
  LET d == file[r]
      d1 == EmitRun(d, "run.started")
  IN  /\ ThreadFree /\ mem.loop[r].at = "queued"
      /\ Section(r, IF ~Started(d.log) THEN <<d1, SetStatus(d1, "running")>> ELSE <<>>, StayInLoop(r))
      /\ Environment

\* The prologue of continueRun.
Enter(r) ==
  LET d == file[r]
      d1 == EmitRun(d, "run.started")
  IN  /\ ThreadFree /\ mem.loop[r].at = "queued"
      /\ \/ /\ d.status \in Terminal \cup Waiting \cup {"paused"}
            /\ Section(r, <<>>, LeaveLoop(r))
         \/ /\ d.status \notin Terminal \cup Waiting \cup {"paused"}
            /\ Section(r,
                       IF ~Started(d.log) THEN <<d1, SetStatus(d1, "running")>>
                       ELSE IF d.status = "pending" THEN <<SetStatus(d, "running")>> ELSE <<>>,
                       StayInLoop(r))
      /\ Environment

\* Nothing is owed: the run is over, unless another ended or cancels it.
Finish(r) ==
  LET d == file[r]
  IN  IF d.status \in Terminal THEN Section(r, <<>>, LeaveLoop(r))
      ELSE IF d.cancel THEN Section(r, TerminalCancel(d), LeaveLoop(r))
      ELSE Section(r, RunCompleted(d), LeaveLoop(r))

\* The node is past its interrupt already: it goes on from the log.
Reenter(r, n) ==
  LET w == wf[r]
      d == file[r]
      decision == ValOf(d.log, n, "interrupt.resolved")
      apply == Apply(w, d, n, decision, RejectedEmitted(d.log, n))
  IN  IF Resumed(d.log, n)
      THEN Section(r, <<Emit(d, "node.completed", n, ValOf(d.log, n, "node.resumed"), 0)>>, StayInLoop(r))
      ELSE Section(r, apply, IF ApplyEnds(w, n, decision) THEN LeaveLoop(r) ELSE StayInLoop(r))

\* One more start would exceed the run's recursion limit.
Breach(r) ==
  LET d1 == EmitRun(file[r], "cap.breached")
  IN  Section(r, <<d1>> \o RunFailed(d1), LeaveLoop(r))

\* What the node does before it first awaits, by its kind; d1 has its node.started.
ExecuteNode(r, n, d1) ==
  LET w == wf[r]
      visit == Visit(file[r].log, n)
      failed(routable) == <<d1>> \o FailNode(w, d1, n, routable)
      after(routable) == IF Routed(w, n, routable) THEN StayInLoop(r) ELSE LeaveLoop(r)
  IN  CASE w.kind[n] = "work"    -> Section(r, <<d1, Emit(d1, "node.completed", n, "ok", 0)>>, StayInLoop(r))
        [] w.kind[n] = "fail"    -> Section(r, failed(TRUE), after(TRUE))
        [] w.kind[n] = "overrun" -> Section(r, failed(FALSE), after(FALSE))
        [] w.kind[n] \in {"approval", "clarify"} -> Section(r, <<d1>> \o Suspend(w, d1, n, visit), LeaveLoop(r))
        [] OTHER -> Section(r, <<d1>>,
                            [mem EXCEPT !.loop[r] = [at |-> "await", node |-> n, visit |-> visit,
                                                     execution |-> Execution(file[r].log, n)]])

Execute(r, n) == ExecuteNode(r, n, EmitNode(file[r], "node.started", n))

\* Somebody asked the loop to stop before the next node.
Parked(d) == d.cancel \/ d.pause

\* The scheduler named node n, in the state st folded from the log.
Dispatch(r, n, st) ==
  LET d == file[r]
      past == Resumed(d.log, n) \/ Resolved(d.log, n)
      go == ~Parked(d) /\ Fires(wf[r], n, st)
  IN  \/ d.cancel /\ Section(r, TerminalCancel(d), LeaveLoop(r))
      \/ ~d.cancel /\ d.pause /\ Section(r, Paused(d), [LeaveLoop(r) EXCEPT !.policy[r] = "none"])
      \/ /\ ~Parked(d) /\ ~Fires(wf[r], n, st)
         /\ Section(r, <<EmitNode(d, "node.skipped", n)>>, StayInLoop(r))
      \/ go /\ past /\ Reenter(r, n)
      \/ go /\ ~past /\ Starts(d.log) >= wf[r].limit /\ Breach(r)
      \/ go /\ ~past /\ Starts(d.log) < wf[r].limit /\ Execute(r, n)

\* One turn of the loop.
Turn(r) ==
  /\ up /\ mem.loop[r].at = "on"
  /\ \E st \in {Fold(wf[r], file[r].log)} :
       \E n \in {NextNode(wf[r], order[r], st)} \cap (Range(wf[r].nodes) \cup {NoNode}) :
         \/ n = NoNode /\ Finish(r)
         \/ n # NoNode /\ Dispatch(r, n, st)
  /\ Environment

\* What the awaited node comes to.  A hold is polled: it ends at its deadline,
\* or earlier on a cancel or an immediate pause.
Awaited(r, kind) == ThreadFree /\ mem.loop[r].at = "await" /\ wf[r].kind[mem.loop[r].node] = kind

WakeDone(r) ==
  LET d == file[r]
      n == mem.loop[r].node
  IN  /\ \E kind \in {"hold", "effect", "credential"} : Awaited(r, kind)
      /\ \/ d.status \in Terminal /\ Section(r, <<>>, LeaveLoop(r))
         \/ /\ d.status \notin Terminal
            /\ Execution(d.log, n) > mem.loop[r].execution
            /\ Section(r, <<>>, StayInLoop(r))
         \/ /\ d.status \notin Terminal
            /\ Execution(d.log, n) <= mem.loop[r].execution
            /\ Section(r, <<Emit(d, "node.completed", n, "ok", 0)>>, StayInLoop(r))
      /\ Environment

WakeFailed(r) ==
  LET n == mem.loop[r].node
  IN  /\ \E kind \in {"effect", "credential"} : Awaited(r, kind)
      /\ Section(r, FailNode(wf[r], file[r], n, TRUE),
                 IF FailureRouted(wf[r], n) THEN StayInLoop(r) ELSE LeaveLoop(r))
      /\ Environment

\* No credential resolves: the node suspends on a credential interrupt.
WakeSuspend(r) ==
  /\ Awaited(r, "credential")
  /\ Section(r, Suspend(wf[r], file[r], mem.loop[r].node, mem.loop[r].visit), LeaveLoop(r))
  /\ Environment

WakeCancelled(r) ==
  LET d1 == EmitNode(file[r], "node.cancelled", mem.loop[r].node)
  IN  /\ Awaited(r, "hold")
      /\ file[r].cancel \/ file[r].status \in Terminal
      /\ Section(r, <<d1>> \o TerminalCancel(d1), LeaveLoop(r))
      /\ Environment

WakePaused(r) ==
  /\ Awaited(r, "hold")
  /\ ~file[r].cancel /\ file[r].status \notin Terminal
  /\ file[r].pause /\ mem.policy[r] = "immediate"
  /\ Section(r, Paused(file[r]), [LeaveLoop(r) EXCEPT !.policy[r] = "none"])
  /\ Environment

---------------------------------------------------------------------------
(* Death and recovery *)

Crash == up /\ Killed /\ UNCHANGED <<wf, order, file, ops>>

InFlight == {r \in Runs : file[r].status \in {"running", "pending", "cancelling"}}

\* A wrong form: only running runs are re-entered.
BootRunning ==
  /\ ~up
  /\ up' = TRUE
  /\ mem' = [NoMemory EXCEPT !.loop =
               [r \in Runs |-> IF file[r].status = "running" THEN At("queued") ELSE Off]]
  /\ UNCHANGED <<wf, order, file, ops, crashes>>

\* recoverInFlightRuns, before the listener opens.
Boot ==
  /\ ~up
  /\ up' = TRUE
  /\ file' = [r \in Runs |-> IF r \in InFlight /\ Started(file[r].log)
                             THEN EmitRun(file[r], "workflow.restored") ELSE file[r]]
  /\ mem' = [NoMemory EXCEPT !.loop = [r \in Runs |-> IF r \in InFlight THEN At("queued") ELSE Off]]
  /\ UNCHANGED <<wf, order, ops, crashes>>

---------------------------------------------------------------------------
Request(r) ==
  \/ Create(r) \/ GrantCompleted(r)
  \/ \E op \in Operations : Call(op, r) \/ \E c \in Clients : Arrive(c, op, r)

Wake(r) == WakeDone(r) \/ WakeFailed(r) \/ WakeSuspend(r) \/ WakeCancelled(r) \/ WakePaused(r)

Loop(r) == Enter(r) \/ Turn(r) \/ Wake(r)

Next ==
  \/ \E r \in Runs : Request(r) \/ Sweep(r) \/ Loop(r)
  \/ \E c \in Clients : Body(c)
  \/ Crash \/ Boot

Spec == Init /\ [][Next]_vars

---------------------------------------------------------------------------
(* Properties *)

Node == UNION {Range(w.nodes) : w \in Workflows}

EventTypes ==
  {"run.started", "run.paused", "run.resumed", "run.completed", "run.failed", "run.cancelled",
   "workflow.restored", "cap.breached",
   "compensation.requested", "compensation.started", "compensation.completed",
   "node.started", "node.completed", "node.failed", "node.skipped", "node.cancelled",
   "node.suspended", "node.resumed",
   "interrupt.requested", "interrupt.resolved", "approval.rejected"}

Events == [type : EventTypes, node : Node \cup {NoNode}, val : Vals, visit : Nat]

Rows ==
  [status : Statuses, cancel : BOOLEAN, pause : BOOLEAN, log : Seq(Events),
   minted : SUBSET (Node \X Nat), open : SUBSET (Node \X Nat)]

LoopStates ==
  [at : {"off", "queued", "on", "await"}, node : Node \cup {NoNode}, execution : Nat, visit : Nat]

Policies == {"none", "immediate", "drain-current-node"}

Requests == [op : Operations, run : Runs, seen : [status : Statuses, pause : BOOLEAN]]

Memories ==
  [loop : [Runs -> LoopStates], policy : [Runs -> Policies], req : [Clients -> Requests \cup {NoRequest}]]

\* The state is well typed, and a loop that awaits awaits a node.
TypeOK ==
  /\ wf \in [Runs -> Workflows]
  /\ file \in [Runs -> Rows]
  /\ mem \in Memories
  /\ \A r \in Runs : mem.loop[r].at = "await" => mem.loop[r].node \in Node
  /\ up \in BOOLEAN /\ ops \in 0..MaxOps /\ crashes \in 0..MaxCrashes

\* Event j of the log grants node n, and nothing between j and i ends the node
\* or decides it again.
GrantedBefore(log, n, i) ==
  \E j \in 1..i - 1 :
    /\ log[j].type = "interrupt.resolved" /\ log[j].node = n /\ log[j].val = "granted"
    /\ \A k \in j + 1..i - 1 :
         log[k].node = n => log[k].type \notin Ended \cup {"interrupt.resolved"}

\* The nodes that wait for somebody's decision.
Gates(w) == {n \in Node : n \in Range(w.nodes) /\ w.kind[n] \in {"approval", "clarify"}}

\* A gate is never bypassed: every completion of an approval or a clarification
\* stands on a granted resolution of its own - whatever was raced, stale,
\* killed half way or re-entered from the log.
GateNeverBypassed ==
  \A r \in Runs : \A i \in DOMAIN file[r].log :
    LET e == file[r].log[i] IN
    e.type = "node.completed" /\ e.node \in Gates(wf[r])
      => GrantedBefore(file[r].log, e.node, i)

\* An interrupt is resolved once: no two interrupt.resolved of one key, however
\* the resolve calls, the sweep and the oauth callback interleave.
ResolvedOnce ==
  \A r \in Runs : \A i, j \in DOMAIN file[r].log :
    LET e == file[r].log[i]
        f == file[r].log[j]
    IN  e.type = "interrupt.resolved" /\ f.type = "interrupt.resolved"
        /\ e.node = f.node /\ e.visit = f.visit => i = j

\* The row never says more than the log: a terminal status has its event there.
TerminalWitnessed ==
  \A r \in Runs :
    /\ file[r].status = "completed" => \E i \in DOMAIN file[r].log : file[r].log[i].type = "run.completed"
    /\ file[r].status = "failed"    => \E i \in DOMAIN file[r].log : file[r].log[i].type = "run.failed"
    /\ file[r].status = "cancelled" => \E i \in DOMAIN file[r].log : file[r].log[i].type = "run.cancelled"

\* A handler decides in this step on the row it read before it awaited the body
\* of its request (runs.ts:327-387): run r had not ended then.
DecidesOnOldRow(r) ==
  \E c \in Clients :
    /\ mem.req[c] # NoRequest /\ mem'.req[c] = NoRequest
    /\ mem.req[c].run = r /\ mem.req[c].seen.status \notin Terminal
    /\ mem.req[c].op \in {"cancel", "pause-drain", "pause-immediate", "resume"}

\* A run may end while its loop awaits a node, which then writes its outcome: a
\* kill inside Suspend leaves the interrupt of a credential open, the node is
\* executed again and the interrupt rejected; or a handler that read the row as
\* pending or paused cancels the run at once.
EndedUnderItsLoop(r) ==
  /\ mem.loop[r].at = "await"
  /\ \/ file[r].status = "failed" /\ wf[r].kind[mem.loop[r].node] = "credential"
     \/ file[r].status = "cancelled"

\* A terminal run stays as it is - its status, its log, its interrupts - however
\* loops, requests, sweeps, kills and boots interleave.  Two things break that
\* promise and are named here: a cancel, pause or resume that decides on the row
\* it read before the run ended, which the code then does not refuse with the
\* 409 run_terminal of runs.ts:360-366, and an outcome awaited across the end.
TerminalIsFinal ==
  [][\A r \in Runs :
       file[r].status \in Terminal
         => file'[r] = file[r] \/ DecidesOnOldRow(r) \/ EndedUnderItsLoop(r)]_vars

---------------------------------------------------------------------------
(* Liveness.  setImmediate and timers fire, an awaited call answers or times  *)
(* out, the sweep ticks, and the supervisor restarts a dead process; callers  *)
(* owe nothing.                                                              *)

FairSpec ==
  /\ Spec
  /\ \A r \in Runs : WF_vars(Enter(r)) /\ WF_vars(Turn(r)) /\ WF_vars(Wake(r)) /\ WF_vars(Sweep(r))
  /\ WF_vars(Boot)

\* A pause that had read the run before it was asked to cancel put its status
\* over "cancelling"; the row still says that a cancel was asked for.
PausedOver(r) == file[r].status = "paused" /\ file[r].cancel

\* An accepted cancel ends the run, through kills and boots, unless the executing
\* node suspends it on somebody's decision, or a pause decided on an old row.
CancelSettles ==
  \A r \in Runs : file[r].status = "cancelling" ~> file[r].status \in Terminal \cup Waiting \/ PausedOver(r)

\* An accepted run comes to an end or to a wait for somebody.
RunSettles ==
  \A r \in Runs : file[r].status \in {"pending", "running"} ~> file[r].status \in Terminal \cup Waiting \cup {"paused"}

=============================================================================
