---------------------------- MODULE PythonProofs -----------------------------
(***************************************************************************)
(* Theorems about the Python host, for any workflows, requests and         *)
(* streams.                                                                *)
(***************************************************************************)
EXTENDS PythonHost, WellFoundedInduction, TLAPS

ExPcs == {"start", "top", "pausing", "enter", "body", "after", "park", "parking", "parked", "woken",
          "resuming", "breach", "fail", "end", "done"}

\* A run's record and where its executor is: the run is over when its executor
\* is done, with the event that ended it the last of its log.
Sound(rec, pc) ==
  /\ rec \in RunRecords /\ pc \in ExPcs
  /\ rec.status \in TerminalStates <=> pc = "done"
  /\ pc = "done" => Len(rec.events) > 0 /\ rec.events[Len(rec.events)][1] \in TerminalEvents
  /\ \A i \in 1..Len(rec.events) : rec.events[i][1] \in TerminalEvents => pc = "done" /\ i = Len(rec.events)

Typed ==
  /\ run \in [Runs -> {None} \cup RunRecords]
  /\ ex \in [Runs -> [pc : ExPcs \cup {"none"}, i : Nat]]
  /\ DOMAIN creator = Creators /\ DOMAIN caller = Callers

\* No run is created twice, and what is created is sound.
RunsSound ==
  \A r \in Runs :
    /\ creator[r].pc \in {"ask", "create"} => ex[r].pc = "none"
    /\ IF ex[r].pc = "none" THEN run[r] = None ELSE Sound(run[r], ex[r].pc)

\* What a control request is about was created.
CallersSound ==
  \A c \in Callers : caller[c].pc \in {"cancel", "cancelSet", "openGate", "pause", "shutGate", "resume"} =>
    caller[c].run \in Runs /\ ex[caller[c].run].pc # "none"

IInv == Typed /\ RunsSound /\ CallersSound

\* A log only grows.
Longer(log, more) == Len(log) <= Len(more) /\ \A i \in 1..Len(log) : more[i] = log[i]

LogsGrow ==
  \A r \in Runs : ex[r].pc # "none" => ex'[r].pc # "none" /\ Longer(run[r].events, run'[r].events)

---------------------------------------------------------------------------
(* What the executor does to a record *)

\* An event that ends nothing.
LEMMA AppendSound ==
  ASSUME NEW rec, NEW pc, Sound(rec, pc), pc # "done", NEW type \in EventTypes \ TerminalEvents, NEW node \in Nat,
         NEW status \in Statuses \ TerminalStates, NEW pc2 \in ExPcs \ {"done"}
  PROVE  /\ Sound([Appended(rec, type, node) EXCEPT !.status = status], pc2) /\ Sound(Appended(rec, type, node), pc2)
         /\ Longer(rec.events, Appended(rec, type, node).events)
         /\ Longer(rec.events, [Appended(rec, type, node) EXCEPT !.status = status].events)
<1> DEFINE e == <<type, node>>
           new == Append(rec.events, e)
<1>1. rec.events \in Seq(EventTypes \X Nat) /\ e \in EventTypes \X Nat
  BY DEF Sound, RunRecords
<1>2. /\ new \in Seq(EventTypes \X Nat) /\ Len(new) = Len(rec.events) + 1 /\ Len(rec.events) \in Nat
      /\ new[Len(new)] = e /\ \A i \in 1..Len(rec.events) : new[i] = rec.events[i]
  BY <1>1
<1>3. \A i \in 1..Len(new) : new[i][1] \notin TerminalEvents
  BY <1>2 DEF Sound
<1>4. Appended(rec, type, node) = [rec EXCEPT !.events = new]
  BY DEF Appended
<1> HIDE DEF new
<1>5. [rec EXCEPT !.events = new] \in RunRecords /\ [[rec EXCEPT !.events = new] EXCEPT !.status = status] \in RunRecords
  BY <1>2 DEF Sound, RunRecords
<1>6. Longer(rec.events, new)
  BY <1>2 DEF Longer
<1>7. [rec EXCEPT !.events = new].events = new /\ [[rec EXCEPT !.events = new] EXCEPT !.status = status].events = new
  BY DEF Sound, RunRecords
<1> QED BY <1>3, <1>4, <1>5, <1>6, <1>7 DEF Sound, RunRecords

\* The event that ends the run, and the status it sets.
LEMMA EndSound ==
  ASSUME NEW rec, NEW pc, Sound(rec, pc), pc # "done", NEW type \in TerminalEvents, NEW status \in TerminalStates
  PROVE  /\ Sound([Appended(rec, type, 0) EXCEPT !.status = status], "done")
         /\ Longer(rec.events, [Appended(rec, type, 0) EXCEPT !.status = status].events)
<1> DEFINE e == <<type, 0>>
           new == Append(rec.events, e)
<1>1. rec.events \in Seq(EventTypes \X Nat) /\ e \in EventTypes \X Nat
  BY DEF Sound, RunRecords, EventTypes
<1>2. /\ new \in Seq(EventTypes \X Nat) /\ Len(new) = Len(rec.events) + 1 /\ Len(rec.events) \in Nat
      /\ new[Len(new)] = e /\ \A i \in 1..Len(rec.events) : new[i] = rec.events[i]
  BY <1>1
<1>3. new[Len(new)][1] \in TerminalEvents /\ \A i \in 1..Len(new) : new[i][1] \in TerminalEvents => i = Len(new)
  BY <1>2 DEF Sound
<1>4. Appended(rec, type, 0) = [rec EXCEPT !.events = new]
  BY DEF Appended
<1>5. Len(new) > 0 /\ Longer(rec.events, new)
  BY <1>2 DEF Longer
<1> HIDE DEF new
<1>6. [[rec EXCEPT !.events = new] EXCEPT !.status = status] \in RunRecords
  BY <1>2 DEF Sound, RunRecords, Statuses
<1>7. [[rec EXCEPT !.events = new] EXCEPT !.status = status].events = new
  BY DEF Sound, RunRecords
<1> QED BY <1>3, <1>4, <1>5, <1>6, <1>7 DEF Sound, RunRecords, ExPcs

\* Anything else leaves the log alone.
LEMMA KeptSound ==
  ASSUME NEW rec, NEW pc, Sound(rec, pc), NEW new \in RunRecords, new.events = rec.events, NEW pc2 \in ExPcs,
         \/ new.status = rec.status /\ (pc2 = pc \/ (pc # "done" /\ pc2 # "done"))
         \/ pc # "done" /\ pc2 # "done" /\ new.status \notin TerminalStates
  PROVE  Sound(new, pc2)
BY DEF Sound

---------------------------------------------------------------------------
(* Steps of the executors *)

\* A step of the executor of r.
LEMMA ExecutorKeeps ==
  ASSUME IInv, NEW r \in Runs, ex[r].pc # "none", NEW rec, NEW pc, NEW i \in Nat,
         run' = [run EXCEPT ![r] = rec], ex' = [ex EXCEPT ![r] = [pc |-> pc, i |-> i]],
         Sound(rec, pc), Longer(run[r].events, rec.events), UNCHANGED <<creator, caller>>
  PROVE  IInv' /\ LogsGrow
<1>1. rec \in RunRecords /\ pc \in ExPcs /\ pc # "none"
  BY DEF Sound, ExPcs
<1>2. Typed'
  BY <1>1 DEF IInv, Typed
<1>3. /\ run'[r] = rec /\ ex'[r].pc = pc
      /\ \A q \in Runs : q # r => run'[q] = run[q] /\ ex'[q] = ex[q]
  BY DEF IInv, Typed
<1>4. RunsSound'
  BY <1>1, <1>3 DEF IInv, RunsSound
<1>5. CallersSound'
  BY <1>1, <1>3 DEF IInv, CallersSound
<1>6. \A q \in Runs : ex[q].pc # "none" => Longer(run[q].events, run[q].events)
  <2>1. \A q \in Runs : ex[q].pc # "none" => Len(run[q].events) \in Nat
    BY DEF IInv, RunsSound, Sound, RunRecords
  <2> QED BY <2>1 DEF Longer
<1>7. LogsGrow
  BY <1>1, <1>3, <1>6 DEF LogsGrow
<1> QED BY <1>2, <1>4, <1>5, <1>7 DEF IInv

\* The record and the executor of a run that was created.
LEMMA RunOfExecutor ==
  ASSUME IInv, NEW r \in Runs, ex[r].pc # "none"
  PROVE  /\ Sound(run[r], ex[r].pc) /\ run[r] \in RunRecords /\ ex[r].i \in Nat
         /\ DOMAIN run = Runs /\ DOMAIN ex = Runs
         /\ ex[r] = [pc |-> ex[r].pc, i |-> ex[r].i]
         /\ run = [run EXCEPT ![r] = run[r]]
         /\ Longer(run[r].events, run[r].events)
<1>1. Sound(run[r], ex[r].pc) /\ run[r] \in RunRecords /\ Len(run[r].events) \in Nat
  BY DEF IInv, RunsSound, Sound, RunRecords
<1> QED BY <1>1 DEF IInv, Typed, Longer

LEMMA GotoMeans ==
  ASSUME IInv, NEW r \in Runs, NEW pc, Goto(r, pc)
  PROVE  ex' = [ex EXCEPT ![r] = [pc |-> pc, i |-> ex[r].i]]
<1>1. ex[r] \in [pc : ExPcs \cup {"none"}, i : Nat]
  BY DEF IInv, Typed
<1>2. [ex[r] EXCEPT !.pc = pc] = [pc |-> pc, i |-> ex[r].i]
  BY <1>1
<1> QED BY <1>2 DEF Goto

\* A step that appends an event which ends nothing.
LEMMA AppendKeeps ==
  ASSUME IInv, NEW r \in Runs, ex[r].pc \notin {"none", "done"}, NEW type \in EventTypes \ TerminalEvents, NEW node \in Nat,
         AppendEvent(r, type, node), NEW pc \in ExPcs \ {"done"}, NEW i \in Nat,
         ex' = [ex EXCEPT ![r] = [pc |-> pc, i |-> i]], UNCHANGED <<creator, caller>>
  PROVE  IInv' /\ LogsGrow
<1>1. Sound(run[r], ex[r].pc) /\ DOMAIN run = Runs
  BY RunOfExecutor
<1>2. run' = [run EXCEPT ![r] = Appended(run[r], type, node)]
  BY <1>1 DEF AppendEvent
<1>3. "running" \in Statuses \ TerminalStates
  BY DEF Statuses, TerminalStates
<1>4. Sound(Appended(run[r], type, node), pc) /\ Longer(run[r].events, Appended(run[r], type, node).events)
  BY <1>1, <1>3, AppendSound
<1> QED BY <1>2, <1>4, ExecutorKeeps

LEMMA EndKeeps ==
  ASSUME IInv, NEW r \in Runs, ex[r].pc \notin {"none", "done"}, NEW type \in TerminalEvents, NEW status \in TerminalStates,
         SetTerminal(r, type, status), Goto(r, "done"), UNCHANGED <<creator, caller>>
  PROVE  IInv' /\ LogsGrow
<1>1. Sound(run[r], ex[r].pc) /\ DOMAIN run = Runs /\ ex[r].i \in Nat /\ DOMAIN ex = Runs /\ ex[r] = [pc |-> ex[r].pc, i |-> ex[r].i]
  BY RunOfExecutor
<1>2. run' = [run EXCEPT ![r] = [Appended(run[r], type, 0) EXCEPT !.status = status]]
  BY <1>1 DEF SetTerminal
<1>3. /\ Sound([Appended(run[r], type, 0) EXCEPT !.status = status], "done")
      /\ Longer(run[r].events, [Appended(run[r], type, 0) EXCEPT !.status = status].events)
  BY <1>1, EndSound
<1>4. ex' = [ex EXCEPT ![r] = [pc |-> "done", i |-> ex[r].i]]
  BY GotoMeans
<1> QED BY <1>1, <1>2, <1>3, <1>4, ExecutorKeeps

\* A step that changes the record's status, or nothing of it, and moves on.
LEMMA MoveKeeps ==
  ASSUME IInv, NEW r \in Runs, ex[r].pc \notin {"none", "done"}, NEW status \in Statuses \ TerminalStates,
         run' = run \/ run' = [run EXCEPT ![r].status = status],
         NEW pc \in ExPcs \ {"done"}, Goto(r, pc), UNCHANGED <<creator, caller>>
  PROVE  IInv' /\ LogsGrow
<1>1. /\ Sound(run[r], ex[r].pc) /\ DOMAIN run = Runs /\ ex[r].i \in Nat /\ DOMAIN ex = Runs
      /\ ex[r] = [pc |-> ex[r].pc, i |-> ex[r].i] /\ run[r] \in RunRecords /\ run = [run EXCEPT ![r] = run[r]]
      /\ Longer(run[r].events, run[r].events)
  BY RunOfExecutor
<1>2. ex' = [ex EXCEPT ![r] = [pc |-> pc, i |-> ex[r].i]]
  BY GotoMeans
<1>3. CASE run' = run
  <2>1. run' = [run EXCEPT ![r] = run[r]]
    BY <1>1, <1>3
  <2>2. Sound(run[r], pc)
    BY <1>1, KeptSound
  <2> QED BY <1>1, <1>2, <2>1, <2>2, ExecutorKeeps
<1>4. CASE run' = [run EXCEPT ![r].status = status]
  <2> DEFINE new == [run[r] EXCEPT !.status = status]
  <2>1. run' = [run EXCEPT ![r] = new]
    BY <1>1, <1>4
  <2>2. new \in RunRecords /\ new.events = run[r].events /\ new.status = status
    BY <1>1 DEF RunRecords
  <2> HIDE DEF new
  <2>3. Sound(new, pc)
    BY <1>1, <2>2, KeptSound
  <2>4. Longer(run[r].events, new.events)
    BY <1>1, <2>2
  <2> QED BY <1>1, <1>2, <2>1, <2>3, <2>4, ExecutorKeeps
<1> QED BY <1>3, <1>4

LEMMA ExecuteKeeps == ASSUME IInv, NEW r \in Runs, Execute(r) PROVE IInv' /\ LogsGrow
<1>1. ex[r].pc \notin {"none", "done"} /\ UNCHANGED <<creator, caller>>
  BY DEF Execute, Start, LoopTop, CheckPause, Enter, DelayCancelled, DelayTimedOut, NodeDone, Unsupported, AfterNode,
         Park, Parked, Wake, Woken, Resumed, Breach, Fail, End, At, others, requests
<1>2. /\ Sound(run[r], ex[r].pc) /\ DOMAIN run = Runs /\ ex[r].i \in Nat /\ ex[r].i + 1 \in Nat /\ DOMAIN ex = Runs
      /\ ex[r] = [pc |-> ex[r].pc, i |-> ex[r].i] /\ run[r] \in RunRecords
  BY <1>1, RunOfExecutor
<1>3. \A pc : Goto(r, pc) => ex' = [ex EXCEPT ![r] = [pc |-> pc, i |-> ex[r].i]]
  BY GotoMeans
<1>4. CASE Start(r)
  <2> DEFINE new == [Appended(run[r], "run.started", 0) EXCEPT !.status = "running"]
  <2>1. run' = [run EXCEPT ![r] = new] /\ ex' = [ex EXCEPT ![r] = [pc |-> "top", i |-> ex[r].i]]
    BY <1>2, <1>3, <1>4 DEF Start
  <2>2. /\ "run.started" \in EventTypes \ TerminalEvents /\ "running" \in Statuses \ TerminalStates
        /\ "top" \in ExPcs \ {"done"} /\ 0 \in Nat
    BY DEF EventTypes, TerminalEvents, Statuses, TerminalStates, ExPcs
  <2>3. Sound(new, "top") /\ Longer(run[r].events, new.events)
    BY <1>1, <1>2, <2>2, AppendSound
  <2> HIDE DEF new
  <2> QED BY <1>1, <1>2, <2>1, <2>3, ExecutorKeeps
<1>5. \A pc \in ExPcs \ {"done"}, status \in Statuses \ TerminalStates :
        Goto(r, pc) /\ (run' = run \/ run' = [run EXCEPT ![r].status = status]) => IInv' /\ LogsGrow
  BY <1>1, MoveKeeps
<1>6. \A pc \in ExPcs \ {"done"}, type \in EventTypes \ TerminalEvents, node \in Nat :
        Goto(r, pc) /\ AppendEvent(r, type, node) => IInv' /\ LogsGrow
  BY <1>1, <1>2, <1>3, AppendKeeps
<1>7. /\ "running" \in Statuses \ TerminalStates /\ "paused" \in Statuses \ TerminalStates
      /\ {"top", "pausing", "enter", "body", "after", "park", "parking", "parked", "woken", "resuming", "breach", "fail", "end"}
           \subseteq ExPcs \ {"done"}
      /\ {"run.paused", "run.resumed", "cap.breached", "node.started", "node.completed", "node.failed", "node.cancelled"}
           \subseteq EventTypes \ TerminalEvents
      /\ 0 \in Nat
  BY DEF Statuses, TerminalStates, ExPcs, EventTypes, TerminalEvents
<1>8. CASE LoopTop(r) \/ CheckPause(r) \/ AfterNode(r) \/ Wake(r)
  <2>1. run' = run /\ \E pc \in {"top", "pausing", "enter", "park", "woken", "breach", "end"} : Goto(r, pc)
    BY <1>8 DEF LoopTop, CheckPause, AfterNode, Wake
  <2> QED BY <1>5, <1>7, <2>1
<1>9. CASE Park(r) \/ Woken(r)
  <2>1. \/ run' = run /\ Goto(r, "end")
        \/ run' = [run EXCEPT ![r].status = "paused"] /\ Goto(r, "parking")
        \/ run' = [run EXCEPT ![r].status = "running"] /\ Goto(r, "resuming")
    BY <1>9 DEF Park, Woken
  <2> QED BY <1>5, <1>7, <2>1
<1>10. CASE Enter(r) \/ DelayCancelled(r) \/ DelayTimedOut(r) \/ Unsupported(r) \/ Parked(r) \/ Resumed(r) \/ Breach(r)
  <2>1. \E pc \in {"top", "body", "parked", "breach", "fail", "end"},
           type \in {"run.paused", "run.resumed", "cap.breached", "node.started", "node.failed", "node.cancelled"},
           node \in {0, ex[r].i} : Goto(r, pc) /\ AppendEvent(r, type, node)
    BY <1>10 DEF Enter, DelayCancelled, DelayTimedOut, Unsupported, Parked, Resumed, Breach
  <2> QED BY <1>2, <1>6, <1>7, <2>1
<1>11. CASE NodeDone(r)
  <2>1. ex' = [ex EXCEPT ![r] = [pc |-> "after", i |-> ex[r].i + 1]] /\ AppendEvent(r, "node.completed", ex[r].i)
    BY <1>2, <1>11 DEF NodeDone
  <2> QED BY <1>1, <1>2, <1>7, <2>1, AppendKeeps
<1>12. CASE Fail(r) \/ End(r)
  <2>1. Goto(r, "done") /\ \E type \in TerminalEvents, status \in TerminalStates : SetTerminal(r, type, status)
    BY <1>12 DEF Fail, End, TerminalEvents, TerminalStates
  <2> QED BY <1>1, <2>1, EndKeeps
<1> QED BY <1>4, <1>8, <1>9, <1>10, <1>11, <1>12 DEF Execute

---------------------------------------------------------------------------
(* The other steps *)

\* A step that sets flags of records, and no status or log.
LEMMA FlagKeeps ==
  ASSUME IInv, ex' = ex, creator' = creator,
         DOMAIN caller' = Callers,
         \A c \in Callers : \/ caller'[c].pc \notin {"cancel", "cancelSet", "openGate", "pause", "shutGate", "resume"}
                            \/ caller'[c].run \in Runs /\ ex[caller'[c].run].pc # "none",
         run' \in [Runs -> {None} \cup RunRecords],
         \A r \in Runs : run'[r] = run[r]
                         \/ /\ ex[r].pc # "none" /\ run'[r] \in RunRecords
                            /\ run'[r].status = run[r].status /\ run'[r].events = run[r].events
  PROVE  IInv' /\ LogsGrow
<1>1. Typed'
  BY DEF IInv, Typed
<1>2. CallersSound'
  BY DEF CallersSound
<1>3. RunsSound'
  <2> SUFFICES ASSUME NEW r \in Runs
               PROVE  /\ creator'[r].pc \in {"ask", "create"} => ex'[r].pc = "none"
                      /\ IF ex'[r].pc = "none" THEN run'[r] = None ELSE Sound(run'[r], ex'[r].pc)
    BY DEF RunsSound
  <2>1. CASE run'[r] = run[r]
    BY <2>1 DEF IInv, RunsSound
  <2>2. CASE run'[r] # run[r]
    <3>1. /\ Sound(run[r], ex[r].pc) /\ ex[r].pc \in ExPcs /\ ex[r].pc # "none" /\ run'[r] \in RunRecords
          /\ run'[r].status = run[r].status /\ run'[r].events = run[r].events
      BY <2>2 DEF IInv, RunsSound, Sound
    <3>2. Sound(run'[r], ex[r].pc)
      BY <3>1 DEF Sound
    <3> QED BY <3>1, <3>2 DEF IInv, RunsSound
  <2> QED BY <2>1, <2>2
<1>4. \A r \in Runs : ex[r].pc # "none" => Longer(run[r].events, run[r].events)
  BY RunOfExecutor
<1>5. LogsGrow
  BY <1>4 DEF LogsGrow
<1> QED BY <1>1, <1>2, <1>3, <1>5 DEF IInv

LEMMA DeadlineKeeps == ASSUME IInv, NEW r \in Runs, Deadline(r) PROVE IInv' /\ LogsGrow
<1>1. /\ run[r] # None /\ UNCHANGED <<ex, creator, caller>> /\ run' = [run EXCEPT ![r].late = TRUE]
  BY DEF Deadline, others, requests
<1>2. ex[r].pc # "none"
  BY <1>1 DEF IInv, RunsSound
<1>3. run[r] \in RunRecords /\ DOMAIN run = Runs
  BY <1>2, RunOfExecutor
<1> DEFINE new == [run[r] EXCEPT !.late = TRUE]
<1>4. new \in RunRecords /\ new.status = run[r].status /\ new.events = run[r].events
  BY <1>3 DEF RunRecords
<1>5. run' = [run EXCEPT ![r] = new]
  BY <1>1, <1>3
<1> HIDE DEF new
<1>6. run' \in [Runs -> {None} \cup RunRecords]
  BY <1>4, <1>5 DEF IInv, Typed
<1>7. \A q \in Runs : run'[q] = IF q = r THEN new ELSE run[q]
  BY <1>3, <1>5
<1> QED BY <1>1, <1>2, <1>4, <1>6, <1>7, FlagKeeps DEF IInv, Typed, CallersSound

Active == {"cancel", "cancelSet", "openGate", "pause", "shutGate", "resume"}

LEMMA ControlKeeps == ASSUME IInv, NEW c \in Callers, Control(c) PROVE IInv' /\ LogsGrow
<1> DEFINE r == caller[c].run
<1>1. ex' = ex /\ creator' = creator
  BY DEF Control, CancelFlag, CancelSet, OpenGate, PauseFlag, ShutGate, ResumeFlag, still, requests
<1>2. caller[c].pc \in Active
  BY DEF Control, CancelFlag, CancelSet, OpenGate, PauseFlag, ShutGate, ResumeFlag, Active
<1>3. PICK q \in Runs : q = caller[c].run /\ ex[q].pc # "none"
  BY <1>2 DEF IInv, CallersSound, Active
<1>4. run[q] \in RunRecords /\ DOMAIN run = Runs
  BY <1>3, RunOfExecutor
<1>5. \E rec \in RunRecords : run' = [run EXCEPT ![q] = rec] /\ rec.status = run[q].status /\ rec.events = run[q].events
  <2> DEFINE Kept(rec) == rec \in RunRecords /\ rec.status = run[q].status /\ rec.events = run[q].events
  <2>1. /\ Kept(run[q]) /\ Kept([run[q] EXCEPT !.cancelRequested = TRUE]) /\ Kept([run[q] EXCEPT !.cancelEvent = TRUE])
        /\ Kept([run[q] EXCEPT !.gate = TRUE]) /\ Kept([run[q] EXCEPT !.pauseRequested = TRUE])
        /\ Kept([run[q] EXCEPT !.gate = FALSE]) /\ Kept([run[q] EXCEPT !.pauseRequested = FALSE])
    BY <1>4 DEF RunRecords
  <2>2. \/ run' = [run EXCEPT ![q] = run[q]]
        \/ run' = [run EXCEPT ![q] = [run[q] EXCEPT !.cancelRequested = TRUE]]
        \/ run' = [run EXCEPT ![q] = [run[q] EXCEPT !.cancelEvent = TRUE]]
        \/ run' = [run EXCEPT ![q] = [run[q] EXCEPT !.gate = TRUE]]
        \/ run' = [run EXCEPT ![q] = [run[q] EXCEPT !.pauseRequested = TRUE]]
        \/ run' = [run EXCEPT ![q] = [run[q] EXCEPT !.gate = FALSE]]
        \/ run' = [run EXCEPT ![q] = [run[q] EXCEPT !.pauseRequested = FALSE]]
    <3> DEFINE Goal == \/ run' = run
                       \/ run' = [run EXCEPT ![q].cancelRequested = TRUE] \/ run' = [run EXCEPT ![q].cancelEvent = TRUE]
                       \/ run' = [run EXCEPT ![q].gate = TRUE] \/ run' = [run EXCEPT ![q].pauseRequested = TRUE]
                       \/ run' = [run EXCEPT ![q].gate = FALSE] \/ run' = [run EXCEPT ![q].pauseRequested = FALSE]
    <3>7. Goal
      <4>1. CASE CancelFlag(c)
        BY <1>3, <4>1 DEF CancelFlag
      <4>2. CASE CancelSet(c)
        BY <1>3, <4>2 DEF CancelSet
      <4>3. CASE OpenGate(c)
        BY <1>3, <4>3 DEF OpenGate
      <4>4. CASE PauseFlag(c)
        BY <1>3, <4>4 DEF PauseFlag
      <4>5. CASE ShutGate(c)
        BY <1>3, <4>5 DEF ShutGate
      <4>6. CASE ResumeFlag(c)
        BY <1>3, <4>6 DEF ResumeFlag
      <4> QED BY <4>1, <4>2, <4>3, <4>4, <4>5, <4>6 DEF Control
    <3>8. run = [run EXCEPT ![q] = run[q]]
      BY <1>3, RunOfExecutor
    <3> QED BY <1>4, <3>7, <3>8
  <2> QED BY <2>1, <2>2
<1>6. /\ DOMAIN caller' = Callers
      /\ \A d \in Callers \ {c} : caller'[d] = caller[d]
      /\ caller'[c].run = caller[c].run \/ caller'[c].pc = "refused"
  <2>7. DOMAIN caller = Callers
    BY DEF IInv, Typed
  <2>1. CASE CancelFlag(c)
    BY <2>7, <2>1 DEF CancelFlag, Step, Refuse, Refused
  <2>2. CASE CancelSet(c)
    BY <2>7, <2>2 DEF CancelSet, Step, Refuse, Refused
  <2>3. CASE OpenGate(c)
    BY <2>7, <2>3 DEF OpenGate, Step, Refuse, Refused
  <2>4. CASE PauseFlag(c)
    <3>1. Refuse(c) \/ \E pc : Step(c, pc)
      BY <2>4, Zenon DEF PauseFlag
    <3>2. CASE Refuse(c)
      BY <2>7, <3>2 DEF Refuse, Refused
    <3>3. ASSUME NEW pc, Step(c, pc) PROVE caller'[c].run = caller[c].run /\ DOMAIN caller' = Callers
                                           /\ \A d \in Callers \ {c} : caller'[d] = caller[d]
      BY <2>7, <3>3 DEF Step
    <3> QED BY <3>1, <3>2, <3>3
  <2>5. CASE ShutGate(c)
    BY <2>7, <2>5 DEF ShutGate, Step, Refuse, Refused
  <2>6. CASE ResumeFlag(c)
    <3>1. Refuse(c) \/ \E pc : Step(c, pc)
      BY <2>6, Zenon DEF ResumeFlag
    <3>2. CASE Refuse(c)
      BY <2>7, <3>2 DEF Refuse, Refused
    <3>3. ASSUME NEW pc, Step(c, pc) PROVE caller'[c].run = caller[c].run /\ DOMAIN caller' = Callers
                                           /\ \A d \in Callers \ {c} : caller'[d] = caller[d]
      BY <2>7, <3>3 DEF Step
    <3> QED BY <3>1, <3>2, <3>3
  <2> QED BY <2>1, <2>2, <2>3, <2>4, <2>5, <2>6 DEF Control
<1>7. PICK rec \in RunRecords : run' = [run EXCEPT ![q] = rec] /\ rec.status = run[q].status /\ rec.events = run[q].events
  BY <1>5
<1>8. run' \in [Runs -> {None} \cup RunRecords] /\ \A p \in Runs : run'[p] = IF p = q THEN rec ELSE run[p]
  BY <1>4, <1>7 DEF IInv, Typed
<1>9. \A d \in Callers : \/ caller'[d].pc \notin Active
                         \/ caller'[d].run \in Runs /\ ex[caller'[d].run].pc # "none"
  BY <1>3, <1>6 DEF IInv, CallersSound, Active
<1> QED BY <1>1, <1>3, <1>6, <1>7, <1>8, <1>9, FlagKeeps DEF Active

LEMMA CallKeeps == ASSUME IInv, NEW c \in Callers, Call(c) PROVE IInv' /\ LogsGrow
<1>1. PICK call \in CallsOf[c], r \in {q \in Runs : run[q] # None} :
        caller' = [caller EXCEPT ![c] = IF IsTerminal(r) THEN Refused ELSE [pc |-> call, call |-> call, run |-> r]]
  BY DEF Call
<1>2. run' = run /\ ex' = ex /\ creator' = creator
  BY DEF Call, still, requests
<1>3. ex[r].pc # "none"
  BY DEF IInv, RunsSound
<1>4. /\ DOMAIN caller' = Callers
      /\ \A d \in Callers \ {c} : caller'[d] = caller[d]
      /\ caller'[c].run = r \/ caller'[c].pc = "refused"
  BY <1>1 DEF IInv, Typed, Refused
<1>5. \A d \in Callers : \/ caller'[d].pc \notin Active
                         \/ caller'[d].run \in Runs /\ ex[caller'[d].run].pc # "none"
  BY <1>3, <1>4 DEF IInv, CallersSound, Active
<1> QED BY <1>2, <1>4, <1>5, FlagKeeps DEF IInv, Typed, Active

LEMMA FreshSound == ASSUME NEW w \in Workflows PROVE Sound(Fresh(w), "start")
<1>1. Fresh(w) \in RunRecords
  <2>1. <<>> \in Seq(EventTypes \X Nat) /\ "pending" \in Statuses
    BY DEF Statuses
  <2> QED BY <2>1 DEF Fresh, RunRecords
<1>2. Len(Fresh(w).events) = 0 /\ Fresh(w).status \notin TerminalStates /\ "start" \in ExPcs /\ "start" # "done"
  BY DEF Fresh, TerminalStates, ExPcs
<1> QED BY <1>1, <1>2 DEF Sound

LEMMA CreateKeeps == ASSUME IInv, NEW c \in Creators, Create(c) PROVE IInv' /\ LogsGrow
<1>1. CASE Lookup(c) \/ Store(c)
  <2>1. /\ UNCHANGED <<run, ex, caller>> /\ DOMAIN creator' = Creators
        /\ \A d \in Creators : creator'[d].pc \in {"ask", "create"} => creator[d].pc \in {"ask", "create"}
    <3>1. DOMAIN creator = Creators
      BY DEF IInv, Typed
    <3>2. CASE Lookup(c)
      BY <3>1, <3>2 DEF Lookup, LookupWith
    <3>3. CASE Store(c)
      BY <3>1, <3>3 DEF Store
    <3> QED BY <1>1, <3>2, <3>3
  <2>2. \A r \in Runs : ex[r].pc # "none" => Longer(run[r].events, run[r].events)
    BY RunOfExecutor
  <2> QED BY <2>1, <2>2 DEF IInv, Typed, RunsSound, CallersSound, LogsGrow, Runs
<1>2. CASE CreateAndStart(c)
  <2>1. PICK w \in Workflows : run' = [run EXCEPT ![c] = Fresh(w)]
    BY <1>2 DEF CreateAndStart
  <2>2. /\ creator[c].pc = "create" /\ ex' = [ex EXCEPT ![c].pc = "start"]
        /\ creator' = [creator EXCEPT ![c].pc = "store"] /\ caller' = caller /\ c \in Runs
    BY <1>2 DEF CreateAndStart, Runs
  <2>3. Sound(Fresh(w), "start") /\ Fresh(w) \in RunRecords /\ "start" \in ExPcs
    BY FreshSound DEF Sound
  <2>4. /\ \A q \in Runs : run'[q] = IF q = c THEN Fresh(w) ELSE run[q]
        /\ \A q \in Runs : ex'[q].pc = IF q = c THEN "start" ELSE ex[q].pc
        /\ \A q \in Runs : creator'[q].pc = IF q = c THEN "store" ELSE creator[q].pc
    BY <2>1, <2>2 DEF IInv, Typed, Runs
  <2>5. Typed'
    BY <2>1, <2>2, <2>3 DEF IInv, Typed
  <2>6. RunsSound'
    BY <2>3, <2>4 DEF IInv, RunsSound
  <2>7. CallersSound'
    BY <2>2, <2>4 DEF IInv, CallersSound
  <2>8. \A r \in Runs : ex[r].pc # "none" => Longer(run[r].events, run[r].events) /\ r # c
    BY <2>2, RunOfExecutor DEF IInv, RunsSound
  <2>9. LogsGrow
    BY <2>4, <2>8 DEF LogsGrow
  <2> QED BY <2>5, <2>6, <2>7, <2>9 DEF IInv
<1> QED BY <1>1, <1>2 DEF Create

LEMMA StreamKeeps == ASSUME IInv, NEW s \in Streams, OpenStream(s) \/ Serve(s) \/ Disconnect(s) PROVE IInv' /\ LogsGrow
<1>1. UNCHANGED <<run, ex, creator, caller>>
  BY DEF OpenStream, Serve, Drained, Follow, Nothing, Disconnect, quiet, requests
<1>2. \A r \in Runs : ex[r].pc # "none" => Longer(run[r].events, run[r].events)
  BY RunOfExecutor
<1> QED BY <1>1, <1>2 DEF IInv, Typed, RunsSound, CallersSound, LogsGrow

LEMMA InitInv == Init => IInv
BY DEF Init, IInv, Typed, RunsSound, CallersSound, ExPcs, Runs

LEMMA NextInv == IInv /\ [Next]_vars => IInv'
<1> SUFFICES ASSUME IInv, [Next]_vars PROVE IInv'
  OBVIOUS
<1>1. CASE UNCHANGED vars
  BY <1>1 DEF vars, IInv, Typed, RunsSound, CallersSound
<1> QED
  BY <1>1, CreateKeeps, ExecuteKeeps, DeadlineKeeps, CallKeeps, ControlKeeps, StreamKeeps DEF Next

LEMMA Invariance == Spec => []IInv
BY InitInv, NextInv, PTL DEF Spec

\* A reader that finds a run ended finds the event that ended it, the last of
\* the log and the only one of its kind (python executor.py: the terminal event
\* and the status are set under one hold of the condition).
THEOREM EndIsInTheLog == Spec => []EndsWithItsEvent
<1>1. IInv => EndsWithItsEvent
  <2> SUFFICES ASSUME IInv, NEW r \in Runs, run[r] # None
               PROVE  /\ IsTerminal(r) <=> \E i \in DOMAIN Types(r) : Types(r)[i] \in TerminalEvents
                      /\ \A i \in DOMAIN Types(r) : Types(r)[i] \in TerminalEvents => i = Len(Types(r))
    BY DEF EndsWithItsEvent
  <2>1. Sound(run[r], ex[r].pc)
    BY DEF IInv, RunsSound
  <2>2. /\ run[r].events \in Seq(EventTypes \X Nat) /\ Len(run[r].events) \in Nat
        /\ DOMAIN run[r].events = 1..Len(run[r].events)
    BY <2>1 DEF Sound, RunRecords
  <2>3. Types(r) = [i \in 1..Len(run[r].events) |-> run[r].events[i][1]]
    BY <2>2 DEF Types, EventsOf
  <2>4. DOMAIN Types(r) = 1..Len(run[r].events) /\ Len(Types(r)) = Len(run[r].events)
    BY <2>2, <2>3
  <2>5. \A i \in 1..Len(run[r].events) : Types(r)[i] = run[r].events[i][1]
    BY <2>3
  <2>6. IsTerminal(r) <=> ex[r].pc = "done"
    BY <2>1 DEF Sound, IsTerminal
  <2>7. \A i \in DOMAIN Types(r) : Types(r)[i] \in TerminalEvents => i = Len(Types(r)) /\ ex[r].pc = "done"
    BY <2>1, <2>4, <2>5 DEF Sound
  <2>8. ex[r].pc = "done" => \E i \in DOMAIN Types(r) : Types(r)[i] \in TerminalEvents
    BY <2>1, <2>2, <2>4, <2>5 DEF Sound
  <2> QED BY <2>6, <2>7, <2>8
<1> QED BY <1>1, Invariance, PTL

---------------------------------------------------------------------------
(* What a copy of the log sends *)

\* A set of naturals that is not empty has a least element.
LEMMA LeastNatural ==
  ASSUME NEW T, T \subseteq Nat, T # {}
  PROVE  \E m \in T : \A k \in T : m <= k
<1> DEFINE R == OpToRel(<, Nat)
<1>1. IsWellFoundedOn(R, Nat)
  BY NatLessThanWellFounded
<1>2. PICK m \in T : \A k \in T : ~ (<<k, m>> \in R)
  <2> HIDE DEF R
  <2> QED BY <1>1, WFMin, Zenon
<1>3. \A k, l \in Nat : k < l => <<k, l>> \in R
  BY DEF OpToRel
<1>4. \A k \in T : m <= k
  <2> TAKE k \in T
  <2>1. k \in Nat /\ m \in Nat
    OBVIOUS
  <2>2. ~ (k < m)
    <3> HIDE DEF R
    <3> QED BY <1>2, <1>3, <2>1, Zenon
  <2> QED BY <2>1, <2>2
<1> QED BY <1>4

Solution(f, n, S, base, step) == f \in [0..n -> S] /\ f[0] = base /\ \A i \in 1..n : f[i] = step[i][f[i - 1]]

\* A recurrence over 0..n has a solution.
LEMMA Recurrence ==
  ASSUME NEW n \in Nat, NEW S, NEW base \in S, NEW step \in [1..n -> [S -> S]]
  PROVE  \E f : Solution(f, n, S, base, step)
<1> USE DEF Solution
<1> DEFINE Solves(m, f) == Solution(f, m, S, base, step)
           Bad == {m \in 0..n : ~ \E f : Solves(m, f)}
<1>1. SUFFICES ASSUME Bad # {} PROVE FALSE
  <2>1. n \notin Bad => \E f : Solves(n, f)
    OBVIOUS
  <2> QED BY <2>1
<1>2. PICK m \in Bad : \A k \in Bad : m <= k
  <2>1. Bad \subseteq Nat
    OBVIOUS
  <2> HIDE DEF Bad
  <2> QED BY <1>1, <2>1, LeastNatural, Zenon
<1>3. m \in 0..n /\ ~ \E f : Solves(m, f)
  OBVIOUS
<1>4. m # 0
  <2>1. Solves(0, [i \in 0..0 |-> base])
    OBVIOUS
  <2> QED BY <1>3, <2>1
<1>5. m - 1 \in 0..n /\ m - 1 \notin Bad
  <2>1. m - 1 \in 0..n /\ ~(m <= m - 1)
    BY <1>3, <1>4
  <2> QED BY <1>2, <2>1
<1>6. PICK f : Solves(m - 1, f)
  BY <1>5
<1>7. Solves(m, [i \in 0..m |-> IF i = m THEN step[m][f[m - 1]] ELSE f[i]])
  <2>1. f[m - 1] \in S /\ m \in 1..n
    BY <1>3, <1>4, <1>6
  <2>2. step[m][f[m - 1]] \in S
    BY <2>1
  <2> DEFINE g == [i \in 0..m |-> IF i = m THEN step[m][f[m - 1]] ELSE f[i]]
  <2>3. g \in [0..m -> S]
    BY <2>2, <1>6, <1>3
  <2>4. g[0] = base
    BY <1>4, <1>3, <1>6
  <2>5. ASSUME NEW i \in 1..m PROVE g[i] = step[i][g[i - 1]]
    <3>1. CASE i = m
      BY <3>1, <1>3, <1>4
    <3>2. CASE i # m
      BY <3>2, <1>3, <1>6
    <3> QED BY <3>1, <3>2
  <2> QED BY <2>3, <2>4, <2>5
<1> QED BY <1>3, <1>7

\* The positions of a log between two cursors that a mode lets through.
DueOf(mode, log, from, high) == {i \in 1..Len(log) : i > from /\ i <= high /\ Matches(mode, log[i][1])}

\* What is sent is a set of positions in order, each of them once.
Exact(sent, due) ==
  /\ sent \in Seq(Nat) /\ {sent[i] : i \in DOMAIN sent} = due
  /\ \A i, j \in DOMAIN sent : i < j => sent[i] < sent[j]

LEMMA ExactJoin ==
  ASSUME NEW q, NEW S, NEW t, NEW T, Exact(q, S), Exact(t, T), \A x \in S, y \in T : x < y
  PROVE  Exact(q \o t, S \cup T)
<1> DEFINE u == q \o t
<1>1. /\ q \in Seq(Nat) /\ t \in Seq(Nat) /\ Len(q) \in Nat /\ Len(t) \in Nat
      /\ DOMAIN q = 1..Len(q) /\ DOMAIN t = 1..Len(t)
      /\ u \in Seq(Nat) /\ DOMAIN u = 1..(Len(q) + Len(t))
      /\ \A i \in 1..(Len(q) + Len(t)) : u[i] = IF i <= Len(q) THEN q[i] ELSE t[i - Len(q)]
  BY DEF Exact
<1> HIDE DEF u
<1>2. \A i \in DOMAIN u : (i \in DOMAIN q /\ u[i] = q[i]) \/ (i > Len(q) /\ i - Len(q) \in DOMAIN t /\ u[i] = t[i - Len(q)])
  BY <1>1
<1>3. \A i \in DOMAIN u : u[i] \in S \cup T
  BY <1>1, <1>2 DEF Exact
<1>4. \A x \in S : \E i \in DOMAIN u : u[i] = x
  <2> TAKE x \in S
  <2>1. PICK i \in DOMAIN q : q[i] = x
    BY DEF Exact
  <2>2. i \in DOMAIN u /\ u[i] = x
    BY <1>1, <2>1
  <2> QED BY <2>2
<1>5. \A x \in T : \E i \in DOMAIN u : u[i] = x
  <2> TAKE x \in T
  <2>1. PICK i \in DOMAIN t : t[i] = x
    BY DEF Exact
  <2>2. /\ i \in 1..Len(t) /\ i + Len(q) \in 1..(Len(q) + Len(t)) /\ ~(i + Len(q) <= Len(q)) /\ (i + Len(q)) - Len(q) = i
    BY <1>1, <2>1
  <2>3. i + Len(q) \in DOMAIN u /\ u[i + Len(q)] = t[(i + Len(q)) - Len(q)]
    BY <1>1, <2>2
  <2>4. u[i + Len(q)] = x
    BY <2>1, <2>2, <2>3
  <2> QED BY <2>3, <2>4
<1>6. ASSUME NEW i \in DOMAIN u, NEW j \in DOMAIN u, i < j PROVE u[i] < u[j]
  <2>1. CASE i \in DOMAIN q /\ j \in DOMAIN q
    BY <1>1, <1>6, <2>1 DEF Exact
  <2>2. CASE i \in DOMAIN q /\ j \notin DOMAIN q
    <3>1. u[i] = q[i] /\ j - Len(q) \in DOMAIN t /\ u[j] = t[j - Len(q)]
      BY <1>1, <2>2, <1>2
    <3>2. q[i] \in S /\ t[j - Len(q)] \in T
      BY <2>2, <3>1 DEF Exact
    <3> QED BY <3>1, <3>2
  <2>3. CASE i \notin DOMAIN q
    <3>1. /\ i - Len(q) \in DOMAIN t /\ j - Len(q) \in DOMAIN t /\ i - Len(q) < j - Len(q)
          /\ u[i] = t[i - Len(q)] /\ u[j] = t[j - Len(q)]
      <4>1. i \in Nat /\ j \in Nat /\ Len(q) \in Nat /\ Len(q) < i /\ i < j /\ j \notin DOMAIN q
        BY <1>1, <1>6, <2>3
      <4> QED BY <1>2, <2>3, <4>1
    <3> QED BY <3>1 DEF Exact
  <2> QED BY <2>1, <2>2, <2>3
<1>7. {u[i] : i \in DOMAIN u} = S \cup T
  BY <1>3, <1>4, <1>5
<1>8. Exact(u, S \cup T)
  BY <1>1, <1>6, <1>7 DEF Exact
<1> QED BY <1>8 DEF u

LEMMA ExactOne == ASSUME NEW x \in Nat PROVE Exact(<<x>>, {x})
<1> DEFINE q == <<x>>
<1>1. q \in Seq(Nat) /\ DOMAIN q = {1} /\ q[1] = x
  OBVIOUS
<1> QED BY <1>1 DEF Exact

\* One copy of the log sends every position past its cursor, once, in order.
LEMMA SinceExact ==
  ASSUME NEW r, NEW log \in Seq(EventTypes \X Nat), run[r].events = log, NEW mode, NEW after \in Nat
  PROVE  Exact(Since(r, mode, after), DueOf(mode, log, after, Len(log)))
<1> DEFINE Through(n) == n > after /\ Matches(mode, log[n][1])
           Q == Seq(Nat)
           step == [n \in 1..Len(log) |-> [q \in Q |-> IF Through(n) THEN Append(q, n) ELSE q]]
           sent == CHOOSE f : f = [n \in 0 .. Len(log) |->
             IF n = 0 THEN <<>>
             ELSE IF n > after /\ Matches(mode, log[n][1]) THEN Append(f[n - 1], n) ELSE f[n - 1]]
           Upto(n) == {i \in 1..n : Through(i)}
<1>1. step \in [1..Len(log) -> [Q -> Q]]
  OBVIOUS
<1>2. PICK f \in [0..Len(log) -> Q] : f[0] = <<>> /\ \A n \in 1..Len(log) : f[n] = step[n][f[n - 1]]
  <2>1. <<>> \in Q /\ Len(log) \in Nat
    OBVIOUS
  <2> HIDE DEF step, Q, sent
  <2> DEFINE m == Len(log)
             base == <<>>
  <2>2. m \in Nat /\ base \in Q /\ step \in [1..m -> [Q -> Q]]
    BY <1>1, <2>1
  <2>3. \E f \in [0..m -> Q] : Solution(f, m, Q, base, step)
    <3>1. \E f : Solution(f, m, Q, base, step)
      <4> HIDE DEF m, base
      <4> QED BY <2>2, Recurrence, Zenon
    <3> QED BY <3>1 DEF Solution
  <2> QED BY <2>3 DEF Solution
<1>3. f = [n \in 0 .. Len(log) |->
             IF n = 0 THEN <<>>
             ELSE IF n > after /\ Matches(mode, log[n][1]) THEN Append(f[n - 1], n) ELSE f[n - 1]]
  <2>1. ASSUME NEW n \in 1..Len(log) PROVE f[n] = IF Through(n) THEN Append(f[n - 1], n) ELSE f[n - 1]
    <3>1. f[n - 1] \in Q /\ f[n] = step[n][f[n - 1]]
      <4>1. n - 1 \in 0..Len(log)
        OBVIOUS
      <4> HIDE DEF step, Q, sent
      <4> QED BY <1>2, <4>1
    <3>2. step[n] = [q \in Q |-> IF Through(n) THEN Append(q, n) ELSE q]
      OBVIOUS
    <3> HIDE DEF step, Q, Through, sent
    <3> QED BY <3>1, <3>2
  <2>2. \A n \in 0..Len(log) : n = 0 \/ n \in 1..Len(log)
    OBVIOUS
  <2> HIDE DEF step, Q, sent
  <2> QED BY <1>2, <2>1, <2>2
<1>4. sent = [n \in 0 .. Len(log) |->
                IF n = 0 THEN <<>>
                ELSE IF n > after /\ Matches(mode, log[n][1]) THEN Append(sent[n - 1], n) ELSE sent[n - 1]]
  BY <1>3, Zenon
<1>5. Since(r, mode, after) = sent[Len(log)]
  BY Zenon DEF Since
<1>6. Len(log) \in Nat /\ sent[0] = <<>>
      /\ \A n \in 1..Len(log) : sent[n] = IF Through(n) THEN Append(sent[n - 1], n) ELSE sent[n - 1]
  <2> HIDE DEF sent, step
  <2>1. Len(log) \in Nat
    OBVIOUS
  <2>2. sent[0] = <<>>
    BY <1>4, <2>1
  <2>3. ASSUME NEW n \in 1..Len(log) PROVE sent[n] = IF Through(n) THEN Append(sent[n - 1], n) ELSE sent[n - 1]
    <3>1. n \in 0..Len(log) /\ n # 0
      BY <2>1
    <3> QED BY <1>4, <3>1
  <2> QED BY <2>1, <2>2, <2>3
<1> HIDE DEF sent
<1>7. \A n \in 0..Len(log) : Exact(sent[n], Upto(n))
  <2> DEFINE Bad == {n \in 0..Len(log) : ~Exact(sent[n], Upto(n))}
  <2>1. SUFFICES ASSUME Bad # {} PROVE FALSE
    OBVIOUS
  <2>2. PICK n \in Bad : \A k \in Bad : n <= k
    <3>1. Bad \subseteq Nat
      OBVIOUS
    <3> HIDE DEF Bad
    <3> QED BY <2>1, <3>1, LeastNatural, Zenon
  <2>3. n \in 0..Len(log) /\ ~Exact(sent[n], Upto(n))
    OBVIOUS
  <2>4. n # 0
    <3>1. Exact(sent[0], {})
      BY <1>6 DEF Exact
    <3>2. Upto(0) = {}
      OBVIOUS
    <3> QED BY <2>3, <3>1, <3>2
  <2>5. n - 1 \in 0..Len(log) /\ n \in 1..Len(log) /\ n - 1 \notin Bad
    <3>1. n \in Nat /\ n - 1 \in Nat /\ ~(n <= n - 1) /\ n - 1 \in 0..Len(log) /\ n \in 1..Len(log)
      BY <1>6, <2>3, <2>4
    <3> HIDE DEF Bad
    <3> QED BY <2>2, <3>1
  <2>6. Exact(sent[n - 1], Upto(n - 1))
    BY <2>5
  <2>7. CASE Through(n)
    <3>1. Upto(n) = Upto(n - 1) \cup {n} /\ \A x \in Upto(n - 1) : x < n
      BY <2>5, <2>7
    <3>2. sent[n] = sent[n - 1] \o <<n>>
      <4>1. sent[n - 1] \in Seq(Nat) /\ sent[n] = Append(sent[n - 1], n)
        BY <1>6, <2>5, <2>6, <2>7 DEF Exact
      <4>2. n \in Nat
        BY <2>5
      <4> QED BY <4>1, <4>2
    <3>3. Exact(<<n>>, {n})
      BY <2>5, ExactOne
    <3>4. Exact(sent[n - 1] \o <<n>>, Upto(n - 1) \cup {n})
      <4> HIDE DEF Upto
      <4> QED BY <2>6, <3>1, <3>3, ExactJoin
    <3> QED BY <2>3, <3>1, <3>2, <3>4
  <2>8. CASE ~Through(n)
    <3>1. Upto(n) = Upto(n - 1) /\ sent[n] = sent[n - 1]
      BY <1>6, <2>5, <2>8
    <3> QED BY <2>3, <2>6, <3>1
  <2> QED BY <2>7, <2>8
<1>8. Upto(Len(log)) = DueOf(mode, log, after, Len(log))
  BY <1>6 DEF DueOf
<1>9. Exact(sent[Len(log)], Upto(Len(log)))
  <2> HIDE DEF Upto
  <2> QED BY <1>6, <1>7
<1> QED BY <1>5, <1>8, <1>9

---------------------------------------------------------------------------
(* What a stream has sent *)

StreamSound(st) ==
  /\ DOMAIN st = {"pc", "run", "mode", "from", "high", "sent"}
  /\ st.run \in Runs /\ ex[st.run].pc # "none"
  /\ st.from \in Nat /\ st.high \in Nat /\ st.from <= st.high
  /\ st.high <= Len(run[st.run].events) \/ st.high = st.from
  /\ Exact(st.sent, DueOf(st.mode, run[st.run].events, st.from, st.high))

StreamsSound == DOMAIN stream = Streams /\ \A s \in Streams : stream[s].pc \notin {"off", "gone"} => StreamSound(stream[s])

\* More events after the cursor do not change what was due before it.
LEMMA GrowthKeepsStream ==
  ASSUME IInv, IInv', LogsGrow, NEW st, StreamSound(st)
  PROVE  StreamSound(st)'
<1>1. PICK r \in Runs : r = st.run
  BY DEF StreamSound
<1>2. /\ ex'[r].pc # "none" /\ Longer(run[r].events, run'[r].events)
  BY <1>1 DEF StreamSound, LogsGrow
<1>3. Len(run[r].events) \in Nat /\ Len(run'[r].events) \in Nat
  BY <1>1, <1>2 DEF StreamSound, IInv, RunsSound, Sound, RunRecords
<1>4. /\ st.from \in Nat /\ st.high \in Nat /\ (st.high <= Len(run[r].events) \/ st.high = st.from)
  BY <1>1 DEF StreamSound
<1>5. DueOf(st.mode, run'[r].events, st.from, st.high) = DueOf(st.mode, run[r].events, st.from, st.high)
  BY <1>2, <1>3, <1>4 DEF DueOf, Longer
<1>6. st.high <= Len(run'[r].events) \/ st.high = st.from
  BY <1>2, <1>3, <1>4 DEF Longer
<1> QED BY <1>1, <1>2, <1>5, <1>6 DEF StreamSound

LEMMA OpenSound ==
  ASSUME IInv, StreamsSound, NEW s \in Streams, OpenStream(s)
  PROVE  StreamsSound'
<1>1. PICK r \in {q \in Runs : run[q] # None}, ask \in Asks :
        stream' = [stream EXCEPT ![s] =
          [pc |-> "drained", run |-> r, mode |-> ask[1], from |-> ask[2],
           high |-> Reached(r, ask[2]), sent |-> Since(r, ask[1], ask[2])]]
  BY DEF OpenStream
<1>2. UNCHANGED <<run, ex>>
  BY DEF OpenStream, quiet
<1>3. ex[r].pc # "none" /\ run[r].events \in Seq(EventTypes \X Nat) /\ Len(run[r].events) \in Nat
  BY DEF IInv, RunsSound, Sound, RunRecords
<1>4. ask[2] \in Nat
  BY HostAssumption
<1> DEFINE log == run[r].events
           high == Reached(r, ask[2])
<1>5. Exact(Since(r, ask[1], ask[2]), DueOf(ask[1], log, ask[2], Len(log)))
  BY <1>3, <1>4, SinceExact
<1>6. high \in Nat /\ ask[2] <= high /\ Len(log) <= high /\ (high <= Len(log) \/ high = ask[2])
  BY <1>3, <1>4 DEF Reached
<1>7. DueOf(ask[1], log, ask[2], high) = DueOf(ask[1], log, ask[2], Len(log))
  BY <1>3, <1>4, <1>6 DEF DueOf
<1>8. StreamSound(stream[s])'
  <2>1. stream'[s] = [pc |-> "drained", run |-> r, mode |-> ask[1], from |-> ask[2],
                      high |-> high, sent |-> Since(r, ask[1], ask[2])]
    BY <1>1 DEF StreamsSound
  <2>2. /\ DOMAIN stream'[s] = {"pc", "run", "mode", "from", "high", "sent"}
        /\ stream'[s].run = r /\ stream'[s].mode = ask[1] /\ stream'[s].from = ask[2]
        /\ stream'[s].high = high /\ stream'[s].sent = Since(r, ask[1], ask[2])
    BY <2>1
  <2>3. run' = run /\ ex' = ex
    BY <1>2
  <2> HIDE DEF high
  <2> QED BY <1>3, <1>4, <1>5, <1>6, <1>7, <2>2, <2>3 DEF StreamSound
<1>9. \A q \in Streams \ {s} : stream'[q] = stream[q]
  BY <1>1 DEF StreamsSound
<1>10. DOMAIN stream' = Streams
  BY <1>1 DEF StreamsSound
<1>11. \A q \in Streams \ {s} : stream'[q].pc \notin {"off", "gone"} => StreamSound(stream[q])'
  BY <1>2, <1>9 DEF StreamsSound, StreamSound
<1> QED BY <1>8, <1>10, <1>11 DEF StreamsSound

\* A step of one stream that leaves it sound, or gone.
LEMMA ServedSound ==
  ASSUME StreamsSound, NEW s \in Streams, NEW new, stream' = [stream EXCEPT ![s] = new],
         UNCHANGED <<run, ex>>, new.pc = "gone" \/ StreamSound(new)
  PROVE  StreamsSound'
<1>1. DOMAIN stream' = Streams /\ stream'[s] = new /\ \A q \in Streams \ {s} : stream'[q] = stream[q]
  BY DEF StreamsSound
<1>2. \A q \in Streams \ {s} : stream'[q].pc \notin {"off", "gone"} => StreamSound(stream[q])'
  BY <1>1 DEF StreamsSound, StreamSound
<1>3. stream'[s].pc = "gone" \/ StreamSound(stream[s])'
  BY <1>1 DEF StreamSound
<1> QED BY <1>1, <1>2, <1>3 DEF StreamsSound

LEMMA ServeSound ==
  ASSUME IInv, StreamsSound, NEW s \in Streams, Serve(s) \/ Disconnect(s)
  PROVE  StreamsSound'
<1> DEFINE st == stream[s]
<1>1. UNCHANGED <<run, ex>> /\ DOMAIN stream = Streams
  BY DEF Serve, Drained, Follow, Nothing, Disconnect, quiet, StreamsSound
<1>2. ASSUME st.pc \notin {"off", "gone"}
      PROVE  StreamSound(st)
  BY <1>2 DEF StreamsSound
<1>3. CASE Disconnect(s)
  BY <1>1, <1>3, ServedSound DEF Disconnect
<1>4. CASE Drained(s) \/ Nothing(s)
  <2>1. PICK pc : stream' = [stream EXCEPT ![s] = [st EXCEPT !.pc = pc]]
    BY <1>1, <1>4 DEF Drained, Nothing
  <2>2. StreamSound(st)
    BY <1>2, <1>4 DEF Drained, Nothing
  <2> DEFINE new == [st EXCEPT !.pc = pc]
  <2>3. DOMAIN new = DOMAIN st /\ new.run = st.run /\ new.mode = st.mode /\ new.from = st.from /\ new.high = st.high /\ new.sent = st.sent
    OBVIOUS
  <2>4. StreamSound(new)
    <3> HIDE DEF new, st
    <3> QED BY <2>2, <2>3 DEF StreamSound
  <2> QED BY <1>1, <2>1, <2>4, ServedSound
<1>5. CASE Follow(s)
  <2>1. StreamSound(st)
    BY <1>2, <1>5 DEF Follow
  <2>2. PICK r \in Runs : r = st.run
    BY <2>1 DEF StreamSound
  <2> DEFINE log == run[r].events
             now == Reached(r, st.high)
             sent == st.sent \o Since(r, st.mode, st.high)
  <2>3. PICK pc : stream' = [stream EXCEPT ![s] = [st EXCEPT !.sent = sent, !.high = now, !.pc = pc]]
    BY <1>1, <1>5, <2>2 DEF Follow
  <2>4. /\ ex[r].pc # "none" /\ st.from \in Nat /\ st.high \in Nat /\ st.from <= st.high
        /\ st.high <= Len(log) \/ st.high = st.from
        /\ Exact(st.sent, DueOf(st.mode, log, st.from, st.high))
    BY <2>1, <2>2 DEF StreamSound
  <2>5. log \in Seq(EventTypes \X Nat) /\ Len(log) \in Nat
    BY <2>4 DEF IInv, RunsSound, Sound, RunRecords
  <2>6. Exact(Since(r, st.mode, st.high), DueOf(st.mode, log, st.high, Len(log)))
    BY <2>4, <2>5, SinceExact
  <2>7. Exact(sent, DueOf(st.mode, log, st.from, st.high) \cup DueOf(st.mode, log, st.high, Len(log)))
    <3>1. \A x \in DueOf(st.mode, log, st.from, st.high), y \in DueOf(st.mode, log, st.high, Len(log)) : x < y
      BY <2>4, <2>5 DEF DueOf
    <3> QED BY <2>4, <2>6, <3>1, ExactJoin
  <2>8. /\ now \in Nat /\ st.high <= now /\ ((now = Len(log) /\ st.high < now) \/ (now = st.high /\ Len(log) <= now))
    BY <2>4, <2>5 DEF Reached
  <2>9. DueOf(st.mode, log, st.from, now) = DueOf(st.mode, log, st.from, st.high) \cup DueOf(st.mode, log, st.high, Len(log))
    BY <2>4, <2>5, <2>8 DEF DueOf
  <2> DEFINE new == [st EXCEPT !.sent = sent, !.high = now, !.pc = pc]
  <2>10. /\ DOMAIN new = {"pc", "run", "mode", "from", "high", "sent"}
         /\ new.run = r /\ new.mode = st.mode /\ new.from = st.from /\ new.high = now /\ new.sent = sent
    <3>1. DOMAIN st = {"pc", "run", "mode", "from", "high", "sent"}
      BY <2>1 DEF StreamSound
    <3> HIDE DEF st, now, sent
    <3> QED BY <2>2, <3>1
  <2>11. StreamSound(new)
    <3>1. now <= Len(log) \/ now = st.from
      <4> HIDE DEF now, st, log
      <4> QED BY <2>4, <2>5, <2>8
    <3>2. Exact(new.sent, DueOf(new.mode, run[new.run].events, new.from, new.high))
      <4> HIDE DEF new, now, sent, st
      <4> QED BY <2>7, <2>9, <2>10
    <3>3. new.from \in Nat /\ new.high \in Nat /\ new.from <= new.high
      <4> HIDE DEF new, now, sent, st
      <4> QED BY <2>4, <2>8, <2>10
    <3> HIDE DEF new, now, sent, st
    <3> QED BY <2>4, <2>10, <3>1, <3>2, <3>3 DEF StreamSound
  <2> QED BY <1>1, <2>3, <2>11, ServedSound
<1> QED BY <1>3, <1>4, <1>5 DEF Serve

\* No other step touches the streams.
LEMMA OthersLeaveStreams ==
  (\/ \E c \in Creators : Create(c)
   \/ \E r \in Runs : Execute(r) \/ Deadline(r)
   \/ \E c \in Callers : Call(c) \/ Control(c)) => stream' = stream
<1>1. \A c \in Creators : Create(c) => stream' = stream
  BY DEF Create, Lookup, LookupWith, CreateAndStart, Store
<1>2. \A r \in Runs : Execute(r) \/ Deadline(r) => stream' = stream
  BY DEF Execute, Start, LoopTop, CheckPause, Enter, DelayCancelled, DelayTimedOut, NodeDone, Unsupported, AfterNode,
         Park, Parked, Wake, Woken, Resumed, Breach, Fail, End, Deadline, others
<1>3. \A c \in Callers : Call(c) \/ Control(c) => stream' = stream
  BY DEF Call, Control, CancelFlag, CancelSet, OpenGate, PauseFlag, ShutGate, ResumeFlag, still
<1> QED BY <1>1, <1>2, <1>3

LEMMA NextStreams == IInv /\ StreamsSound /\ [Next]_vars => StreamsSound'
<1> SUFFICES ASSUME IInv, StreamsSound, [Next]_vars PROVE StreamsSound'
  OBVIOUS
<1>1. CASE UNCHANGED vars
  BY <1>1 DEF vars, StreamsSound, StreamSound
<1>2. ASSUME stream' = stream, IInv' /\ LogsGrow
      PROVE  StreamsSound'
  BY <1>2, GrowthKeepsStream DEF StreamsSound
<1>3. CASE \/ \E c \in Creators : Create(c)
           \/ \E r \in Runs : Execute(r) \/ Deadline(r)
           \/ \E c \in Callers : Call(c) \/ Control(c)
  <2>1. IInv' /\ LogsGrow
    BY <1>3, CreateKeeps, ExecuteKeeps, DeadlineKeeps, CallKeeps, ControlKeeps
  <2>2. stream' = stream
    BY <1>3, OthersLeaveStreams
  <2> QED BY <1>2, <2>1, <2>2
<1>4. CASE \E s \in Streams : OpenStream(s) \/ Serve(s) \/ Disconnect(s)
  BY <1>4, OpenSound, ServeSound
<1> QED BY <1>1, <1>3, <1>4 DEF Next

LEMMA InitStreams == Init => StreamsSound
BY DEF Init, StreamsSound

\* What a stream has sent is what its mode lets through of the events after its
\* cursor, in order, without a gap or a repetition, while the executor appends
\* (python sse.py: the cursor is the last event of the copy it sent from).
THEOREM StreamsAreExact == Spec => []StreamExact
<1>1. IInv /\ StreamsSound => StreamExact
  <2> SUFFICES ASSUME IInv, StreamsSound, NEW s \in Streams, stream[s].pc \notin {"off", "gone"}
               PROVE  LET st == stream[s]
                          due == {i \in DOMAIN Types(st.run) : i > st.from /\ i <= st.high /\ Matches(st.mode, Types(st.run)[i])}
                      IN  /\ {st.sent[i] : i \in DOMAIN st.sent} = due
                          /\ \A i, j \in DOMAIN st.sent : i < j => st.sent[i] < st.sent[j]
    BY DEF StreamExact
  <2> DEFINE st == stream[s]
  <2>1. StreamSound(st)
    BY DEF StreamsSound
  <2>2. PICK r \in Runs : r = st.run /\ ex[r].pc # "none"
    BY <2>1 DEF StreamSound
  <2>3. /\ run[r].events \in Seq(EventTypes \X Nat) /\ DOMAIN run[r].events = 1..Len(run[r].events)
        /\ run[r] # None
    BY <2>2, NoneAssumption DEF IInv, RunsSound, Sound, RunRecords
  <2> QED BY <2>1, <2>2, <2>3 DEF StreamSound, Exact, DueOf, Types, EventsOf
<1>2. IInv /\ StreamsSound /\ [Next]_vars => (IInv /\ StreamsSound)'
  BY NextInv, NextStreams
<1> QED BY <1>1, <1>2, InitInv, InitStreams, PTL DEF Spec
=============================================================================
