------------------------------ MODULE PythonHost -----------------------------
(***************************************************************************)
(* The Python host (python/src/openwop_host): an in-memory host of real    *)
(* threads.  Each run has an executor thread; every HTTP request is a      *)
(* thread of its own.  They share a run's fields without a lock, except    *)
(* that an event is appended, with the status it implies, under the run's  *)
(* condition, and readers copy the event list under it.                    *)
(*                                                                         *)
(* A step reads or writes shared state once (a test and the append that    *)
(* follows from it are one step where nothing in between can tell).  Time  *)
(* is not counted: a delay may be over, and the deadline of a run may      *)
(* pass, at any moment.  The executor waits in park_for_pause for the      *)
(* resume_event only: neither the deadline nor the cancel event wakes it.  *)
(* A bulk cancel does what a cancel does for every run it names.           *)
(***************************************************************************)
EXTENDS Integers, Sequences, FiniteSets

CONSTANTS Workflows,  \* node lists: sequences of "noop", "delay", "other"
          Creators,   \* requests to create a run, which name the run they create
          KeyOf,      \* the Idempotency-Key of each of them
          BodyOf,     \* its body
          Callers,    \* requests to cancel, pause or resume a run
          CallsOf,    \* what each of them may ask for
          Streams,    \* event-stream requests
          Asks,       \* what they may ask for: a mode, and the last event the client has
          MaxParks,   \* bound: how often a run parks while a pause is being asked for
          None

ASSUME HostAssumption ==
  /\ \A w \in Workflows : w \in Seq({"noop", "delay", "other"})
  /\ \A c \in Callers : CallsOf[c] \subseteq {"cancel", "pause", "resume"}
  /\ Asks \subseteq {"updates", "values"} \X Nat
  /\ MaxParks \in Nat
  /\ None \notin Creators

Runs == Creators

Keys == {KeyOf[c] : c \in Creators}

VARIABLES run,      \* each run's record, None until it is created
          ex,       \* where its executor is and at which node
          keyLock,  \* the per-key lock
          cache,    \* the idempotency cache of POST /v1/runs
          creator,  \* each create request: where it is and its reply
          caller,   \* each control request
          stream,   \* each stream: where it is, what it has sent
          raced     \* runs on which a pause cleared a gate opened since it began

vars == <<run, ex, keyLock, cache, creator, caller, stream, raced>>

TerminalEvents == {"run.completed", "run.failed", "run.cancelled"}

TerminalStates == {"completed", "failed", "cancelled"}

Statuses == {"pending", "running", "paused"} \cup TerminalStates

EventTypes ==
  TerminalEvents \cup {"run.started", "run.paused", "run.resumed", "cap.breached",
                       "node.started", "node.completed", "node.failed", "node.cancelled"}

RunRecords ==
  [nodes : Workflows, status : Statuses, events : Seq(EventTypes \X Nat), cancelRequested : BOOLEAN,
   cancelEvent : BOOLEAN, pauseRequested : BOOLEAN, gate : BOOLEAN, late : BOOLEAN]

ASSUME NoneAssumption == None \notin RunRecords

Fresh(w) ==
  [nodes |-> w, status |-> "pending", events |-> <<>>, cancelRequested |-> FALSE,
   cancelEvent |-> FALSE, pauseRequested |-> FALSE, gate |-> TRUE, late |-> FALSE]

IsTerminal(r) == run[r] # None /\ run[r].status \in TerminalStates

Init ==
  /\ run = [r \in Runs |-> None]
  /\ ex = [r \in Runs |-> [pc |-> "none", i |-> 1]]
  /\ keyLock = [k \in Keys |-> None]
  /\ cache = [k \in Keys |-> None]
  /\ creator = [c \in Creators |-> [pc |-> "ask", reply |-> None]]
  /\ caller = [c \in Callers |-> [pc |-> "idle", call |-> None, run |-> None]]
  /\ stream = [s \in Streams |-> [pc |-> "off"]]
  /\ raced = {}

-----------------------------------------------------------------------------
(* Creating a run                                                          *)

requests == <<keyLock, cache, creator>>

(* The lock of the key is held from the lookup to the reply, which is the  *)
(* run that the cache has for the key when the bodies agree.               *)
Answered(c, hit) == IF hit.body = BodyOf[c] THEN hit.run ELSE "mismatch"

LookupWith(c, free) ==
  LET hit == cache[KeyOf[c]] IN
  /\ creator[c].pc = "ask"
  /\ free
  /\ \/ /\ hit = None
        /\ keyLock' = [keyLock EXCEPT ![KeyOf[c]] = c]
        /\ creator' = [creator EXCEPT ![c].pc = "create"]
     \/ /\ hit # None
        /\ creator' = [creator EXCEPT ![c].pc = "done", ![c].reply = Answered(c, hit)]
        /\ UNCHANGED keyLock
  /\ UNCHANGED <<run, ex, cache, caller, stream, raced>>

Lookup(c) == LookupWith(c, keyLock[KeyOf[c]] = None)

(* create_and_start: register the run and start its executor.              *)
CreateAndStart(c) ==
  /\ creator[c].pc = "create"
  /\ \E w \in Workflows : run' = [run EXCEPT ![c] = Fresh(w)]
  /\ ex' = [ex EXCEPT ![c].pc = "start"]
  /\ creator' = [creator EXCEPT ![c].pc = "store"]
  /\ UNCHANGED <<keyLock, cache, caller, stream, raced>>

Store(c) ==
  /\ creator[c].pc = "store"
  /\ cache' = [cache EXCEPT ![KeyOf[c]] = [run |-> c, body |-> BodyOf[c]]]
  /\ keyLock' = [keyLock EXCEPT ![KeyOf[c]] = None]
  /\ creator' = [creator EXCEPT ![c].pc = "done", ![c].reply = c]
  /\ UNCHANGED <<run, ex, caller, stream, raced>>

Create(c) == Lookup(c) \/ CreateAndStart(c) \/ Store(c)

-----------------------------------------------------------------------------
(* The executor                                                            *)

At(r, pc) == ex[r].pc = pc

Goto(r, pc) == ex' = [ex EXCEPT ![r].pc = pc]

(* _append_event: under the condition, the event and the status it sets.   *)
Appended(rec, type, node) == [rec EXCEPT !.events = Append(@, <<type, node>>)]

AppendEvent(r, type, node) == run' = [run EXCEPT ![r] = Appended(@, type, node)]

(* Mutation: the status is set before the event is appended.               *)
SetTerminalEarly(r, type, status) ==
  IF run[r].status = status
    THEN run' = [run EXCEPT ![r] = Appended(@, type, 0)]
    ELSE run' = [run EXCEPT ![r].status = status]

SetTerminal(r, type, status) ==
  run' = [run EXCEPT ![r] = [Appended(@, type, 0) EXCEPT !.status = status]]

others == <<requests, caller, stream, raced>>

Start(r) ==
  /\ At(r, "start")
  /\ run' = [run EXCEPT ![r] = [Appended(@, "run.started", 0) EXCEPT !.status = "running"]]
  /\ Goto(r, "top")
  /\ UNCHANGED others

(* The head of the loop: nodes left, not cancelled, ...                    *)
LoopTop(r) ==
  /\ At(r, "top")
  /\ Goto(r, IF ex[r].i > Len(run[r].nodes) \/ run[r].cancelRequested THEN "end" ELSE "pausing")
  /\ UNCHANGED <<run, others>>

(* ... the deadline not passed and no pause asked for.                     *)
CheckPause(r) ==
  /\ At(r, "pausing")
  /\ Goto(r, IF run[r].late THEN "breach" ELSE IF run[r].pauseRequested THEN "park" ELSE "enter")
  /\ UNCHANGED <<run, others>>

(* _execute_node, up to its body.  No node is entered twice: a pause drains *)
(* the node before it parks.                                               *)
Enter(r) ==
  /\ At(r, "enter")
  /\ \/ /\ run[r].cancelRequested
        /\ AppendEvent(r, "node.cancelled", ex[r].i)
        /\ Goto(r, "end")
     \/ /\ ~ run[r].cancelRequested
        /\ AppendEvent(r, "node.started", ex[r].i)
        /\ Goto(r, "body")
  /\ UNCHANGED others

Kind(r) == run[r].nodes[ex[r].i]

(* The chunks of core.delay test the cancel event, the deadline and the    *)
(* pause request, in this order.                                           *)
DelayCancelled(r) ==
  /\ At(r, "body")
  /\ Kind(r) = "delay"
  /\ run[r].cancelEvent
  /\ AppendEvent(r, "node.cancelled", ex[r].i)
  /\ Goto(r, "end")
  /\ UNCHANGED others

DelayTimedOut(r) ==
  /\ At(r, "body")
  /\ Kind(r) = "delay"
  /\ ~ run[r].cancelEvent
  /\ run[r].late
  /\ AppendEvent(r, "node.cancelled", ex[r].i)
  /\ Goto(r, "breach")
  /\ UNCHANGED others

(* The delay is over, or a pause request drains it; core.noop has no body. *)
NodeDone(r) ==
  /\ At(r, "body")
  /\ Kind(r) # "other"
  /\ Kind(r) = "delay" => ~ run[r].cancelEvent /\ ~ run[r].late
  /\ AppendEvent(r, "node.completed", ex[r].i)
  /\ ex' = [ex EXCEPT ![r] = [pc |-> "after", i |-> @.i + 1]]
  /\ UNCHANGED others

Unsupported(r) ==
  /\ At(r, "body")
  /\ Kind(r) = "other"
  /\ AppendEvent(r, "node.failed", ex[r].i)
  /\ Goto(r, "fail")
  /\ UNCHANGED others

(* A pause asked for while the node ran parks the run, also after its last *)
(* node.                                                                   *)
AfterNode(r) ==
  /\ At(r, "after")
  /\ Goto(r, IF run[r].pauseRequested THEN "park" ELSE "top")
  /\ UNCHANGED <<run, others>>

(* park_for_pause.  Between the two steps of a pause request the gate is   *)
(* open and the run parks and resumes again and again: MaxParks bounds it. *)
Parks(r) == Cardinality({i \in DOMAIN run[r].events : run[r].events[i][1] = "run.paused"})

Pausing(r) == \E c \in Callers : caller[c].pc = "shutGate" /\ caller[c].run = r

Park(r) ==
  /\ At(r, "park")
  /\ Pausing(r) => Parks(r) < MaxParks
  /\ run' = [run EXCEPT ![r].status = "paused"]
  /\ Goto(r, "parking")
  /\ UNCHANGED others

Parked(r) ==
  /\ At(r, "parking")
  /\ AppendEvent(r, "run.paused", 0)
  /\ Goto(r, "parked")
  /\ UNCHANGED others

(* resume_event.wait(), then the test for a cancel.                        *)
Wake(r) ==
  /\ At(r, "parked")
  /\ run[r].gate
  /\ Goto(r, "woken")
  /\ UNCHANGED <<run, others>>

Woken(r) ==
  /\ At(r, "woken")
  /\ \/ /\ run[r].cancelRequested
        /\ Goto(r, "end")
        /\ UNCHANGED run
     \/ /\ ~ run[r].cancelRequested
        /\ run' = [run EXCEPT ![r].status = "running"]
        /\ Goto(r, "resuming")
  /\ UNCHANGED others

Resumed(r) ==
  /\ At(r, "resuming")
  /\ AppendEvent(r, "run.resumed", 0)
  /\ Goto(r, "top")
  /\ UNCHANGED others

(* _fail_run_duration.                                                     *)
Breach(r) ==
  /\ At(r, "breach")
  /\ AppendEvent(r, "cap.breached", 0)
  /\ Goto(r, "fail")
  /\ UNCHANGED others

Fail(r) ==
  /\ At(r, "fail")
  /\ SetTerminal(r, "run.failed", "failed")
  /\ Goto(r, "done")
  /\ UNCHANGED others

(* After the loop.                                                         *)
End(r) ==
  /\ At(r, "end")
  /\ \/ /\ run[r].cancelRequested
        /\ SetTerminal(r, "run.cancelled", "cancelled")
     \/ /\ ~ run[r].cancelRequested
        /\ SetTerminal(r, "run.completed", "completed")
  /\ Goto(r, "done")
  /\ UNCHANGED others

Execute(r) ==
  \/ Start(r) \/ LoopTop(r) \/ CheckPause(r)
  \/ Enter(r) \/ DelayCancelled(r) \/ DelayTimedOut(r) \/ NodeDone(r) \/ Unsupported(r)
  \/ AfterNode(r) \/ Park(r) \/ Parked(r) \/ Wake(r) \/ Woken(r) \/ Resumed(r)
  \/ Breach(r) \/ Fail(r) \/ End(r)

(* The run's wall-clock bound passes.                                      *)
Deadline(r) ==
  /\ run[r] # None
  /\ ~ IsTerminal(r)
  /\ ~ run[r].late
  /\ run' = [run EXCEPT ![r].late = TRUE]
  /\ UNCHANGED <<ex, others>>

-----------------------------------------------------------------------------
(* Cancel, pause and resume                                                *)

Refused == [pc |-> "refused", call |-> None, run |-> None]

Refuse(c) == caller' = [caller EXCEPT ![c] = Refused]

Step(c, pc) == caller' = [caller EXCEPT ![c].pc = pc]

still == <<ex, requests, stream>>

(* The handler and the registry test whether the run has ended.            *)
Call(c) ==
  /\ caller[c].pc = "idle"
  /\ \E call \in CallsOf[c], r \in {q \in Runs : run[q] # None} :
       caller' = [caller EXCEPT ![c] =
                    IF IsTerminal(r) THEN Refused ELSE [pc |-> call, call |-> call, run |-> r]]
  /\ UNCHANGED <<run, still, raced>>

(* cancel: the flag, the event, the gate.                                  *)
CancelFlag(c) ==
  /\ caller[c].pc = "cancel"
  /\ run' = [run EXCEPT ![caller[c].run].cancelRequested = TRUE]
  /\ Step(c, "cancelSet")
  /\ UNCHANGED <<still, raced>>

(* Mutation: a cancel does not release the gate of a paused run.           *)
CancelSetOnly(c) ==
  /\ caller[c].pc = "cancelSet"
  /\ run' = [run EXCEPT ![caller[c].run].cancelEvent = TRUE]
  /\ Step(c, "accepted")
  /\ UNCHANGED <<still, raced>>

CancelSet(c) ==
  /\ caller[c].pc = "cancelSet"
  /\ run' = [run EXCEPT ![caller[c].run].cancelEvent = TRUE]
  /\ Step(c, "openGate")
  /\ UNCHANGED <<still, raced>>

OpenGate(c) ==
  /\ caller[c].pc = "openGate"
  /\ run' = [run EXCEPT ![caller[c].run].gate = TRUE]
  /\ Step(c, "accepted")
  /\ UNCHANGED <<still, raced>>

(* pause: already paused or asked to, else the flag, then the gate.        *)
PauseFlag(c) ==
  LET r == caller[c].run IN
  /\ caller[c].pc = "pause"
  /\ \/ /\ run[r].status = "paused" \/ run[r].pauseRequested
        /\ Refuse(c)
        /\ UNCHANGED run
     \/ /\ run[r].status # "paused" /\ ~ run[r].pauseRequested
        /\ run' = [run EXCEPT ![r].pauseRequested = TRUE]
        /\ Step(c, "shutGate")
  /\ UNCHANGED <<still, raced>>

ShutGate(c) ==
  LET r == caller[c].run IN
  /\ caller[c].pc = "shutGate"
  /\ run' = [run EXCEPT ![r].gate = FALSE]
  /\ raced' = IF run[r].cancelRequested \/ ~ run[r].pauseRequested THEN raced \cup {r} ELSE raced
  /\ Step(c, "accepted")
  /\ UNCHANGED still

(* resume: paused or asked to, else refused; the flag, then the gate.      *)
ResumeFlag(c) ==
  LET r == caller[c].run IN
  /\ caller[c].pc = "resume"
  /\ \/ /\ ~ run[r].pauseRequested /\ run[r].status # "paused"
        /\ Refuse(c)
        /\ UNCHANGED run
     \/ /\ run[r].pauseRequested \/ run[r].status = "paused"
        /\ run' = [run EXCEPT ![r].pauseRequested = FALSE]
        /\ Step(c, "openGate")
  /\ UNCHANGED <<still, raced>>

Control(c) ==
  \/ CancelFlag(c) \/ CancelSet(c) \/ OpenGate(c) \/ PauseFlag(c) \/ ShutGate(c) \/ ResumeFlag(c)

-----------------------------------------------------------------------------
(* Event streams                                                           *)

quiet == <<run, ex, requests, caller, raced>>

(* The event types of a mode.                                              *)
Matches(mode, type) == mode = "updates" \/ type \in TerminalEvents

(* The positions of the events after a cursor that the mode lets through.  *)
Since(r, mode, after) ==
  LET events == run[r].events
      sent[n \in 0 .. Len(events)] ==
        IF n = 0 THEN <<>>
        ELSE IF n > after /\ Matches(mode, events[n][1]) THEN Append(sent[n - 1], n) ELSE sent[n - 1]
  IN  sent[Len(events)]

(* The cursor moves to the last event copied, if there is one after it.    *)
Reached(r, after) == IF Len(run[r].events) > after THEN Len(run[r].events) ELSE after

(* The request names a run and any number as the last event its client     *)
(* has; the answer begins with the events since, from one copy of the      *)
(* list.                                                                   *)
OpenStream(s) ==
  /\ stream[s].pc = "off"
  /\ \E r \in {q \in Runs : run[q] # None}, ask \in Asks :
       stream' = [stream EXCEPT ![s] =
         [pc |-> "drained", run |-> r, mode |-> ask[1], from |-> ask[2],
          high |-> Reached(r, ask[2]), sent |-> Since(r, ask[1], ask[2])]]
  /\ UNCHANGED quiet

(* After the backlog: close if the run has ended, else follow it.          *)
Drained(s) ==
  /\ stream[s].pc = "drained"
  /\ stream' = [stream EXCEPT ![s].pc = IF IsTerminal(stream[s].run) THEN "closed" ELSE "wait"]
  /\ UNCHANGED quiet

(* Mutation: the cursor does not move past what the mode filters out and   *)
(* past the last event sent.                                               *)
FollowStale(s) ==
  LET r == stream[s].run
      now == Reached(r, stream[s].high)
      last == {i \in stream[s].high + 1 .. Len(run[r].events) : run[r].events[i][1] \in TerminalEvents}
  IN
  /\ stream[s].pc = "wait"
  /\ Len(stream[s].sent) < 8
  /\ stream' = [stream EXCEPT
       ![s].sent = @ \o Since(r, stream[s].mode, stream[s].high),
       ![s].pc = IF last # {} THEN "closed" ELSE IF now = stream[s].high THEN "nothing" ELSE "wait"]
  /\ UNCHANGED quiet

(* wait_for_next_event_or_terminal returns on news, on the end of the run  *)
(* and after 25 seconds; then the events since are copied and sent, up to  *)
(* a terminal one, which closes.                                           *)
Follow(s) ==
  LET r == stream[s].run
      now == Reached(r, stream[s].high)
      last == {i \in stream[s].high + 1 .. Len(run[r].events) : run[r].events[i][1] \in TerminalEvents}
  IN
  /\ stream[s].pc = "wait"
  /\ stream' = [stream EXCEPT
       ![s].sent = @ \o Since(r, stream[s].mode, stream[s].high),
       ![s].high = now,
       ![s].pc = IF last # {} THEN "closed" ELSE IF now = stream[s].high THEN "nothing" ELSE "wait"]
  /\ UNCHANGED quiet

(* Mutation: a stream that found nothing waits on.                         *)
NothingWaits(s) ==
  /\ stream[s].pc = "nothing"
  /\ stream' = [stream EXCEPT ![s].pc = "wait"]
  /\ UNCHANGED quiet

(* Nothing came: close if the run has ended by now.                        *)
Nothing(s) ==
  /\ stream[s].pc = "nothing"
  /\ stream' = [stream EXCEPT ![s].pc = IF IsTerminal(stream[s].run) THEN "closed" ELSE "wait"]
  /\ UNCHANGED quiet

(* The client goes away: a write fails and the request ends.               *)
Disconnect(s) ==
  /\ stream[s].pc \in {"drained", "wait", "nothing"}
  /\ stream' = [stream EXCEPT ![s] = [pc |-> "gone"]]
  /\ UNCHANGED quiet

Serve(s) == Drained(s) \/ Follow(s) \/ Nothing(s)

-----------------------------------------------------------------------------
Next ==
  \/ \E c \in Creators : Create(c)
  \/ \E r \in Runs : Execute(r) \/ Deadline(r)
  \/ \E c \in Callers : Call(c) \/ Control(c)
  \/ \E s \in Streams : OpenStream(s) \/ Serve(s) \/ Disconnect(s)

Spec == Init /\ [][Next]_vars

(* Every thread that can go on does.                                       *)
Fairness ==
  /\ \A r \in Runs : WF_vars(Execute(r))
  /\ \A c \in Callers : WF_vars(Control(c))
  /\ \A s \in Streams : WF_vars(Serve(s))

FairSpec == Spec /\ Fairness

-----------------------------------------------------------------------------
(* Properties                                                              *)

EventsOf(r) == IF run[r] = None THEN <<>> ELSE run[r].events

Types(r) == [i \in DOMAIN EventsOf(r) |-> EventsOf(r)[i][1]]

(* A reader that finds a run ended finds the event that ended it, the last *)
(* of the log and the only one of its kind, whatever it raced with.        *)
EndsWithItsEvent ==
  \A r \in Runs : run[r] # None =>
    /\ IsTerminal(r) <=> \E i \in DOMAIN Types(r) : Types(r)[i] \in TerminalEvents
    /\ \A i \in DOMAIN Types(r) : Types(r)[i] \in TerminalEvents => i = Len(Types(r))

(* What a stream has sent is what its mode lets through of the events      *)
(* after its cursor: in order, without a gap and without a repetition.     *)
StreamExact ==
  \A s \in Streams : stream[s].pc \notin {"off", "gone"} =>
    LET st == stream[s]
        due == {i \in DOMAIN Types(st.run) : i > st.from /\ i <= st.high /\ Matches(st.mode, Types(st.run)[i])}
    IN  /\ {st.sent[i] : i \in DOMAIN st.sent} = due
        /\ \A i, j \in DOMAIN st.sent : i < j => st.sent[i] < st.sent[j]

(* A stream is closed by the host once its run has ended, also when the    *)
(* end was not among the events it saw.                                    *)
StreamsClose ==
  \A s \in Streams :
    (stream[s].pc \notin {"off", "gone"} /\ IsTerminal(stream[s].run))
      ~> stream[s].pc \in {"closed", "gone"}

(* A run that is cancelled, or that nobody keeps paused, ends; unless a    *)
(* pause shut the gate that a cancel or a resume had opened since the      *)
(* pause began.                                                            *)
RunEnds ==
  \A r \in Runs :
    <>[](run[r] # None /\ (run[r].cancelRequested \/ ~ run[r].pauseRequested))
      => <>(IsTerminal(r) \/ r \in raced)

=============================================================================
