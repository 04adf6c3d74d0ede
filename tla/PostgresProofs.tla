---------------------------- MODULE PostgresProofs ----------------------------
(***************************************************************************)
(* What holds of the postgres host for any processes, workflows and        *)
(* bounds, whatever boots, crashes and answers race with each other.       *)
(*                                                                         *)
(* No run is executed by two processes: a process holds a run's lock once  *)
(* for each of its threads that executes the run, and no lock is held by   *)
(* two processes.  Only a claim, the end of an executor and the death of a *)
(* process change what is held.                                            *)
(*                                                                         *)
(* No run ends as cancelled that nobody stopped: whatever a thread has     *)
(* still to do (Fine) stops a run only if somebody asked for it or its     *)
(* deadline is past, and so does what each step puts in its place.         *)
(*                                                                         *)
(* A node has one child for each worker at a run no two executors were at  *)
(* work on at once: the one executor at work finds no child, and nobody    *)
(* else inserts one between its search and its insert.                     *)
(***************************************************************************)
EXTENDS PostgresHost, FiniteSetTheorems, WellFoundedInduction, TLAPS

ThreadKinds == {"free", "call", "claim", "exec"}

(* A thread that is taken belongs to a process and works on a run.         *)
Seated(x) ==
  /\ DOMAIN x = DOMAIN Idle
  /\ x.kind \in ThreadKinds
  /\ x.kind # "free" => x.proc \in Procs /\ x.run \in Runs

ThreadsTyped ==
  /\ DOMAIN th = Slots
  /\ \A t \in Slots : Seated(th[t])

Holders(r, p) == {t \in Slots : Executing(t) /\ th[t].run = r /\ th[t].proc = p}

(* A lock is held once for each thread that executes under it.             *)
LocksCounted ==
  /\ lock \in [Runs -> [Procs -> Nat]]
  /\ \A r \in Runs, p \in Procs : lock[r][p] = Cardinality(Holders(r, p))

LocksApart ==
  \A r \in Runs : \A p, q \in Procs : p # q => lock[r][p] = 0 \/ lock[r][q] = 0

ClaimInv == ThreadsTyped /\ LocksCounted /\ LocksApart

(* A step that makes or ends no executor.                                  *)
Stays(x, y) ==
  \/ x.kind # "exec" /\ y.kind # "exec"
  \/ y.kind = "exec" /\ x.kind = "exec" /\ x.run = y.run /\ x.proc = y.proc

Quiet ==
  /\ ThreadsTyped'
  /\ \A t \in Slots : Stays(th[t], th'[t])
  /\ lock' = lock

-----------------------------------------------------------------------------
(* Threads                                                                 *)

LEMMA SlotsFinite == IsFiniteSet(Slots) /\ Slots \subseteq Nat
<1>1. MaxThreads \in Nat
  BY PostgresAssumption
<1> QED
  BY <1>1, FS_Interval DEF Slots

LEMMA HoldersFinite == \A r, p : IsFiniteSet(Holders(r, p))
  BY SlotsFinite, FS_Subset DEF Holders

(* The slot a new thread takes is free.                                    *)
LEMMA NewSlotIsFree == FreeSlots # {} => NewSlot \in FreeSlots
<1>1. FreeSlots \subseteq Nat
  BY SlotsFinite DEF FreeSlots
<1>2. ASSUME FreeSlots # {} PROVE \E t \in FreeSlots : \A s \in FreeSlots : t <= s
  <2>1. PICK t \in FreeSlots : \A s \in FreeSlots : ~(<<s, t>> \in OpToRel(<, Nat))
    BY <1>1, <1>2, WFMin, NatLessThanWellFounded
  <2>2. \A s \in FreeSlots : ~(s < t)
    BY <1>1, <2>1 DEF OpToRel
  <2> QED
    BY <1>1, <2>2
<1> QED
  BY <1>2 DEF NewSlot

(* Nobody gains or loses a lock in a quiet step.                           *)
LEMMA QuietKeeps == ClaimInv /\ Quiet => ClaimInv'
<1> SUFFICES ASSUME ClaimInv, Quiet PROVE ClaimInv'
  OBVIOUS
<1>1. ASSUME NEW r, NEW p PROVE Holders(r, p)' = Holders(r, p)
  BY DEF Quiet, Stays, Holders, Executing
<1>2. LocksCounted'
  BY <1>1 DEF ClaimInv, LocksCounted, Quiet
<1>3. LocksApart'
  BY DEF ClaimInv, LocksApart, Quiet
<1> QED
  BY <1>2, <1>3 DEF ClaimInv, Quiet

(* A thread that becomes another one of its kind, or that is no executor.  *)
LEMMA Seat ==
  ASSUME ClaimInv, NEW t \in Slots, NEW new, Seated(new), Stays(th[t], new),
         Becomes(t, new), UNCHANGED lock
  PROVE  Quiet
<1>1. DOMAIN th = Slots
  BY DEF ClaimInv, ThreadsTyped
<1>2. DOMAIN th' = Slots /\ \A s \in Slots : th'[s] = IF s = t THEN new ELSE th[s]
  BY <1>1 DEF Becomes
<1>3. ThreadsTyped'
  BY <1>2 DEF ClaimInv, ThreadsTyped
<1> QED
  BY <1>2, <1>3 DEF Quiet, Stays

LEMMA IdleSeated == Seated(Idle) /\ Idle.kind = "free"
  BY DEF Seated, Idle, ThreadKinds

LEMMA Goes ==
  ASSUME ClaimInv, NEW t \in Slots, NEW more, Then(t, more), UNCHANGED lock
  PROVE  Quiet
<1>1. Seated(th[t])
  BY DEF ClaimInv, ThreadsTyped
<1>2. CASE th[t].kind = "call" /\ more \o Rest(t) = <<>>
  <2>1. Becomes(t, Idle)
    BY <1>2 DEF Then
  <2> QED
    BY <1>2, <2>1, IdleSeated, Seat DEF Stays
<1>3. CASE ~(th[t].kind = "call" /\ more \o Rest(t) = <<>>)
  <2> DEFINE new == [th[t] EXCEPT !.todo = more \o Rest(t)]
  <2>1. Becomes(t, new)
    BY <1>3 DEF Then
  <2>2. Seated(new) /\ Stays(th[t], new)
    BY <1>1 DEF Seated, Stays, Idle
  <2> HIDE DEF new
  <2> QED
    BY <2>1, <2>2, Seat
<1> QED
  BY <1>2, <1>3
(* A handler whose thread is done, or goes over to executing its run.      *)
LEMMA HandlerEnds ==
  ASSUME ClaimInv, NEW t \in Slots, th[t].kind = "call",
         Becomes(t, Idle) \/ Becomes(t, Executor(th[t].proc, th[t].run)), UNCHANGED lock
  PROVE  Quiet
<1>1. Seated(th[t]) /\ th[t].proc \in Procs /\ th[t].run \in Runs
  BY DEF ClaimInv, ThreadsTyped, Seated
<1>2. Seated(Executor(th[t].proc, th[t].run)) /\ Executor(th[t].proc, th[t].run).kind = "claim"
  BY <1>1 DEF Seated, Executor, Idle, ThreadKinds
<1> QED
  BY <1>2, IdleSeated, Seat DEF Stays

(* Threads that only change what they have noted or have left to do.       *)
Unmoved(x, y) == DOMAIN y = DOMAIN x /\ y.kind = x.kind /\ y.proc = x.proc /\ y.run = x.run

LEMMA Notes ==
  ASSUME ClaimInv, DOMAIN th' = Slots, \A t \in Slots : Unmoved(th[t], th'[t]), UNCHANGED lock
  PROVE  Quiet
<1>1. ASSUME NEW t \in Slots PROVE Seated(th'[t]) /\ Stays(th[t], th'[t])
  <2>1. Seated(th[t]) /\ Unmoved(th[t], th'[t])
    BY DEF ClaimInv, ThreadsTyped
  <2> QED
    BY <2>1 DEF Seated, Stays, Unmoved
<1>2. ThreadsTyped'
  BY <1>1 DEF ThreadsTyped, Seated
<1> QED
  BY <1>1, <1>2 DEF Quiet

(* A new thread, handler or executor, in a free slot.                      *)
LEMMA Arrival ==
  ASSUME ClaimInv, NEW new, Seated(new), new.kind # "exec", FreeSlots # {}, Becomes(NewSlot, new),
         UNCHANGED lock
  PROVE  Quiet
<1>1. NewSlot \in Slots /\ th[NewSlot].kind = "free"
  BY NewSlotIsFree DEF FreeSlots
<1> QED
  BY <1>1, Seat DEF Stays

-----------------------------------------------------------------------------
(* Steps of one thread                                                     *)

LEMMA ThreadFields ==
  ASSUME ClaimInv, NEW t \in Slots
  PROVE  /\ DOMAIN th = Slots
         /\ DOMAIN th[t] = {"kind", "proc", "run", "at", "worker", "child", "aborted", "late", "row", "node", "ballot", "votes", "todo"}
BY DEF ClaimInv, ThreadsTyped, Seated, Idle

LEMMA StatementSteps ==
  ASSUME ClaimInv, NEW t \in Slots,
         \/ AppendEvent(t) \/ SetStatus(t) \/ NextNode(t) \/ Sleep(t) \/ Request(t) \/ WatchSub(t)
         \/ Cancel(t) \/ CancelInternal(t) \/ InvalidateInterrupts(t) \/ SetCancelRequested(t)
         \/ ResolveApproval(t) \/ MarkResolved(t) \/ Pause(t) \/ Resume(t)
  PROVE  Quiet
<1>1. CASE AppendEvent(t)
  BY <1>1, Goes DEF AppendEvent
<1>2. CASE SetStatus(t)
  BY <1>2, Goes DEF SetStatus
<1>3. CASE NextNode(t)
  BY <1>3, Goes DEF NextNode
<1>4. CASE Sleep(t)
  BY <1>4, Goes DEF Sleep
<1>5. CASE Request(t)
  BY <1>5, Goes DEF Request
<1>6. CASE WatchSub(t)
  BY <1>6, Goes DEF WatchSub
<1>7. CASE Cancel(t)
  BY <1>7, Goes DEF Cancel
<1>8. CASE CancelInternal(t)
  BY <1>8, Goes DEF CancelInternal
<1>9. CASE InvalidateInterrupts(t)
  BY <1>9, Goes DEF InvalidateInterrupts
<1>10. CASE SetCancelRequested(t)
  BY <1>10, Goes DEF SetCancelRequested
<1>11. CASE ResolveApproval(t)
  BY <1>11, Goes DEF ResolveApproval
<1>12. CASE MarkResolved(t)
  BY <1>12, Goes DEF MarkResolved
<1>13. CASE Pause(t)
  BY <1>13, Goes DEF Pause
<1>14. CASE Resume(t)
  BY <1>14, Goes DEF Resume
<1> QED
  BY <1>1, <1>2, <1>3, <1>4, <1>5, <1>6, <1>7, <1>8, <1>9, <1>10, <1>11, <1>12, <1>13, <1>14

LEMMA NoteSteps ==
  ASSUME ClaimInv, NEW t \in Slots,
         \/ Load(t) \/ Outcome(t) \/ CreateInterrupt(t) \/ FindChild(t) \/ InsertChild(t) \/ DispatchNode(t)
         \/ WatchWorker(t) \/ Reload(t) \/ Deadline(t)
  PROVE  Quiet
<1> USE ThreadFields DEF Unmoved
<1>1. CASE Load(t)
  BY <1>1, Notes DEF Load
<1>2. CASE Outcome(t)
  BY <1>2, Goes, Notes DEF Outcome
<1>3. CASE CreateInterrupt(t)
  BY <1>3, Goes, Notes DEF CreateInterrupt
<1>4. CASE FindChild(t)
  BY <1>4, Goes, Notes DEF FindChild
<1>5. CASE InsertChild(t)
  BY <1>5, Notes DEF InsertChild
<1>6. CASE DispatchNode(t)
  BY <1>6, Notes DEF DispatchNode
<1>7. CASE WatchWorker(t)
  BY <1>7, Goes, Notes DEF WatchWorker
<1>8. CASE Reload(t)
  BY <1>8, Notes DEF Reload
<1>9. CASE Deadline(t)
  BY <1>9, Notes DEF Deadline
<1> QED
  BY <1>1, <1>2, <1>3, <1>4, <1>5, <1>6, <1>7, <1>8, <1>9

LEMMA HandlerSteps ==
  ASSUME ClaimInv, NEW t \in Slots, Look(t) \/ ReadVotes(t) \/ CheckAnswer(t) \/ Advance(t) \/ Relaunch(t)
  PROVE  Quiet
<1>1. th[t].kind = "call" /\ lock' = lock
  BY DEF Look, ReadVotes, CheckAnswer, Advance, Relaunch, Handles
<1> USE ThreadFields DEF Unmoved, Ends
<1>2. CASE Look(t)
  BY <1>1, <1>2, HandlerEnds, Notes DEF Look
<1>3. CASE ReadVotes(t)
  BY <1>1, <1>3, HandlerEnds, Notes DEF ReadVotes
<1>4. CASE CheckAnswer(t)
  BY <1>1, <1>4, HandlerEnds, Goes DEF CheckAnswer
<1>5. CASE Advance(t)
  <2>1. Becomes(t, Idle) \/ Becomes(t, Executor(th[t].proc, th[t].run))
    BY <1>5 DEF Advance
  <2> QED
    BY <1>1, <2>1, HandlerEnds
<1>6. CASE Relaunch(t)
  BY <1>1, <1>6, HandlerEnds DEF Relaunch
<1> QED
  BY <1>2, <1>3, <1>4, <1>5, <1>6

LEMMA AbortStep ==
  ASSUME ClaimInv, NEW t \in Slots, Abort(t)
  PROVE  Quiet
<1> DEFINE over == th[t].kind = "call" /\ Rest(t) = <<>>
           woken == aborters[th[t].proc][First(t).run]
<1>1. /\ lock' = lock
      /\ th' = [s \in Slots |-> IF s = t THEN (IF over THEN Idle ELSE [th[t] EXCEPT !.todo = Rest(t)])
                                ELSE IF s = woken THEN [th[s] EXCEPT !.aborted = TRUE] ELSE th[s]]
  BY DEF Abort
<1> HIDE DEF woken
<1>2. CASE over
  <2>1. ASSUME NEW s \in Slots PROVE Seated(th'[s]) /\ Stays(th[s], th'[s])
    <3>1. Seated(th[s])
      BY DEF ClaimInv, ThreadsTyped
    <3>2. CASE s = t
      BY <1>1, <1>2, <3>2, IdleSeated DEF Stays
    <3>3. CASE s # t
      <4>1. th'[s] = th[s] \/ th'[s] = [th[s] EXCEPT !.aborted = TRUE]
        BY <1>1, <3>3
      <4> QED
        BY <3>1, <4>1 DEF Seated, Stays, Idle
    <3> QED
      BY <3>2, <3>3
  <2> QED
    BY <1>1, <2>1 DEF Quiet, ThreadsTyped, Seated
<1>3. CASE ~over
  <2>1. DOMAIN th' = Slots
    BY <1>1
  <2>2. ASSUME NEW s \in Slots PROVE Unmoved(th[s], th'[s])
    <3>1. th'[s] = th[s] \/ th'[s] = [th[s] EXCEPT !.aborted = TRUE] \/ th'[s] = [th[s] EXCEPT !.todo = Rest(t)]
      BY <1>1, <1>3
    <3> QED
      BY <3>1, ThreadFields DEF Unmoved
  <2> QED
    BY <1>1, <2>1, <2>2, Notes
<1> QED
  BY <1>2, <1>3

(* A parent that starts its child's executor in a free slot.               *)
LEMMA SpawnStep ==
  ASSUME ClaimInv, NEW t \in Slots, Spawn(t)
  PROVE  Quiet
<1> DEFINE new == Executor(th[t].proc, Child(t))
           mine == [th[t] EXCEPT !.todo = Rest(t)]
<1>1. NewSlot \in Slots /\ th[NewSlot].kind = "free" /\ th[t].kind # "free" /\ Child(t) \in Runs /\ lock' = lock
  BY NewSlotIsFree DEF Spawn, At, FreeSlots, Runs
<1>2. DOMAIN th' = Slots /\ \A s \in Slots : th'[s] = IF s = NewSlot THEN new ELSE IF s = t THEN mine ELSE th[s]
  BY <1>1, ThreadFields DEF Spawn
<1>3. Seated(th[t]) /\ th[t].proc \in Procs
  BY <1>1 DEF ClaimInv, ThreadsTyped, Seated
<1>4. Seated(new) /\ Stays(th[NewSlot], new)
  BY <1>1, <1>3 DEF Seated, Executor, Idle, ThreadKinds, Stays
<1>5. Seated(mine) /\ Stays(th[t], mine)
  BY <1>3 DEF Seated, Stays, Idle
<1> HIDE DEF new, mine
<1>6. ASSUME NEW s \in Slots PROVE Seated(th'[s]) /\ Stays(th[s], th'[s])
  <2>1. Seated(th[s])
    BY DEF ClaimInv, ThreadsTyped
  <2> QED
    BY <1>2, <1>4, <1>5, <2>1 DEF Stays
<1> QED
  BY <1>1, <1>2, <1>6 DEF Quiet, ThreadsTyped, Seated

-----------------------------------------------------------------------------
(* Requests and processes                                                  *)

LEMMA RequestSteps ==
  ASSUME ClaimInv, NEW p \in Procs,
         \/ \E r \in Roots, flow \in RootFlows : CreateRun(p, r, flow)
         \/ \E r \in Runs, op \in {"cancel", "pause", "resume"} : CallRun(p, r, op)
         \/ \E r \in Runs, n \in Nodes : \E ballot \in AnswersTo(r, n) : CallResolve(p, r, n, ballot)
  PROVE  Quiet
<1>1. ASSUME NEW r \in Roots, NEW flow \in RootFlows, CreateRun(p, r, flow) PROVE Quiet
  <2>1. Seated(Executor(p, r)) /\ Executor(p, r).kind = "claim"
    BY DEF Seated, Executor, Idle, ThreadKinds, Runs
  <2> QED
    BY <1>1, <2>1, Arrival DEF CreateRun
<1>2. ASSUME NEW r \in Runs, NEW op \in {"cancel", "pause", "resume"}, CallRun(p, r, op) PROVE Quiet
  <2> DEFINE new == Handler(p, r, <<Do(op)>>)
  <2>1. Seated(new) /\ new.kind = "call"
    BY DEF Seated, Handler, Idle, ThreadKinds
  <2> HIDE DEF new
  <2>2. FreeSlots # {} /\ Becomes(NewSlot, new) /\ lock' = lock
    BY <1>2 DEF CallRun, Arrives, new
  <2> QED
    BY <2>1, <2>2, Arrival
<1>3. ASSUME NEW r \in Runs, NEW n \in Nodes, NEW ballot \in AnswersTo(r, n), CallResolve(p, r, n, ballot) PROVE Quiet
  <2> DEFINE new == [Handler(p, r, <<Do("resolve")>>) EXCEPT !.node = n, !.ballot = ballot]
  <2>1. Seated(new) /\ new.kind = "call"
    BY DEF Seated, Handler, Idle, ThreadKinds
  <2> HIDE DEF new
  <2>2. FreeSlots # {} /\ Becomes(NewSlot, new) /\ lock' = lock
    BY <1>3 DEF CallResolve, Arrives, new
  <2> QED
    BY <2>1, <2>2, Arrival
<1> QED
  BY <1>1, <1>2, <1>3

LEMMA CloseStep ==
  ASSUME ClaimInv, NEW p \in Procs, CloseHost(p)
  PROVE  Quiet
<1> DEFINE woken == {aborters[p][r] : r \in Runs}
<1>1. /\ lock' = lock
      /\ th' = [t \in Slots |-> IF t \in woken THEN [th[t] EXCEPT !.aborted = TRUE] ELSE th[t]]
  BY DEF CloseHost
<1> HIDE DEF woken
<1>2. ASSUME NEW t \in Slots PROVE Unmoved(th[t], th'[t])
  BY <1>1, ThreadFields DEF Unmoved
<1> QED
  BY <1>1, <1>2, Notes

(* A sequence of a finite set's members has one place for each.            *)
LEMMA InSequence ==
  ASSUME NEW S, IsFiniteSet(S)
  PROVE  SetToSeq(S) \in [1..Cardinality(S) -> S] /\ Len(SetToSeq(S)) = Cardinality(S)
<1>1. Cardinality(S) \in Nat /\ ExistsBijection(1..Cardinality(S), S)
  BY FS_CardinalityType
<1>2. \E f \in [1..Cardinality(S) -> S] : IsInjective(f)
  BY <1>1 DEF ExistsBijection, Bijection, Injection, IsInjective
<1>3. SetToSeq(S) \in [1..Cardinality(S) -> S]
  BY <1>2 DEF SetToSeq
<1> QED
  BY <1>1, <1>3

LEMMA BootStep ==
  ASSUME ClaimInv, NEW p \in Procs, Boot(p)
  PROVE  Quiet
<1> DEFINE found == {r \in Runs : Orphan(r)}
           orphans == SetToSeq(found)
           free == SetToSeq(FreeSlots)
           seat(t) == CHOOSE i \in DOMAIN orphans : free[i] = t
<1>1. IsFiniteSet(found) /\ IsFiniteSet(FreeSlots)
  <2>1. IsFiniteSet(Runs)
    BY PostgresAssumption DEF Runs
  <2>2. found \in SUBSET Runs /\ FreeSlots \in SUBSET Slots
    BY DEF FreeSlots
  <2> QED
    BY <2>1, <2>2, SlotsFinite, FS_Subset
<1>2. /\ orphans \in [1..Cardinality(found) -> found] /\ Len(orphans) = Cardinality(found)
      /\ free \in [1..Cardinality(FreeSlots) -> FreeSlots] /\ Len(free) = Cardinality(FreeSlots)
      /\ Cardinality(found) \in Nat /\ Cardinality(FreeSlots) \in Nat
  BY <1>1, InSequence, FS_CardinalityType
<1>3. /\ Len(orphans) <= Len(free) /\ lock' = lock
      /\ th' = [t \in Slots |-> IF \E i \in DOMAIN orphans : free[i] = t THEN Executor(p, orphans[seat(t)]) ELSE th[t]]
  BY DEF Boot
<1>4. ASSUME NEW t \in Slots PROVE Seated(th'[t]) /\ Stays(th[t], th'[t])
  <2>1. Seated(th[t])
    BY DEF ClaimInv, ThreadsTyped
  <2>2. CASE \E i \in DOMAIN orphans : free[i] = t
    <3>1. seat(t) \in DOMAIN orphans /\ free[seat(t)] = t
      BY <2>2
    <3> DEFINE r == orphans[seat(t)]
    <3> HIDE DEF orphans, free, found
    <3>2. r \in found /\ free[seat(t)] \in FreeSlots
      BY <1>2, <1>3, <3>1
    <3>3. r \in Runs /\ th[t].kind = "free"
      BY <3>1, <3>2 DEF found, FreeSlots
    <3>4. th'[t] = Executor(p, r)
      BY <1>3, <2>2
    <3> HIDE DEF r
    <3>5. Seated(Executor(p, r)) /\ Executor(p, r).kind = "claim"
      BY <3>3 DEF Seated, Executor, Idle, ThreadKinds
    <3> QED
      BY <3>3, <3>4, <3>5 DEF Stays
  <2>3. CASE ~(\E i \in DOMAIN orphans : free[i] = t)
    BY <1>3, <2>1, <2>3 DEF Stays
  <2> QED
    BY <2>2, <2>3
<1>5. DOMAIN th' = Slots
  BY <1>3
<1> HIDE DEF orphans, free, found
<1> QED
  BY <1>3, <1>4, <1>5 DEF Quiet, ThreadsTyped, Seated

-----------------------------------------------------------------------------
(* Claims and releases                                                     *)

LEMMA ClaimStep ==
  ASSUME ClaimInv, NEW t \in Slots, TryClaim(t)
  PROVE  ClaimInv'
<1> DEFINE new == [th[t] EXCEPT !.kind = "exec", !.todo = <<Do("load")>>]
<1>0. PICK r \in Runs, p \in Procs : r = th[t].run /\ p = th[t].proc
  BY DEF ClaimInv, ThreadsTyped, Seated, TryClaim
<1>1. th[t].kind = "claim" /\ Seated(th[t])
  BY DEF ClaimInv, ThreadsTyped, TryClaim
<1>2. CASE ~Claimable(r, p)
  <2>1. Becomes(t, Idle) /\ lock' = lock
    BY <1>0, <1>2 DEF TryClaim
  <2> QED
    BY <1>1, <2>1, IdleSeated, Seat, QuietKeeps DEF Stays
<1>3. CASE Claimable(r, p)
  <2>1. Becomes(t, new) /\ lock' = [lock EXCEPT ![r][p] = @ + 1]
    BY <1>0, <1>3 DEF TryClaim
  <2>2. Seated(new) /\ new.kind = "exec" /\ new.run = r /\ new.proc = p
    BY <1>0, <1>1 DEF Seated, Idle, ThreadKinds
  <2>3. \A q \in Procs \ {p} : lock[r][q] = 0
    BY <1>3 DEF Claimable
  <2> HIDE DEF new
  <2>4. DOMAIN th' = Slots /\ \A s \in Slots : th'[s] = IF s = t THEN new ELSE th[s]
    BY <2>1, ThreadFields DEF Becomes
  <2>5. ThreadsTyped'
    BY <2>2, <2>4 DEF ClaimInv, ThreadsTyped
  <2>6. /\ lock' \in [Runs -> [Procs -> Nat]]
        /\ \A x \in Runs, q \in Procs : lock'[x][q] = IF x = r /\ q = p THEN lock[r][p] + 1 ELSE lock[x][q]
    BY <1>1, <2>1 DEF ClaimInv, LocksCounted
  <2>7. Holders(r, p)' = Holders(r, p) \cup {t} /\ t \notin Holders(r, p)
    BY <1>1, <2>2, <2>4 DEF Holders, Executing
  <2>8. ASSUME NEW x \in Runs, NEW q \in Procs, ~(x = r /\ q = p) PROVE Holders(x, q)' = Holders(x, q)
    BY <1>1, <2>2, <2>4, <2>8 DEF Holders, Executing
  <2>9. Cardinality(Holders(r, p)') = Cardinality(Holders(r, p)) + 1
    BY <2>7, HoldersFinite, FS_AddElement
  <2>10. LocksCounted'
    BY <1>1, <2>6, <2>8, <2>9 DEF ClaimInv, LocksCounted
  <2>11. LocksApart'
    BY <1>1, <2>3, <2>6 DEF ClaimInv, LocksApart
  <2> QED
    BY <2>5, <2>10, <2>11 DEF ClaimInv
<1> QED
  BY <1>2, <1>3

LEMMA LeaveStep ==
  ASSUME ClaimInv, NEW t \in Slots, Leave(t)
  PROVE  ClaimInv'
<1>0. PICK r \in Runs, p \in Procs : r = th[t].run /\ p = th[t].proc
  BY DEF ClaimInv, ThreadsTyped, Seated, Leave, Executing
<1>1. th[t].kind = "exec" /\ Becomes(t, Idle) /\ lock' = [lock EXCEPT ![r][p] = @ - 1]
  BY <1>0 DEF Leave, Executing
<1>2. DOMAIN th' = Slots /\ \A s \in Slots : th'[s] = IF s = t THEN Idle ELSE th[s]
  BY <1>1, ThreadFields DEF Becomes
<1>3. t \in Holders(r, p)
  BY <1>0, <1>1 DEF Holders, Executing
<1>4. ThreadsTyped'
  BY <1>2, IdleSeated DEF ClaimInv, ThreadsTyped
<1>5. Holders(r, p)' = Holders(r, p) \ {t}
  BY <1>2, IdleSeated DEF Holders, Executing
<1>6. ASSUME NEW x \in Runs, NEW q \in Procs, ~(x = r /\ q = p) PROVE Holders(x, q)' = Holders(x, q)
  BY <1>2, <1>3, <1>6, IdleSeated DEF Holders, Executing
<1>7. Cardinality(Holders(r, p)') = Cardinality(Holders(r, p)) - 1
  BY <1>3, <1>5, HoldersFinite, FS_RemoveElement
<1>8. Cardinality(Holders(r, p)') \in Nat
  BY <1>5, HoldersFinite, FS_CardinalityType, FS_RemoveElement
<1>9. /\ lock' \in [Runs -> [Procs -> Nat]]
      /\ \A x \in Runs, q \in Procs : lock'[x][q] = IF x = r /\ q = p THEN lock[r][p] - 1 ELSE lock[x][q]
  <2>1. lock[r][p] - 1 \in Nat
    BY <1>1, <1>7, <1>8 DEF ClaimInv, LocksCounted
  <2> QED
    BY <1>1, <2>1 DEF ClaimInv, LocksCounted
<1>10. LocksCounted'
  BY <1>1, <1>6, <1>7, <1>9 DEF ClaimInv, LocksCounted
<1>11. LocksApart'
  <2>1. \A x \in Runs, q \in Procs : lock[x][q] = 0 => lock'[x][q] = 0
    <3>1. lock[r][p] # 0
      <4>1. Holders(r, p) # {}
        BY <1>3
      <4> QED
        BY <1>1, <4>1, HoldersFinite, FS_EmptySet DEF ClaimInv, LocksCounted
    <3> QED
      BY <1>9, <3>1
  <2> QED
    BY <2>1 DEF ClaimInv, LocksApart
<1> QED
  BY <1>4, <1>10, <1>11 DEF ClaimInv

(* A dead process holds nothing and executes nothing.                      *)
LEMMA GoneStep ==
  ASSUME ClaimInv, NEW p \in Procs, Gone(p)
  PROVE  ClaimInv'
<1>1. /\ th' = [t \in Slots |-> IF th[t].proc = p THEN Idle ELSE th[t]]
      /\ lock' = [r \in Runs |-> [lock[r] EXCEPT ![p] = 0]]
  BY DEF Gone
<1>2. ThreadsTyped'
  BY <1>1, IdleSeated DEF ClaimInv, ThreadsTyped
<1>3. /\ lock' \in [Runs -> [Procs -> Nat]]
      /\ \A r \in Runs, q \in Procs : lock'[r][q] = IF q = p THEN 0 ELSE lock[r][q]
  BY <1>1 DEF ClaimInv, LocksCounted
<1>4. ASSUME NEW r \in Runs PROVE Holders(r, p)' = {}
  BY <1>1, IdleSeated DEF Holders, Executing
<1>5. ASSUME NEW r \in Runs, NEW q \in Procs, q # p PROVE Holders(r, q)' = Holders(r, q)
  BY <1>1, <1>5, IdleSeated DEF Holders, Executing
<1>6. LocksCounted'
  <2>1. \A r \in Runs : lock'[r][p] = Cardinality(Holders(r, p)')
    BY <1>3, <1>4, FS_EmptySet
  <2>2. \A r \in Runs, q \in Procs : q # p => lock'[r][q] = Cardinality(Holders(r, q)')
    BY <1>3, <1>5 DEF ClaimInv, LocksCounted
  <2> QED
    BY <1>3, <2>1, <2>2 DEF LocksCounted
<1>7. LocksApart'
  BY <1>3 DEF ClaimInv, LocksApart
<1> QED
  BY <1>2, <1>6, <1>7 DEF ClaimInv

-----------------------------------------------------------------------------
LEMMA ClaimStart == Init => ClaimInv
<1> SUFFICES ASSUME Init PROVE ClaimInv
  OBVIOUS
<1>1. ThreadsTyped
  BY IdleSeated DEF Init, ThreadsTyped
<1>2. \A r \in Runs, p \in Procs : lock[r][p] = 0 /\ Holders(r, p) = {}
  BY IdleSeated DEF Init, Holders, Executing
<1>3. lock \in [Runs -> [Procs -> Nat]]
  BY DEF Init
<1> QED
  BY <1>1, <1>2, <1>3, FS_EmptySet DEF ClaimInv, LocksCounted, LocksApart

LEMMA ClaimNext == ClaimInv /\ [Next]_vars => ClaimInv'
<1> SUFFICES ASSUME ClaimInv, [Next]_vars PROVE ClaimInv'
  OBVIOUS
<1>1. ASSUME NEW t \in Slots, Step(t) \/ Deadline(t) PROVE ClaimInv'
  BY <1>1, QuietKeeps, StatementSteps, NoteSteps, HandlerSteps, AbortStep, SpawnStep, ClaimStep, LeaveStep DEF Step
<1>2. ASSUME NEW p \in Procs,
             \/ \E r \in Roots, flow \in RootFlows : CreateRun(p, r, flow)
             \/ \E r \in Runs, op \in {"cancel", "pause", "resume"} : CallRun(p, r, op)
             \/ \E r \in Runs, n \in Nodes : \E ballot \in AnswersTo(r, n) : CallResolve(p, r, n, ballot)
      PROVE  ClaimInv'
  BY <1>2, QuietKeeps, RequestSteps
<1>3. ASSUME NEW p \in Procs, Crash(p) \/ Exit(p) PROVE ClaimInv'
  BY <1>3, GoneStep DEF Crash, Exit
<1>4. ASSUME NEW p \in Procs, CloseHost(p) \/ Boot(p) PROVE ClaimInv'
  BY <1>4, QuietKeeps, CloseStep, BootStep
<1>5. CASE UNCHANGED vars
  BY <1>5 DEF vars, ClaimInv, ThreadsTyped, LocksCounted, LocksApart, Holders, Executing
<1> QED
  BY <1>1, <1>2, <1>3, <1>4, <1>5 DEF Next

(* Locks are counted and held by one process: what the exclusion rests on. *)
THEOREM LocksHold == Spec => []ClaimInv
BY ClaimStart, ClaimNext, PTL DEF Spec

(* No run is ever executed by two processes.                               *)
THEOREM ClaimsExclude == Spec => []ClaimExclusive
<1>1. ClaimInv => ClaimExclusive
  <2> SUFFICES ASSUME ClaimInv, NEW s \in Slots, NEW t \in Slots, Executing(s), Executing(t), th[s].run = th[t].run
               PROVE  th[s].proc = th[t].proc
    BY DEF ClaimExclusive
  <2> DEFINE r == th[s].run
             p == th[s].proc
             q == th[t].proc
  <2>1. r \in Runs /\ p \in Procs /\ q \in Procs
    BY DEF ClaimInv, ThreadsTyped, Seated, Executing
  <2>2. s \in Holders(r, p) /\ t \in Holders(r, q)
    BY DEF Holders
  <2>3. lock[r][p] # 0 /\ lock[r][q] # 0
    BY <2>1, <2>2, HoldersFinite, FS_EmptySet DEF ClaimInv, LocksCounted
  <2> QED
    BY <2>1, <2>3 DEF ClaimInv, LocksApart
<1> QED
  BY <1>1, LocksHold, PTL

-----------------------------------------------------------------------------
(* What is stopped and what is created                                     *)

Stopped == {"cancelling", "cancelled", "paused"}

Made == {r \in Runs : Created(r)}

(* The statements only an executor has to do.                              *)
Own == {"load", "next", "out", "tool", "http", "sleep", "mint", "dispatch", "find", "insert", "spawn", "watch"}

(* A statement thread x may have to do, when its child is k, the runs of M *)
(* exist and those of A were asked to stop: while nobody asked, nothing    *)
(* stops a run but a deadline.                                             *)
Fine(s, x, k, M, A) ==
  /\ s.op \in {"set", "request", "abort"} => s.run \in M
  /\ s.op = "cascade" => s.run \in Runs
  /\ s.op = "set" => s.status # "none"
  /\ s.op \in Own => x.kind = "exec"
  /\ s.op # "insert"
  /\ s.op \in {"spawn", "watch"} => k \in Kids \cap M
  /\ A = {} => /\ s.op \notin {"cascade", "request", "abort"}
               /\ s.op = "append" => s.type # "run.cancelled"
               /\ s.op = "set" => s.status \notin Stopped
               /\ s.op = "out" /\ s.outcome = "cancelled" => x.late

Clean(q, x, k, M, A) == \E T : q \in Seq(T) /\ \A s \in T : Fine(s, x, k, M, A)

(* An insert is the next thing to do, or is not ahead.                     *)
Inserts(x) == x.kind = "exec" /\ x.todo # <<>> /\ Head(x.todo) = Do("insert")

ThreadFine(x, M, A) ==
  /\ x.kind = "free" => x = Idle
  /\ x.kind = "claim" => x.todo = <<>>
  /\ x.kind # "free" => x.run \in M
  /\ A = {} /\ x.aborted => x.late
  /\ \/ Clean(x.todo, x, x.child, M, A)
     \/ Inserts(x) /\ \A k \in Kids : Clean(Tail(x.todo), x, k, M \cup {k}, A)

ThreadsFine == \A t \in Slots : ThreadFine(th[t], Made, asked)

RowFields == {"status", "next", "flow", "parent"}

RowsTyped ==
  /\ DOMAIN runs = Runs /\ DOMAIN log = Runs
  /\ \A r \in Runs : DOMAIN runs[r] = RowFields

Calm ==
  asked = {} => \A r \in Runs : runs[r].status \notin Stopped /\ ~Logged(r, "run.cancelled", 0)

(* An aborter on record is that of a thread which executes the run.        *)
AbortersKnown ==
  /\ DOMAIN aborters = Procs
  /\ \A p \in Procs :
       /\ DOMAIN aborters[p] = Runs
       /\ \A r \in Runs : aborters[p][r] \in Slots =>
            LET x == th[aborters[p][r]] IN x.kind = "exec" /\ x.proc = p /\ x.run = r

(* A step gives nobody work on a run who had none there, or an insert.     *)
Follows(x, y) ==
  /\ y.kind = "exec" /\ y.todo # <<>> => x.kind = "exec" /\ x.todo # <<>> /\ y.run = x.run
  /\ Inserts(y) => Inserts(x) /\ y.run = x.run /\ y.at = x.at /\ y.worker = x.worker

Following == \A t \in Slots : Follows(th[t], th'[t])

HostInv == ClaimInv /\ RowsTyped /\ Calm /\ ThreadsFine /\ AbortersKnown

Plain == HostInv' /\ Following

-----------------------------------------------------------------------------
(* Programs                                                                *)

LEMMA FineGrows ==
  ASSUME NEW s, NEW x, NEW y, NEW k, NEW M, NEW N, NEW A, NEW B, Fine(s, x, k, M, A),
         M \subseteq N, A \subseteq B, y.kind = x.kind, B = {} => (x.late => y.late)
  PROVE  Fine(s, y, k, N, B)
BY DEF Fine

LEMMA CleanGrows ==
  ASSUME NEW q, NEW x, NEW y, NEW k, NEW M, NEW N, NEW A, NEW B, Clean(q, x, k, M, A),
         M \subseteq N, A \subseteq B, y.kind = x.kind, B = {} => (x.late => y.late)
  PROVE  Clean(q, y, k, N, B)
<1>1. \A s : Fine(s, x, k, M, A) => Fine(s, y, k, N, B)
  BY FineGrows
<1> QED BY <1>1 DEF Clean

LEMMA CleanParts ==
  ASSUME NEW q, NEW x, NEW k, NEW M, NEW A, Clean(q, x, k, M, A), q # <<>>
  PROVE  Fine(Head(q), x, k, M, A) /\ Clean(Tail(q), x, k, M, A)
<1>1. PICK T : q \in Seq(T) /\ \A s \in T : Fine(s, x, k, M, A)
  BY DEF Clean
<1>2. Head(q) \in T /\ Tail(q) \in Seq(T)
  BY <1>1
<1> QED BY <1>1, <1>2 DEF Clean

LEMMA CleanBoth ==
  ASSUME NEW p, NEW q, NEW x, NEW k, NEW M, NEW A, Clean(p, x, k, M, A), Clean(q, x, k, M, A)
  PROVE  Clean(p \o q, x, k, M, A)
<1>1. PICK S : p \in Seq(S) /\ \A s \in S : Fine(s, x, k, M, A)
  BY DEF Clean
<1>2. PICK T : q \in Seq(T) /\ \A s \in T : Fine(s, x, k, M, A)
  BY DEF Clean
<1>3. p \in Seq(S \cup T) /\ q \in Seq(S \cup T)
  BY <1>1, <1>2
<1>4. p \o q \in Seq(S \cup T)
  BY <1>3
<1>5. \A s \in S \cup T : Fine(s, x, k, M, A)
  BY <1>1, <1>2
<1> QED BY <1>4, <1>5 DEF Clean

LEMMA CleanOver ==
  ASSUME NEW T, NEW q \in Seq(T), NEW x, NEW k, NEW M, NEW A, \A s \in T : Fine(s, x, k, M, A)
  PROVE  Clean(q, x, k, M, A)
BY DEF Clean

LEMMA CleanFew ==
  ASSUME NEW x, NEW k, NEW M, NEW A
  PROVE  /\ Clean(<<>>, x, k, M, A)
         /\ \A a : Fine(a, x, k, M, A) => Clean(<<a>>, x, k, M, A)
         /\ \A a, b : Fine(a, x, k, M, A) /\ Fine(b, x, k, M, A) => Clean(<<a, b>>, x, k, M, A)
         /\ \A a, b, c : Fine(a, x, k, M, A) /\ Fine(b, x, k, M, A) /\ Fine(c, x, k, M, A) => Clean(<<a, b, c>>, x, k, M, A)
<1>1. Clean(<<>>, x, k, M, A)
  <2> DEFINE q == <<>>
             T == {}
  <2>1. q \in Seq(T) /\ \A s \in T : Fine(s, x, k, M, A)
    OBVIOUS
  <2> HIDE DEF q, T
  <2>2. Clean(q, x, k, M, A)
    BY <2>1, CleanOver
  <2> QED BY <2>2 DEF q
<1>2. ASSUME NEW a, Fine(a, x, k, M, A) PROVE Clean(<<a>>, x, k, M, A)
  <2> DEFINE q == <<a>>
             T == {a}
  <2>1. q \in Seq(T)
    OBVIOUS
  <2>2. \A s \in T : Fine(s, x, k, M, A)
    BY <1>2
  <2> HIDE DEF q, T
  <2>3. Clean(q, x, k, M, A)
    BY <2>1, <2>2, CleanOver
  <2> QED BY <2>3 DEF q
<1>3. ASSUME NEW a, NEW b, Fine(a, x, k, M, A), Fine(b, x, k, M, A) PROVE Clean(<<a, b>>, x, k, M, A)
  <2> DEFINE q == <<a, b>>
             T == {a, b}
  <2>1. q \in Seq(T)
    OBVIOUS
  <2>2. \A s \in T : Fine(s, x, k, M, A)
    BY <1>3
  <2> HIDE DEF q, T
  <2>3. Clean(q, x, k, M, A)
    BY <2>1, <2>2, CleanOver
  <2> QED BY <2>3 DEF q
<1>4. ASSUME NEW a, NEW b, NEW c, Fine(a, x, k, M, A), Fine(b, x, k, M, A), Fine(c, x, k, M, A)
      PROVE  Clean(<<a, b, c>>, x, k, M, A)
  <2> DEFINE q == <<a, b, c>>
             T == {a, b, c}
  <2>1. q \in Seq(T)
    OBVIOUS
  <2>2. \A s \in T : Fine(s, x, k, M, A)
    BY <1>4
  <2> HIDE DEF q, T
  <2>3. Clean(q, x, k, M, A)
    BY <2>1, <2>2, CleanOver
  <2> QED BY <2>3 DEF q
<1> QED BY <1>1, <1>2, <1>3, <1>4

LEMMA FineStatements ==
  ASSUME NEW x, NEW k, NEW M, NEW A
  PROVE  /\ \A r, type, n : (A = {} => type # "run.cancelled") => Fine(Ev(r, type, n), x, k, M, A)
         /\ \A r \in M : \A status : status # "none" /\ (A = {} => status \notin Stopped) => Fine(Set(r, status), x, k, M, A)
         /\ \A outcome : x.kind = "exec" /\ (A = {} /\ outcome = "cancelled" => x.late) => Fine(Out(outcome), x, k, M, A)
         /\ \A op \in Own \ {"out", "insert", "spawn", "watch"} : x.kind = "exec" => Fine(Do(op), x, k, M, A)
         /\ x.kind = "exec" /\ k \in Kids \cap M => Fine(Do("spawn"), x, k, M, A) /\ Fine(Do("watch"), x, k, M, A)
         /\ \A op : op \notin Own \cup {"set", "append", "request", "abort", "cascade"} => Fine(Do(op), x, k, M, A)
         /\ A # {} => \A r \in Runs : Fine(Of("cascade", r), x, k, M, A)
         /\ A # {} => \A r \in M : Fine(Of("request", r), x, k, M, A) /\ Fine(Of("abort", r), x, k, M, A)
         /\ \A r : Fine(Of("invalidate", r), x, k, M, A)
BY DEF Fine, Ev, Set, Out, Do, Of, Own

(* A program that stops nobody and waits for no child: fine at any time.   *)
Onward(r, p) == \A x, k, M, A : x.kind = "exec" /\ r \in M => Clean(p, x, k, M, A)

LEMMA OnwardFew ==
  ASSUME NEW r
  PROVE  /\ Onward(r, <<>>)
         /\ \A type, n, outcome : type # "run.cancelled" /\ outcome # "cancelled" => Onward(r, <<Ev(r, type, n), Out(outcome)>>)
         /\ \A outcome : outcome # "cancelled" => Onward(r, <<Out(outcome)>>)
         /\ \A op \in Own \ {"out", "insert", "spawn", "watch"} : Onward(r, <<Do(op)>>)
         /\ \A type, n : type # "run.cancelled" => Onward(r, <<Ev(r, type, n)>>)
         /\ \A type, n, status : type # "run.cancelled" /\ status \notin Stopped \cup {"none"} => Onward(r, <<Ev(r, type, n), Set(r, status)>>)
         /\ \A type, n, type2, n2, status : type # "run.cancelled" /\ type2 # "run.cancelled" /\ status \notin Stopped \cup {"none"}
               => Onward(r, <<Ev(r, type, n), Ev(r, type2, n2), Set(r, status)>>)
<1> SUFFICES ASSUME NEW x, NEW k, NEW M, NEW A, x.kind = "exec", r \in M
             PROVE  /\ Clean(<<>>, x, k, M, A)
                    /\ \A type, n, outcome : type # "run.cancelled" /\ outcome # "cancelled" => Clean(<<Ev(r, type, n), Out(outcome)>>, x, k, M, A)
                    /\ \A outcome : outcome # "cancelled" => Clean(<<Out(outcome)>>, x, k, M, A)
                    /\ \A op \in Own \ {"out", "insert", "spawn", "watch"} : Clean(<<Do(op)>>, x, k, M, A)
                    /\ \A type, n : type # "run.cancelled" => Clean(<<Ev(r, type, n)>>, x, k, M, A)
                    /\ \A type, n, status : type # "run.cancelled" /\ status \notin Stopped \cup {"none"}
                          => Clean(<<Ev(r, type, n), Set(r, status)>>, x, k, M, A)
                    /\ \A type, n, type2, n2, status : type # "run.cancelled" /\ type2 # "run.cancelled" /\ status \notin Stopped \cup {"none"}
                          => Clean(<<Ev(r, type, n), Ev(r, type2, n2), Set(r, status)>>, x, k, M, A)
  BY DEF Onward
<1>1. /\ \A type, n : type # "run.cancelled" => Fine(Ev(r, type, n), x, k, M, A)
      /\ \A outcome : outcome # "cancelled" => Fine(Out(outcome), x, k, M, A)
      /\ \A status : status \notin Stopped \cup {"none"} => Fine(Set(r, status), x, k, M, A)
      /\ \A op \in Own \ {"out", "insert", "spawn", "watch"} : Fine(Do(op), x, k, M, A)
  BY FineStatements
<1> QED BY <1>1, CleanFew

LEMMA OnwardBoth ==
  ASSUME NEW r, NEW p, NEW q, Onward(r, p), Onward(r, q)
  PROVE  Onward(r, p \o q)
BY CleanBoth DEF Onward

LEMMA OnwardNode ==
  ASSUME NEW r, NEW n
  PROVE  /\ Onward(r, Completed(r, n)) /\ Onward(r, Failed(r, n)) /\ Onward(r, Suspends(r, n))
         /\ Onward(r, Fails(r)) /\ Onward(r, FailRunDuration(r)) /\ Onward(r, Recursion(r, n))
         /\ \A p \in Completes(r) : Onward(r, p)
<1>1. Onward(r, Completed(r, n)) /\ Onward(r, Failed(r, n)) /\ Onward(r, Suspends(r, n))
  BY OnwardFew DEF Completed, Failed, Suspends
<1>2. Onward(r, Fails(r)) /\ \A p \in Completes(r) : Onward(r, p)
  BY OnwardFew DEF Fails, Completes, Stopped
<1>3. Onward(r, <<Ev(r, "cap.breached", 0)>>) /\ Onward(r, <<Ev(r, "cap.breached", n)>>)
  BY OnwardFew
<1>4. Onward(r, FailRunDuration(r)) /\ Onward(r, Recursion(r, n))
  BY <1>2, <1>3, OnwardBoth DEF FailRunDuration, Recursion
<1> QED BY <1>1, <1>2, <1>4

LEMMA OnwardEv ==
  ASSUME NEW r, NEW type, type # "run.cancelled", NEW n, NEW p, Onward(r, p)
  PROVE  Onward(r, <<Ev(r, type, n)>> \o p)
BY OnwardFew, OnwardBoth

LEMMA OnwardAgents ==
  ASSUME NEW r, NEW n
  PROVE  \A p \in LlmCall(r, n) \cup ToolCall(r, n) \cup MockAgent(r, n) : Onward(r, p)
<1> DEFINE decided == <<Ev(r, "policy.decision", n)>>
           mocked == <<Ev(r, "agent.decided", n)>>
<1>1. Onward(r, decided) /\ Onward(r, mocked) /\ Onward(r, <<Ev(r, "agent.handoff", n)>>)
      /\ Onward(r, <<Ev(r, "agent.reasoned", n)>>) /\ Onward(r, <<>>)
  BY OnwardFew
<1>2. \A a, b \in {"agent.reasoned", "agent.decided", "agent.toolCalled", "agent.toolReturned"} : Onward(r, <<Ev(r, a, n), Ev(r, b, n)>>)
  <2> SUFFICES ASSUME NEW a \in {"agent.reasoned", "agent.decided", "agent.toolCalled", "agent.toolReturned"},
                      NEW b \in {"agent.reasoned", "agent.decided", "agent.toolCalled", "agent.toolReturned"},
                      NEW x, NEW k, NEW M, NEW A
               PROVE  Clean(<<Ev(r, a, n), Ev(r, b, n)>>, x, k, M, A)
    BY DEF Onward
  <2>1. Fine(Ev(r, a, n), x, k, M, A) /\ Fine(Ev(r, b, n), x, k, M, A)
    BY FineStatements
  <2> QED BY <2>1, CleanFew
<1>3. Onward(r, <<Ev(r, "agent.reasoned", n), Ev(r, "agent.toolCalled", n), Ev(r, "agent.toolReturned", n)>>)
  <2> SUFFICES ASSUME NEW x, NEW k, NEW M, NEW A
               PROVE  Clean(<<Ev(r, "agent.reasoned", n), Ev(r, "agent.toolCalled", n), Ev(r, "agent.toolReturned", n)>>, x, k, M, A)
    BY DEF Onward
  <2>1. /\ Fine(Ev(r, "agent.reasoned", n), x, k, M, A) /\ Fine(Ev(r, "agent.toolCalled", n), x, k, M, A)
        /\ Fine(Ev(r, "agent.toolReturned", n), x, k, M, A)
    BY FineStatements
  <2> QED BY <2>1, CleanFew
<1> HIDE DEF decided, mocked
<1>4. Onward(r, decided \o Failed(r, n)) /\ Onward(r, mocked \o Completed(r, n)) /\ Onward(r, mocked \o Suspends(r, n))
  BY <1>1, OnwardNode, OnwardBoth
<1>5. \A p \in LlmCall(r, n) : Onward(r, p)
  <2>1. Onward(r, decided \o <<Ev(r, "agent.decided", n)>> \o Completed(r, n))
    BY <1>1, OnwardNode, OnwardBoth DEF mocked
  <2>2. Onward(r, decided \o <<Ev(r, "agent.reasoned", n), Ev(r, "agent.decided", n)>> \o Completed(r, n))
    BY <1>1, <1>2, OnwardNode, OnwardBoth
  <2> QED BY <1>4, <2>1, <2>2, OnwardNode DEF LlmCall, decided
<1>6. \A p \in ToolCall(r, n) : Onward(r, p)
  <2>1. Onward(r, <<Ev(r, "agent.toolCalled", n), Do("tool")>>)
    <3> SUFFICES ASSUME NEW x, NEW k, NEW M, NEW A, x.kind = "exec"
                 PROVE  Clean(<<Ev(r, "agent.toolCalled", n), Do("tool")>>, x, k, M, A)
      BY DEF Onward
    <3>1. Fine(Ev(r, "agent.toolCalled", n), x, k, M, A) /\ Fine(Do("tool"), x, k, M, A)
      BY FineStatements DEF Own
    <3> QED BY <3>1, CleanFew
  <2> QED BY <2>1 DEF ToolCall
<1>7. \A p \in MockTools(r, n) : Onward(r, p)
  BY <1>1, <1>3 DEF MockTools
<1>8. \A p \in MockDecision(r, n) : Onward(r, p)
  <2>1. Onward(r, <<Ev(r, "agent.handoff", n)>> \o mocked \o Completed(r, n))
    BY <1>1, OnwardNode, OnwardBoth
  <2> QED BY <1>4, <2>1, OnwardNode DEF MockDecision, mocked
<1>9. \A p \in MockAgent(r, n) : Onward(r, p)
  <2> SUFFICES ASSUME NEW p \in MockAgent(r, n), p # Failed(r, n) PROVE Onward(r, p)
    BY OnwardNode
  <2>1. PICK tools \in MockTools(r, n), rest \in MockDecision(r, n) : p = tools \o rest
    BY DEF MockAgent
  <2> QED BY <1>7, <1>8, <2>1, OnwardBoth
<1> QED BY <1>5, <1>6, <1>9

LEMMA OnwardBody ==
  ASSUME NEW r, NEW n
  PROVE  \A p \in Enters(r, n) : Onward(r, p)
<1>1. /\ Onward(r, Completed(r, n)) /\ Onward(r, Failed(r, n)) /\ Onward(r, Suspends(r, n))
      /\ Onward(r, <<Do("sleep")>>) /\ Onward(r, <<Do("dispatch")>>) /\ Onward(r, <<Do("find")>>)
      /\ Onward(r, <<Do("http")>>) /\ Onward(r, <<Do("mint")>>) /\ Onward(r, <<Out("failed")>>)
  BY OnwardNode, OnwardFew DEF Own
<1>2. /\ Onward(r, <<Ev(r, "runOrchestrator.decided", n)>> \o Completed(r, n))
      /\ Onward(r, <<Do("mint")>> \o Suspends(r, n))
      /\ Onward(r, <<Ev(r, "model.capability.insufficient", n)>> \o Failed(r, n))
  BY <1>1, OnwardEv, OnwardBoth
<1>3. \A p \in Body(r, n) : Onward(r, p)
  <2>1. /\ \A p \in Identity(r, n) \cup SecretEcho(r, n) \cup CostEmit(r, n) \cup Unsupported(r, n) : Onward(r, p)
        /\ \A p \in HttpRequest(r, n) \cup Delay(r, n) \cup Gate(r, n) \cup Interrupt(r, n) : Onward(r, p)
        /\ \A p \in Supervisor(r, n) \cup Dispatch(r, n) \cup SubWorkflow(r, n) : Onward(r, p)
    BY <1>1, <1>2 DEF Identity, Handoff, SecretEcho, CostEmit, Unsupported, HttpRequest, Delay, Gate, Interrupt,
                       Supervisor, Dispatch, SubWorkflow
  <2> QED BY <1>1, <2>1, OnwardAgents DEF Body
<1>4. \A p \in Refusals(r, n) : Onward(r, p)
  BY <1>1, <1>2 DEF Refusals
<1> SUFFICES ASSUME NEW p \in Enters(r, n), Refusals(r, n) = {} PROVE Onward(r, p)
  BY <1>4 DEF Enters
<1>5. PICK body \in Body(r, n) : p = <<Ev(r, "node.started", n)>> \o body
  BY DEF Enters
<1> QED BY <1>3, <1>5, OnwardEv

(* Programs that stop a run.                                               *)
LEMMA Stopping ==
  ASSUME NEW r, NEW n, NEW x, NEW k, NEW M, r \in M, NEW A
  PROVE  /\ A # {} => Clean(Cancels(r), x, k, M, A) /\ Clean(EndWaiting(r), x, k, M, A) /\ Clean(Ask(r), x, k, M, A)
         /\ x.kind = "exec" /\ (A = {} => x.late) => Clean(Abandoned(r, n), x, k, M, A)
<1>1. x.kind = "exec" /\ (A = {} => x.late) => Clean(Abandoned(r, n), x, k, M, A)
  <2> SUFFICES ASSUME x.kind = "exec", A = {} => x.late PROVE Clean(Abandoned(r, n), x, k, M, A)
    OBVIOUS
  <2>1. Fine(Ev(r, "node.cancelled", n), x, k, M, A) /\ Fine(Out("cancelled"), x, k, M, A)
    BY FineStatements
  <2> QED BY <2>1, CleanFew DEF Abandoned
<1> SUFFICES ASSUME A # {} PROVE Clean(Cancels(r), x, k, M, A) /\ Clean(EndWaiting(r), x, k, M, A) /\ Clean(Ask(r), x, k, M, A)
  BY <1>1
<1>2. /\ Fine(Ev(r, "run.cancelled", 0), x, k, M, A) /\ Fine(Set(r, "cancelled"), x, k, M, A)
      /\ Fine(Of("invalidate", r), x, k, M, A) /\ Fine(Of("request", r), x, k, M, A) /\ Fine(Of("abort", r), x, k, M, A)
  BY FineStatements
<1>3. Clean(Cancels(r), x, k, M, A) /\ Clean(<<Of("invalidate", r)>>, x, k, M, A) /\ Clean(Ask(r), x, k, M, A)
  BY <1>2, CleanFew DEF Cancels, Ask
<1> QED BY <1>3, CleanBoth DEF EndWaiting

-----------------------------------------------------------------------------
(* Steps of one thread                                                     *)

LEMMA ThreadGrows ==
  ASSUME NEW x, NEW M, NEW N, NEW A, NEW B, ThreadFine(x, M, A), M \subseteq N, A \subseteq B
  PROVE  ThreadFine(x, N, B)
<1>1. \A q, k : Clean(q, x, k, M, A) => Clean(q, x, k, N, B)
  BY CleanGrows
<1>3. \A q, k : Clean(q, x, k, M \cup {k}, A) => Clean(q, x, k, N \cup {k}, B)
  BY CleanGrows
<1>2. \/ Clean(x.todo, x, x.child, N, B)
      \/ Inserts(x) /\ \A k \in Kids : Clean(Tail(x.todo), x, k, N \cup {k}, B)
  BY <1>1, <1>3 DEF ThreadFine
<1> QED BY <1>2 DEF ThreadFine

(* What is known of a thread whose next statement is op.                   *)
LEMMA AtFacts ==
  ASSUME HostInv, NEW t \in Slots, NEW op, At(t, op), op # "insert"
  PROVE  /\ th[t].kind # "free" /\ th[t].todo # <<>> /\ First(t).op = op
         /\ th[t].run \in Made /\ th[t].run \in Runs
         /\ Fine(First(t), th[t], th[t].child, Made, asked)
         /\ Clean(Rest(t), th[t], th[t].child, Made, asked)
<1>1. th[t].kind # "free" /\ th[t].todo # <<>> /\ First(t).op = op
  BY DEF At, First
<1>2. ~Inserts(th[t])
  BY <1>1 DEF Inserts, First, Do
<1>3. ThreadFine(th[t], Made, asked)
  BY DEF HostInv, ThreadsFine
<1>4. Clean(th[t].todo, th[t], th[t].child, Made, asked) /\ th[t].run \in Made
  BY <1>1, <1>2, <1>3 DEF ThreadFine
<1>5. Fine(First(t), th[t], th[t].child, Made, asked) /\ Clean(Rest(t), th[t], th[t].child, Made, asked)
  BY <1>1, <1>4, CleanParts DEF First, Rest
<1> QED BY <1>1, <1>4, <1>5 DEF Made

LEMMA ThreadShape ==
  ASSUME HostInv, NEW t \in Slots
  PROVE  /\ DOMAIN th = Slots /\ Seated(th[t])
         /\ DOMAIN th[t] = {"kind", "proc", "run", "at", "worker", "child", "aborted", "late", "row", "node", "ballot", "votes", "todo"}
BY DEF HostInv, ClaimInv, ThreadsTyped, Seated, Idle

LEMMA IdleFine == \A M, A : ThreadFine(Idle, M, A)
<1>1. \A M, A : Clean(<<>>, Idle, "none", M, A)
  BY CleanFew
<1>2. Idle.kind = "free" /\ Idle.todo = <<>> /\ Idle.child = "none" /\ Idle.aborted = FALSE
  BY DEF Idle
<1> QED BY <1>1, <1>2 DEF ThreadFine

LEMMA OneThread ==
  ASSUME HostInv, NEW t \in Slots, NEW new, Becomes(t, new), Made \subseteq Made', asked \subseteq asked',
         ThreadFine(new, Made', asked')
  PROVE  ThreadsFine' /\ (Follows(th[t], new) => Following)
<1>1. \A s \in Slots : th'[s] = IF s = t THEN new ELSE th[s]
  BY ThreadShape DEF Becomes
<1>3. Follows(th[t], new) => Following
  BY <1>1 DEF Following, Follows
<1>2. ASSUME NEW s \in Slots, s # t PROVE ThreadFine(th[s], Made', asked')
  <2>1. ThreadFine(th[s], Made, asked)
    BY DEF HostInv, ThreadsFine
  <2> QED BY <2>1, ThreadGrows
<1> QED BY <1>1, <1>2, <1>3 DEF ThreadsFine

(* A fine program does not begin with an insert, and neither has one to do *)
(* who executes nothing.                                                   *)
LEMMA NoInsert ==
  ASSUME NEW x, NEW M, NEW A, Clean(x.todo, x, x.child, M, A) \/ x.kind # "exec"
  PROVE  ~Inserts(x)
<1> SUFFICES ASSUME Inserts(x), Clean(x.todo, x, x.child, M, A) PROVE FALSE
  BY DEF Inserts
<1>1. x.todo # <<>> /\ Head(x.todo) = Do("insert")
  BY DEF Inserts
<1>2. Fine(Head(x.todo), x, x.child, M, A)
  BY <1>1, CleanParts
<1> QED BY <1>1, <1>2 DEF Fine, Do

LEMMA IdleFollows == /\ \A x : Follows(x, Idle)
                     /\ \A x, y : y.kind \in {"call", "claim"} => Follows(x, y)
                     /\ \A x, p, r : Follows(x, Executor(p, r))
BY DEF Follows, Inserts, Idle, Executor

LEMMA Continues ==
  ASSUME HostInv, NEW t \in Slots, NEW op, At(t, op), op # "insert", NEW more, Then(t, more),
         Made \subseteq Made', asked \subseteq asked', Clean(more, th[t], th[t].child, Made', asked')
  PROVE  ThreadsFine' /\ Following
<1>1. th[t].kind # "free" /\ th[t].todo # <<>> /\ th[t].run \in Made /\ Clean(Rest(t), th[t], th[t].child, Made, asked)
  BY AtFacts
<1>2. Clean(Rest(t), th[t], th[t].child, Made', asked')
  BY <1>1, CleanGrows
<1> DEFINE q == more \o Rest(t)
           y == [th[t] EXCEPT !.todo = q]
<1>3. Clean(q, th[t], th[t].child, Made', asked')
  BY <1>2, CleanBoth
<1>4. Becomes(t, Idle) \/ Becomes(t, y)
  BY DEF Then
<1> HIDE DEF q
<1>5. /\ y.kind = th[t].kind /\ y.run = th[t].run /\ y.late = th[t].late /\ y.aborted = th[t].aborted
      /\ y.child = th[t].child /\ y.todo = q
  BY ThreadShape
<1> HIDE DEF y
<1>6. Clean(y.todo, y, y.child, Made', asked')
  BY <1>3, <1>5, CleanGrows
<1>7. ThreadFine(th[t], Made, asked)
  BY DEF HostInv, ThreadsFine
<1>8. y.kind # "claim"
  BY <1>1, <1>5, <1>7 DEF ThreadFine
<1>9. ThreadFine(y, Made', asked')
  BY <1>1, <1>5, <1>6, <1>7, <1>8 DEF ThreadFine
<1>10. Follows(th[t], y)
  BY <1>1, <1>5, <1>6, NoInsert DEF Follows
<1> QED BY <1>4, <1>9, <1>10, IdleFine, IdleFollows, OneThread

(* A thread that notes something and has a fine program after it.          *)
LEMMA Renewed ==
  ASSUME HostInv, NEW t \in Slots, NEW op, At(t, op), op # "insert", \A s \in Slots : s # t => th'[s] = th[s],
         th'[t].kind = th[t].kind, th'[t].run = th[t].run, th'[t].late = th[t].late, th'[t].aborted = th[t].aborted,
         Made \subseteq Made', asked \subseteq asked', Clean(th'[t].todo, th[t], th'[t].child, Made', asked')
  PROVE  ThreadsFine' /\ Following
<1> DEFINE y == th'[t]
<1>1. th[t].kind # "free" /\ th[t].todo # <<>> /\ th[t].run \in Made
  BY AtFacts
<1>2. Clean(y.todo, y, y.child, Made', asked')
  BY CleanGrows
<1>3. ThreadFine(th[t], Made, asked)
  BY DEF HostInv, ThreadsFine
<1>4. y.kind # "claim"
  BY <1>1, <1>3 DEF ThreadFine
<1>5. ThreadFine(y, Made', asked')
  <2> HIDE DEF y
  <2>1. y.kind = th[t].kind /\ y.run = th[t].run /\ y.late = th[t].late /\ y.aborted = th[t].aborted
    BY DEF y
  <2> QED BY <1>1, <1>2, <1>3, <1>4, <2>1 DEF ThreadFine
<1>6. ASSUME NEW s \in Slots, s # t PROVE ThreadFine(th'[s], Made', asked')
  <2>1. ThreadFine(th[s], Made, asked)
    BY DEF HostInv, ThreadsFine
  <2> QED BY <1>6, <2>1, ThreadGrows
<1>7. Follows(th[t], y)
  BY <1>1, <1>2, NoInsert DEF Follows
<1>8. Following
  BY <1>7 DEF Following, Follows
<1> QED BY <1>5, <1>6, <1>8 DEF ThreadsFine

(* The rest of the invariant, when no run, log or aborter is written.      *)
LEMMA Undisturbed ==
  ASSUME HostInv, Quiet, UNCHANGED <<runs, log, aborters>>, asked \subseteq asked'
  PROVE  ClaimInv' /\ RowsTyped' /\ Calm' /\ AbortersKnown' /\ Made' = Made
<1>1. ClaimInv'
  BY QuietKeeps DEF HostInv
<1>2. RowsTyped' /\ Calm' /\ Made' = Made
  BY DEF HostInv, RowsTyped, Calm, Made, Created, Logged
<1>3. AbortersKnown'
  BY DEF HostInv, AbortersKnown, Quiet, Stays
<1> QED BY <1>1, <1>2, <1>3

LEMMA SameAborters ==
  ASSUME HostInv, Quiet, UNCHANGED aborters
  PROVE  ClaimInv' /\ AbortersKnown'
<1>1. ClaimInv'
  BY QuietKeeps DEF HostInv
<1>3. AbortersKnown'
  BY DEF HostInv, AbortersKnown, Quiet, Stays
<1> QED BY <1>1, <1>3

(* Steps that write a status or an event.                                  *)
LEMMA RowWritten ==
  ASSUME HostInv, NEW r \in Runs, NEW row, DOMAIN row = RowFields, row.status # "none",
         asked = {} => row.status \notin Stopped,
         runs' = [runs EXCEPT ![r] = row], UNCHANGED log, asked \subseteq asked'
  PROVE  RowsTyped' /\ Calm' /\ Made \subseteq Made' /\ r \in Made'
<1>1. DOMAIN runs' = Runs /\ \A c \in Runs : runs'[c] = IF c = r THEN row ELSE runs[c]
  BY DEF HostInv, RowsTyped
<1>2. RowsTyped'
  BY <1>1 DEF HostInv, RowsTyped
<1>3. Calm'
  BY <1>1 DEF HostInv, Calm, Logged
<1>4. Made \subseteq Made' /\ r \in Made'
  BY <1>1 DEF Made, Created
<1> QED BY <1>2, <1>3, <1>4

LEMMA StatusStep ==
  ASSUME HostInv, NEW t \in Slots, SetStatus(t)
  PROVE  Plain
<1> DEFINE s == First(t)
           row == [runs[s.run] EXCEPT !.status = s.status]
<1>1. At(t, "set") /\ Then(t, <<>>) /\ UNCHANGED <<log, aborters, asked>>
      /\ runs' = [runs EXCEPT ![s.run].status = s.status]
  BY DEF SetStatus, History
<1>2. s.op = "set" /\ Fine(s, th[t], th[t].child, Made, asked)
  BY <1>1, AtFacts
<1>3. s.run \in Made /\ s.run \in Runs /\ s.status # "none" /\ (asked = {} => s.status \notin Stopped)
  BY <1>2 DEF Fine, Made
<1>4. runs' = [runs EXCEPT ![s.run] = row] /\ DOMAIN row = RowFields /\ row.status = s.status
  BY <1>1, <1>3 DEF HostInv, RowsTyped, RowFields
<1> HIDE DEF s, row
<1>5. RowsTyped' /\ Calm' /\ Made \subseteq Made'
  BY <1>1, <1>3, <1>4, RowWritten
<1>6. Quiet
  BY StatementSteps DEF HostInv
<1>7. Clean(<<>>, th[t], th[t].child, Made', asked')
  BY CleanFew
<1>8. ThreadsFine' /\ Following
  BY <1>1, <1>5, <1>7, Continues
<1> QED BY <1>1, <1>5, <1>6, <1>8, SameAborters DEF HostInv, Plain

LEMMA WithIn ==
  ASSUME NEW events, NEW type, NEW n, NEW type2, NEW n2
  PROVE  In(With(events, type, n), type2, n2) <=> In(events, type2, n2) \/ (type2 = type /\ n2 = n)
BY DEF In, With, BagIn, BagToSet, SetToBag, (+)

(* An event that is no cancellation, or that comes once a run was stopped. *)
LEMMA EventWritten ==
  ASSUME HostInv, NEW r, NEW type, NEW n, asked = {} => type # "run.cancelled",
         log' = [log EXCEPT ![r] = With(@, type, n)], UNCHANGED runs, asked \subseteq asked'
  PROVE  RowsTyped' /\ Calm' /\ Made' = Made
<1>1. DOMAIN log' = Runs /\ \A c \in Runs : log'[c] = IF c = r THEN With(log[c], type, n) ELSE log[c]
  BY DEF HostInv, RowsTyped
<1>2. RowsTyped' /\ Made' = Made
  BY <1>1 DEF HostInv, RowsTyped, Made, Created
<1>3. ASSUME asked' = {}, NEW c \in Runs PROVE runs'[c].status \notin Stopped /\ ~In(log'[c], "run.cancelled", 0)
  <2>1. runs[c].status \notin Stopped /\ ~In(log[c], "run.cancelled", 0) /\ type # "run.cancelled"
    BY <1>3 DEF HostInv, Calm, Logged
  <2>2. ~In(With(log[c], type, n), "run.cancelled", 0)
    BY <2>1, WithIn
  <2> QED BY <1>1, <2>1, <2>2
<1>4. Calm'
  BY <1>3 DEF Calm, Logged
<1> QED BY <1>2, <1>4

LEMMA EventStep ==
  ASSUME HostInv, NEW t \in Slots, AppendEvent(t)
  PROVE  Plain
<1> DEFINE e == First(t)
<1>1. At(t, "append") /\ Then(t, <<>>) /\ UNCHANGED <<runs, aborters, asked>>
      /\ log' = [log EXCEPT ![e.run] = With(@, e.type, e.node)]
  BY DEF AppendEvent, History
<1>2. e.op = "append" /\ Fine(e, th[t], th[t].child, Made, asked)
  BY <1>1, AtFacts
<1>3. asked = {} => e.type # "run.cancelled"
  BY <1>2 DEF Fine
<1> HIDE DEF e
<1>4. RowsTyped' /\ Calm' /\ Made' = Made
  BY <1>1, <1>3, EventWritten
<1>5. Quiet
  BY StatementSteps DEF HostInv
<1>6. Clean(<<>>, th[t], th[t].child, Made', asked')
  BY CleanFew
<1>7. ThreadsFine' /\ Following
  BY <1>1, <1>4, <1>6, Continues
<1> QED BY <1>1, <1>4, <1>5, <1>7, SameAborters DEF HostInv, Plain

(* A thread that only goes on.                                             *)
LEMMA GoesOn ==
  ASSUME HostInv, Quiet, NEW t \in Slots, NEW op, At(t, op), op # "insert", NEW more, Then(t, more),
         UNCHANGED <<runs, log, aborters>>, asked \subseteq asked', Clean(more, th[t], th[t].child, Made, asked')
  PROVE  Plain
<1>1. ClaimInv' /\ RowsTyped' /\ Calm' /\ AbortersKnown' /\ Made' = Made
  BY Undisturbed
<1>2. ThreadsFine' /\ Following
  BY <1>1, Continues
<1> QED BY <1>1, <1>2 DEF HostInv, Plain

LEMMA GoesOnward ==
  ASSUME HostInv, Quiet, NEW t \in Slots, NEW op \in Own, At(t, op), op # "insert", NEW more, Then(t, more),
         Onward(th[t].run, more), UNCHANGED <<runs, log, aborters>>, asked \subseteq asked'
  PROVE  Plain
<1>1. th[t].run \in Made /\ th[t].kind = "exec"
  BY AtFacts DEF Fine
<1>2. Clean(more, th[t], th[t].child, Made, asked')
  BY <1>1 DEF Onward
<1> QED BY <1>2, GoesOn

LEMMA AtOwn ==
  ASSUME HostInv, NEW t \in Slots, NEW op \in Own, At(t, op), op # "insert"
  PROVE  th[t].kind = "exec" /\ th[t].run \in Made /\ th[t].run \in Runs /\ (op \in {"spawn", "watch"} => th[t].child \in Kids \cap Made)
BY AtFacts DEF Fine

(* Nobody is cancelling, and nothing was cancelled, before somebody asked. *)
LEMMA StoppedIsAsked ==
  ASSUME HostInv, NEW r \in Runs, runs[r].status \in Stopped
  PROVE  asked # {}
BY DEF HostInv, Calm

LEMMA NextNodeStep ==
  ASSUME HostInv, NEW t \in Slots, NextNode(t)
  PROVE  Plain
<1> DEFINE r == th[t].run
           n == th[t].at
           status == runs[r].status
<1>1. At(t, "next") /\ UNCHANGED <<runs, log, aborters, asked>>
  BY DEF NextNode, Database, History
<1>2. th[t].kind = "exec" /\ r \in Made /\ r \in Runs
  BY <1>1, AtOwn DEF Own
<1>3. Quiet
  BY StatementSteps DEF HostInv
<1>4. CASE status = "cancelling"
  <2>1. asked # {}
    BY <1>2, <1>4, StoppedIsAsked DEF Stopped
  <2>2. Clean(Cancels(r), th[t], th[t].child, Made, asked) /\ Clean(Abandoned(r, n), th[t], th[t].child, Made, asked)
    BY <1>2, <2>1, Stopping
  <2>3. PICK more : Then(t, more) /\ (more = Cancels(r) \/ more = Abandoned(r, n))
    BY <1>4 DEF NextNode
  <2>4. Clean(more, th[t], th[t].child, Made, asked')
    BY <1>1, <2>2, <2>3
  <2> QED BY <1>1, <1>3, <2>3, <2>4, GoesOn
<1>5. CASE status # "cancelling"
  <2>1. PICK more : Then(t, more) /\ more \in {<<>>, Recursion(r, n)} \cup Completes(r) \cup Enters(r, n)
    BY <1>5 DEF NextNode
  <2>2. Onward(r, more)
    BY <2>1, OnwardFew, OnwardNode, OnwardBody
  <2> QED BY <1>1, <1>3, <2>1, <2>2, GoesOnward DEF Own
<1> QED BY <1>4, <1>5

-----------------------------------------------------------------------------
(* The executor                                                            *)

LEMMA LoadStep ==
  ASSUME HostInv, NEW t \in Slots, Load(t)
  PROVE  Plain
<1> DEFINE r == th[t].run
           p == th[t].proc
           event == IF Logged(r, "run.started", 0) THEN "run.resumed" ELSE "run.started"
           q == <<Set(r, "running"), Ev(r, event, 0), Do("next")>>
<1>1. /\ At(t, "load") /\ UNCHANGED <<runs, log, asked, lock>> /\ aborters' = [aborters EXCEPT ![p][r] = t]
      /\ th' = [th EXCEPT ![t].at = runs[r].next, ![t].todo = q]
  BY DEF Load, Database, History
<1>2. th[t].kind = "exec" /\ r \in Made /\ r \in Runs
  BY <1>1, AtOwn DEF Own
<1>3. Clean(q, th[t], th[t].child, Made, asked)
  <2>1. event # "run.cancelled" /\ "running" \notin Stopped \cup {"none"}
    BY DEF Stopped
  <2> HIDE DEF event
  <2>2. Fine(Set(r, "running"), th[t], th[t].child, Made, asked) /\ Fine(Ev(r, event, 0), th[t], th[t].child, Made, asked)
        /\ Fine(Do("next"), th[t], th[t].child, Made, asked)
    BY <1>2, <2>1, FineStatements DEF Own
  <2> QED BY <2>2, CleanFew
<1> HIDE DEF q
<1>4. /\ DOMAIN th' = Slots /\ \A s \in Slots : s # t => th'[s] = th[s]
      /\ th'[t].kind = th[t].kind /\ th'[t].run = r /\ th'[t].late = th[t].late /\ th'[t].aborted = th[t].aborted
      /\ th'[t].todo = q /\ th'[t].child = th[t].child /\ th'[t].proc = p
  BY <1>1, ThreadShape
<1>5. Made' = Made /\ RowsTyped' /\ Calm'
  BY <1>1 DEF HostInv, RowsTyped, Calm, Made, Created, Logged
<1>6. Clean(th'[t].todo, th[t], th'[t].child, Made', asked')
  BY <1>1, <1>3, <1>4, <1>5
<1>7. ThreadsFine' /\ Following
  BY <1>1, <1>4, <1>5, <1>6, Renewed
<1>8. ClaimInv'
  BY NoteSteps, QuietKeeps DEF HostInv
<1>9. AbortersKnown'
  <2>1. p \in Procs /\ t \in Slots
    BY <1>2, ThreadShape DEF Seated
  <2>2. DOMAIN aborters' = Procs /\ \A o \in Procs : DOMAIN aborters'[o] = Runs
    BY <1>1, <2>1 DEF HostInv, AbortersKnown
  <2>3. \A o \in Procs, c \in Runs : aborters'[o][c] = IF o = p /\ c = r THEN t ELSE aborters[o][c]
    BY <1>1, <1>2, <2>1 DEF HostInv, AbortersKnown
  <2>4. ASSUME NEW o \in Procs, NEW c \in Runs, aborters'[o][c] \in Slots
        PROVE  LET x == th'[aborters'[o][c]] IN x.kind = "exec" /\ x.proc = o /\ x.run = c
    <3>1. CASE o = p /\ c = r
      BY <1>2, <1>4, <2>3, <3>1
    <3>2. CASE ~(o = p /\ c = r)
      <4>1. aborters[o][c] \in Slots /\ aborters'[o][c] = aborters[o][c]
        BY <2>3, <2>4, <3>2
      <4>2. th[aborters[o][c]].kind = "exec" /\ th[aborters[o][c]].proc = o /\ th[aborters[o][c]].run = c
        BY <4>1 DEF HostInv, AbortersKnown
      <4> QED BY <1>4, <4>1, <4>2
    <3> QED BY <3>1, <3>2
  <2> QED BY <2>2, <2>4 DEF AbortersKnown
<1> QED BY <1>5, <1>7, <1>8, <1>9 DEF HostInv, Plain

LEMMA OutcomeStep ==
  ASSUME HostInv, NEW t \in Slots, Outcome(t)
  PROVE  Plain
<1> DEFINE r == th[t].run
           n == th[t].at
           o == First(t).outcome
<1>1. At(t, "out") /\ UNCHANGED <<log, aborters, asked, lock>>
  BY DEF Outcome, History
<1>2. th[t].kind = "exec" /\ r \in Made /\ r \in Runs
  BY <1>1, AtOwn DEF Own
<1>3. Quiet
  BY NoteSteps DEF HostInv
<1>4. First(t).op = "out" /\ Fine(First(t), th[t], th[t].child, Made, asked)
  BY <1>1, AtFacts
<1>5. asked = {} /\ o = "cancelled" => th[t].late
  BY <1>4 DEF Fine
<1>6. ASSUME UNCHANGED runs, NEW more, Then(t, more), Onward(r, more) PROVE Plain
  BY <1>1, <1>3, <1>6, GoesOnward DEF Own
<1>7. ASSUME UNCHANGED runs, Then(t, Cancels(r)), o = "cancelled", ~th[t].late PROVE Plain
  <2>1. Clean(Cancels(r), th[t], th[t].child, Made, asked)
    BY <1>2, <1>5, <1>7, Stopping
  <2>2. Clean(Cancels(r), th[t], th[t].child, Made, asked')
    BY <1>1, <2>1
  <2> QED BY <1>1, <1>3, <1>7, <2>2, GoesOn
<1>8. ASSUME NEW at, th' = [th EXCEPT ![t].at = at, ![t].todo = <<Do("next")>>], runs' = [runs EXCEPT ![r].next = at]
      PROVE  Plain
  <2> DEFINE q == <<Do("next")>>
             row == [runs[r] EXCEPT !.next = at]
  <2>1. Clean(q, th[t], th[t].child, Made, asked)
    BY <1>2, OnwardFew DEF Onward, Own
  <2> HIDE DEF q
  <2>2. th' = [th EXCEPT ![t].at = at, ![t].todo = q]
    BY <1>8 DEF q
  <2>3. /\ \A s \in Slots : s # t => th'[s] = th[s]
        /\ th'[t].kind = th[t].kind /\ th'[t].run = th[t].run /\ th'[t].late = th[t].late /\ th'[t].aborted = th[t].aborted
        /\ th'[t].todo = q /\ th'[t].child = th[t].child
    BY <2>2, ThreadShape
  <2>4. runs' = [runs EXCEPT ![r] = row] /\ DOMAIN row = RowFields /\ row.status = runs[r].status
    BY <1>2, <1>8 DEF HostInv, RowsTyped, RowFields
  <2>5. row.status # "none" /\ (asked = {} => row.status \notin Stopped)
    BY <1>2, <2>4 DEF HostInv, Calm, Made, Created
  <2> HIDE DEF row
  <2>6. RowsTyped' /\ Calm' /\ Made \subseteq Made'
    BY <1>1, <1>2, <2>4, <2>5, RowWritten
  <2>7. Clean(th'[t].todo, th[t], th'[t].child, Made', asked')
    BY <1>1, <2>1, <2>3, <2>6, CleanGrows
  <2>8. ThreadsFine' /\ Following
    BY <1>1, <2>3, <2>6, <2>7, Renewed
  <2> QED BY <1>1, <1>3, <2>6, <2>8, SameAborters DEF HostInv, Plain
<1>9. ASSUME Then(t, <<>>), NEW status \in Waiting, runs' = [runs EXCEPT ![r].status = status, ![r].next = n]
      PROVE  Plain
  <2> DEFINE row == [[runs[r] EXCEPT !.status = status] EXCEPT !.next = n]
  <2>1. runs' = [runs EXCEPT ![r] = row] /\ DOMAIN row = RowFields /\ row.status = status
    BY <1>2, <1>9 DEF HostInv, RowsTyped, RowFields
  <2>2. row.status # "none" /\ row.status \notin Stopped
    BY <2>1 DEF Waiting, Stopped
  <2> HIDE DEF row
  <2>3. RowsTyped' /\ Calm' /\ Made \subseteq Made'
    BY <1>1, <1>2, <2>1, <2>2, RowWritten
  <2>4. Clean(<<>>, th[t], th[t].child, Made', asked')
    BY CleanFew
  <2>5. ThreadsFine' /\ Following
    BY <1>1, <1>9, <2>3, <2>4, Continues
  <2> QED BY <1>1, <1>3, <2>3, <2>5, SameAborters DEF HostInv, Plain
<1>10. WaitingFor(Kind(r, n)) \in Waiting
  BY DEF WaitingFor, Waiting
<1>11. CASE th[t].late
  BY <1>6, <1>11, OnwardNode DEF Outcome, Breached
<1>12. CASE ~th[t].late
  <2>1. CASE o = "completed"
    BY <1>8, <1>12, <2>1 DEF Outcome, Breached
  <2>2. CASE o = "loopback"
    BY <1>8, <1>12, <2>2 DEF Outcome, Breached
  <2>3. CASE o = "suspended"
    BY <1>9, <1>10, <1>12, <2>3 DEF Outcome, Breached
  <2>4. CASE o = "failed"
    BY <1>6, <1>12, <2>4, OnwardNode DEF Outcome, Breached
  <2>5. CASE o = "cancelled"
    BY <1>7, <1>12, <2>5 DEF Outcome, Breached
  <2>6. CASE o \notin {"completed", "loopback", "suspended", "failed", "cancelled"}
    BY <1>6, <1>12, <2>6, OnwardFew DEF Outcome, Breached
  <2> QED BY <2>1, <2>2, <2>3, <2>4, <2>5, <2>6
<1> QED BY <1>11, <1>12

LEMMA HostClaims ==
  ASSUME HostInv, NEW t \in Slots, TryClaim(t)
  PROVE  HostInv'
<1> DEFINE new == [th[t] EXCEPT !.kind = "exec", !.todo = <<Do("load")>>]
<1>1. th[t].kind = "claim" /\ UNCHANGED <<runs, log, aborters, asked>> /\ (Becomes(t, new) \/ Becomes(t, Idle))
  BY DEF TryClaim, Database
<1>2. ThreadFine(th[t], Made, asked)
  BY DEF HostInv, ThreadsFine
<1>3. th[t].run \in Made /\ (asked = {} /\ th[t].aborted => th[t].late)
  BY <1>1, <1>2 DEF ThreadFine
<1>4. /\ new.kind = "exec" /\ new.run = th[t].run /\ new.late = th[t].late /\ new.aborted = th[t].aborted
      /\ new.todo = <<Do("load")>>
  BY ThreadShape
<1> HIDE DEF new
<1>5. Clean(<<Do("load")>>, new, new.child, Made, asked)
  BY <1>3, <1>4, OnwardFew DEF Onward, Own
<1>6. ThreadFine(new, Made, asked)
  BY <1>3, <1>4, <1>5 DEF ThreadFine
<1>7. RowsTyped' /\ Calm' /\ Made' = Made
  BY <1>1 DEF HostInv, RowsTyped, Calm, Made, Created, Logged
<1>8. ThreadsFine'
  BY <1>1, <1>6, <1>7, IdleFine, OneThread
<1>9. \A s \in Slots : s # t => th'[s] = th[s]
  BY <1>1, ThreadShape DEF Becomes
<1>10. AbortersKnown'
  BY <1>1, <1>9 DEF HostInv, AbortersKnown
<1> QED BY <1>7, <1>8, <1>10, ClaimStep DEF HostInv

LEMMA HostLeaves ==
  ASSUME HostInv, NEW t \in Slots, Leave(t)
  PROVE  Plain
<1> DEFINE r == th[t].run
           p == th[t].proc
<1>1. th[t].kind = "exec" /\ Becomes(t, Idle) /\ UNCHANGED <<runs, log, asked>> /\ aborters' = [aborters EXCEPT ![p][r] = 0]
  BY DEF Leave, Executing, Database, History
<1>2. RowsTyped' /\ Calm' /\ Made' = Made
  BY <1>1 DEF HostInv, RowsTyped, Calm, Made, Created, Logged
<1>3. ThreadsFine' /\ Following
  BY <1>1, <1>2, IdleFine, IdleFollows, OneThread
<1>4. p \in Procs /\ r \in Runs /\ 0 \notin Slots
  BY <1>1, ThreadShape DEF Seated, Slots
<1>5. DOMAIN aborters' = Procs /\ \A o \in Procs : DOMAIN aborters'[o] = Runs
  BY <1>1, <1>4 DEF HostInv, AbortersKnown
<1>6. \A o \in Procs, c \in Runs : aborters'[o][c] = IF o = p /\ c = r THEN 0 ELSE aborters[o][c]
  BY <1>1, <1>4 DEF HostInv, AbortersKnown
<1>7. \A s \in Slots : s # t => th'[s] = th[s]
  BY <1>1, ThreadShape DEF Becomes
<1>8. ASSUME NEW o \in Procs, NEW c \in Runs, aborters'[o][c] \in Slots
      PROVE  LET x == th'[aborters'[o][c]] IN x.kind = "exec" /\ x.proc = o /\ x.run = c
  <2>1. ~(o = p /\ c = r) /\ aborters'[o][c] = aborters[o][c] /\ aborters[o][c] \in Slots
    BY <1>4, <1>6, <1>8
  <2>2. th[aborters[o][c]].kind = "exec" /\ th[aborters[o][c]].proc = o /\ th[aborters[o][c]].run = c
    BY <2>1 DEF HostInv, AbortersKnown
  <2>3. aborters[o][c] # t
    BY <2>1, <2>2
  <2> QED BY <1>7, <2>1, <2>2, <2>3
<1>9. AbortersKnown'
  BY <1>5, <1>8 DEF AbortersKnown
<1> QED BY <1>2, <1>3, <1>9, LeaveStep DEF HostInv, Plain

LEMMA DeadlineStep ==
  ASSUME HostInv, NEW t \in Slots, Deadline(t)
  PROVE  Plain
<1> DEFINE y == [[th[t] EXCEPT !.late = TRUE] EXCEPT !.aborted = TRUE]
<1>1. th[t].kind = "exec" /\ UNCHANGED <<runs, log, aborters, asked>> /\ Becomes(t, y)
  BY ThreadShape DEF Deadline, Executing, Database, History, Becomes
<1>2. ThreadFine(th[t], Made, asked)
  BY DEF HostInv, ThreadsFine
<1>3. /\ y.kind = th[t].kind /\ y.run = th[t].run /\ y.late = TRUE /\ y.todo = th[t].todo /\ y.child = th[t].child
      /\ y.at = th[t].at /\ y.worker = th[t].worker
  BY ThreadShape
<1> HIDE DEF y
<1>4. \A q, k, M : Clean(q, th[t], k, M, asked) => Clean(q, y, k, M, asked)
  BY <1>3, CleanGrows
<1>5. Inserts(th[t]) => Inserts(y)
  BY <1>3 DEF Inserts
<1>6. ThreadFine(y, Made, asked)
  <2>1. \/ Clean(y.todo, y, y.child, Made, asked)
        \/ Inserts(y) /\ \A k \in Kids : Clean(Tail(y.todo), y, k, Made \cup {k}, asked)
    BY <1>2, <1>3, <1>4, <1>5 DEF ThreadFine
  <2> QED BY <1>1, <1>2, <1>3, <2>1 DEF ThreadFine
<1>7. Quiet
  BY NoteSteps DEF HostInv
<1>8. ClaimInv' /\ RowsTyped' /\ Calm' /\ AbortersKnown' /\ Made' = Made
  BY <1>1, <1>7, Undisturbed
<1>9. Follows(th[t], y)
  BY <1>1, <1>3 DEF Follows, Inserts
<1>10. ThreadsFine' /\ Following
  BY <1>1, <1>6, <1>8, <1>9, OneThread
<1> QED BY <1>8, <1>10 DEF HostInv, Plain

(* A thread that is aborted though nobody was stopped is past its deadline.*)
LEMMA AbortedIsLate ==
  ASSUME HostInv, NEW t \in Slots, asked = {}, th[t].aborted
  PROVE  th[t].late
BY DEF HostInv, ThreadsFine, ThreadFine

LEMMA SleepStep ==
  ASSUME HostInv, NEW t \in Slots, Sleep(t)
  PROVE  Plain
<1> DEFINE r == th[t].run
           n == th[t].at
<1>1. At(t, "sleep") /\ UNCHANGED <<runs, log, aborters, asked>>
  BY DEF Sleep, Database, History
<1>2. th[t].kind = "exec" /\ r \in Made
  BY <1>1, AtOwn DEF Own
<1>3. Quiet
  BY StatementSteps DEF HostInv
<1>4. CASE Then(t, Completed(r, n))
  BY <1>1, <1>3, <1>4, OnwardNode, GoesOnward DEF Own
<1>5. CASE Then(t, Abandoned(r, n)) /\ th[t].aborted
  <2>1. Clean(Abandoned(r, n), th[t], th[t].child, Made, asked)
    BY <1>2, <1>5, AbortedIsLate, Stopping
  <2>2. Clean(Abandoned(r, n), th[t], th[t].child, Made, asked')
    BY <1>1, <2>1
  <2> QED BY <1>1, <1>3, <1>5, <2>2, GoesOn
<1> QED BY <1>4, <1>5 DEF Sleep

LEMMA RequestStep ==
  ASSUME HostInv, NEW t \in Slots, Request(t)
  PROVE  Plain
<1> DEFINE r == th[t].run
           n == th[t].at
           returned == <<Ev(r, "agent.toolReturned", n)>>
           invoked == <<Ev(r, "mcp.invoked", n)>>
<1>1. UNCHANGED <<runs, log, aborters, asked>>
  BY DEF Request, Database, History
<1>2. PICK op \in {"tool", "http"} : At(t, op)
  BY DEF Request
<1>3. op \in Own /\ op # "insert"
  BY DEF Own
<1>4. th[t].kind = "exec" /\ r \in Made
  BY <1>2, <1>3, AtOwn
<1>5. Quiet
  BY StatementSteps DEF HostInv
<1>6. ASSUME NEW more, Then(t, more), Onward(r, more) PROVE Plain
  BY <1>1, <1>2, <1>3, <1>5, <1>6, GoesOnward
<1>7. CASE Then(t, Abandoned(r, n)) /\ th[t].aborted
  <2>1. Clean(Abandoned(r, n), th[t], th[t].child, Made, asked)
    BY <1>4, <1>7, AbortedIsLate, Stopping
  <2>2. Clean(Abandoned(r, n), th[t], th[t].child, Made, asked')
    BY <1>1, <2>1
  <2> QED BY <1>1, <1>2, <1>3, <1>5, <1>7, <2>2, GoesOn
<1>8. Onward(r, returned) /\ Onward(r, invoked) /\ Onward(r, <<Out("paused")>>) /\ Onward(r, Completed(r, n)) /\ Onward(r, Failed(r, n))
  BY OnwardFew, OnwardNode
<1> HIDE DEF returned, invoked
<1>9. Onward(r, invoked \o returned \o Completed(r, n)) /\ Onward(r, returned \o Failed(r, n))
  BY <1>8, OnwardBoth
<1> QED BY <1>6, <1>7, <1>8, <1>9 DEF Request, returned, invoked

(* An executor that notes something and has a fine program to do instead.  *)
LEMMA Rewritten ==
  ASSUME HostInv, Quiet, NEW t \in Slots, NEW op, At(t, op), op # "insert", \A s \in Slots : s # t => th'[s] = th[s],
         th'[t].kind = th[t].kind, th'[t].run = th[t].run, th'[t].late = th[t].late, th'[t].aborted = th[t].aborted,
         UNCHANGED <<runs, log, aborters>>, asked \subseteq asked', Clean(th'[t].todo, th[t], th'[t].child, Made, asked')
  PROVE  Plain
<1>1. ClaimInv' /\ RowsTyped' /\ Calm' /\ AbortersKnown' /\ Made' = Made
  BY Undisturbed
<1>2. Clean(th'[t].todo, th[t], th'[t].child, Made', asked')
  BY <1>1
<1>3. ThreadsFine' /\ Following
  BY <1>1, <1>2, Renewed
<1> QED BY <1>1, <1>3 DEF HostInv, Plain

LEMMA MintStep ==
  ASSUME HostInv, NEW t \in Slots, CreateInterrupt(t)
  PROVE  Plain
<1> DEFINE r == th[t].run
           q == IF Breached(t) THEN FailRunDuration(r) ELSE Fails(r)
<1>1. At(t, "mint") /\ UNCHANGED <<runs, log, aborters, asked, lock>>
  BY DEF CreateInterrupt, History
<1>2. th[t].kind = "exec" /\ r \in Made
  BY <1>1, AtOwn DEF Own
<1>3. Quiet
  BY NoteSteps DEF HostInv
<1>4. CASE Then(t, <<>>)
  BY <1>1, <1>3, <1>4, OnwardFew, GoesOnward DEF Own
<1>5. CASE th' = [th EXCEPT ![t].todo = q]
  <2>1. Onward(r, q)
    BY OnwardNode
  <2> HIDE DEF q
  <2>2. /\ \A s \in Slots : s # t => th'[s] = th[s]
        /\ th'[t].kind = th[t].kind /\ th'[t].run = th[t].run /\ th'[t].late = th[t].late /\ th'[t].aborted = th[t].aborted
        /\ th'[t].todo = q /\ th'[t].child = th[t].child
    BY <1>5, ThreadShape
  <2>3. Clean(th'[t].todo, th[t], th'[t].child, Made, asked')
    BY <1>1, <1>2, <2>1, <2>2 DEF Onward
  <2> QED BY <1>1, <1>3, <2>2, <2>3, Rewritten
<1> QED BY <1>4, <1>5 DEF CreateInterrupt

-----------------------------------------------------------------------------
(* Nodes with children                                                     *)

LEMMA OtherChild ==
  ASSUME NEW q, NEW x, NEW j, NEW k \in Kids, NEW M, NEW A, Clean(q, x, j, M, A)
  PROVE  Clean(q, x, k, M \cup {k}, A)
<1>1. \A s : Fine(s, x, j, M, A) => Fine(s, x, k, M \cup {k}, A)
  BY DEF Fine
<1> QED BY <1>1 DEF Clean

LEMMA FindStep ==
  ASSUME HostInv, NEW t \in Slots, FindChild(t)
  PROVE  HostInv'
<1> DEFINE there == Existing(th[t].run, th[t].at, th[t].worker)
           c == CHOOSE x \in there : TRUE
           q == <<Do("watch")>>
           more == <<Do("insert"), Do("spawn"), Do("watch")>>
<1>1. At(t, "find") /\ UNCHANGED <<runs, log, aborters, asked, lock>>
  BY DEF FindChild, Database, History
<1>2. th[t].kind = "exec" /\ th[t].run \in Made
  BY <1>1, AtOwn DEF Own
<1>3. Quiet
  BY NoteSteps DEF HostInv
<1>4. CASE there # {}
  <2>1. c \in Kids \cap Made
    BY <1>4 DEF Existing, Made, Created, Runs
  <2>2. th' = [th EXCEPT ![t].child = c, ![t].todo = q]
    BY <1>4 DEF FindChild
  <2> HIDE DEF c
  <2>3. Clean(q, th[t], c, Made, asked)
    BY <1>2, <2>1, FineStatements, CleanFew
  <2> HIDE DEF q
  <2>4. /\ \A s \in Slots : s # t => th'[s] = th[s]
        /\ th'[t].kind = th[t].kind /\ th'[t].run = th[t].run /\ th'[t].late = th[t].late /\ th'[t].aborted = th[t].aborted
        /\ th'[t].todo = q /\ th'[t].child = c
    BY <2>2, ThreadShape
  <2>5. Clean(th'[t].todo, th[t], th'[t].child, Made, asked')
    BY <1>1, <2>3, <2>4
  <2> QED BY <1>1, <1>3, <2>4, <2>5, Rewritten DEF Plain
<1>5. CASE there = {}
  <2> DEFINE rest == <<Do("spawn"), Do("watch")>>
             y == [th[t] EXCEPT !.todo = more \o Rest(t)]
  <2>1. Becomes(t, y)
    BY <1>2, <1>5 DEF FindChild, Then
  <2>2. PICK T : Rest(t) \in Seq(T)
    BY <1>1, AtFacts DEF Clean
  <2>3. more \o Rest(t) # <<>> /\ Head(more \o Rest(t)) = Do("insert") /\ Tail(more \o Rest(t)) = rest \o Rest(t)
    <3> DEFINE S == T \cup {Do("insert"), Do("spawn"), Do("watch")}
    <3>1. Rest(t) \in Seq(S)
      BY <2>2
    <3>2. more \in Seq(S) /\ rest \in Seq(S)
      OBVIOUS
    <3> HIDE DEF S
    <3>3. /\ Len(more \o Rest(t)) = 3 + Len(Rest(t)) /\ Len(rest \o Rest(t)) = 2 + Len(Rest(t)) /\ Len(Rest(t)) \in Nat
          /\ more \o Rest(t) \in Seq(S) /\ rest \o Rest(t) \in Seq(S) /\ (more \o Rest(t))[1] = Do("insert")
      BY <3>1, <3>2
    <3>4. more \o Rest(t) # <<>> /\ Head(more \o Rest(t)) = Do("insert")
      BY <3>3
    <3>5. Tail(more \o Rest(t)) \in Seq(S) /\ Len(Tail(more \o Rest(t))) = 2 + Len(Rest(t))
      BY <3>3, <3>4
    <3>6. ASSUME NEW i \in 1..(2 + Len(Rest(t))) PROVE Tail(more \o Rest(t))[i] = (rest \o Rest(t))[i]
      BY <3>1, <3>2, <3>3, <3>4, <3>5
    <3> QED BY <3>3, <3>4, <3>5, <3>6
  <2>4. /\ y.kind = "exec" /\ y.run = th[t].run /\ y.late = th[t].late /\ y.aborted = th[t].aborted
        /\ y.todo = more \o Rest(t)
    BY <1>2, ThreadShape
  <2> HIDE DEF y, more
  <2>5. Inserts(y)
    BY <2>3, <2>4 DEF Inserts
  <2>6. ASSUME NEW k \in Kids PROVE Clean(Tail(y.todo), y, k, Made \cup {k}, asked)
    <3>1. Clean(Rest(t), th[t], th[t].child, Made, asked)
      BY <1>1, AtFacts
    <3>2. Clean(Rest(t), th[t], k, Made \cup {k}, asked)
      BY <3>1, OtherChild
    <3>3. Fine(Do("spawn"), th[t], k, Made \cup {k}, asked) /\ Fine(Do("watch"), th[t], k, Made \cup {k}, asked)
      BY <1>2, FineStatements
    <3>4. Clean(rest, th[t], k, Made \cup {k}, asked)
      BY <3>3, CleanFew
    <3> HIDE DEF rest
    <3>5. Clean(rest \o Rest(t), th[t], k, Made \cup {k}, asked)
      BY <3>2, <3>4, CleanBoth
    <3>6. Clean(rest \o Rest(t), y, k, Made \cup {k}, asked)
      BY <1>2, <2>4, <3>5, CleanGrows
    <3> QED BY <2>3, <2>4, <3>6
  <2>7. ThreadFine(th[t], Made, asked)
    BY DEF HostInv, ThreadsFine
  <2>8. ThreadFine(y, Made, asked)
    BY <1>2, <2>4, <2>5, <2>6, <2>7 DEF ThreadFine
  <2>9. ClaimInv' /\ RowsTyped' /\ Calm' /\ AbortersKnown' /\ Made' = Made
    BY <1>1, <1>3, Undisturbed
  <2>10. ThreadsFine'
    BY <1>1, <2>1, <2>8, <2>9, OneThread
  <2> QED BY <2>9, <2>10 DEF HostInv
<1> QED BY <1>4, <1>5

(* A thread about to insert executes its run and has not done so yet.      *)
LEMMA AtInsert ==
  ASSUME HostInv, NEW t \in Slots, At(t, "insert")
  PROVE  /\ th[t].kind = "exec" /\ th[t].run \in Made /\ th[t].todo # <<>> /\ Inserts(th[t])
         /\ \A k \in Kids : Clean(Rest(t), th[t], k, Made \cup {k}, asked)
<1>1. th[t].kind # "free" /\ th[t].todo # <<>> /\ Head(th[t].todo).op = "insert"
  BY DEF At
<1>2. ThreadFine(th[t], Made, asked)
  BY DEF HostInv, ThreadsFine
<1>3. ~Clean(th[t].todo, th[t], th[t].child, Made, asked)
  <2> SUFFICES ASSUME Clean(th[t].todo, th[t], th[t].child, Made, asked) PROVE FALSE
    OBVIOUS
  <2>1. Fine(Head(th[t].todo), th[t], th[t].child, Made, asked)
    BY <1>1, CleanParts
  <2> QED BY <1>1, <2>1 DEF Fine
<1> QED BY <1>1, <1>2, <1>3 DEF ThreadFine, Inserts, Rest

LEMMA InsertStep ==
  ASSUME HostInv, NEW t \in Slots, InsertChild(t)
  PROVE  Plain
<1> DEFINE c == CHOOSE x \in FreshKids : TRUE
           row == [status |-> "pending", next |-> 1, flow |-> ChildFlow,
                   parent |-> [run |-> th[t].run, node |-> th[t].at, worker |-> th[t].worker]]
<1>1. /\ At(t, "insert") /\ UNCHANGED <<log, aborters, asked>> /\ runs' = [runs EXCEPT ![c] = row]
      /\ th' = [th EXCEPT ![t].child = c, ![t].todo = Rest(t)]
  BY DEF InsertChild, History
<1>2. c \in Kids /\ c \in Runs
  BY DEF InsertChild, FreshKids, Runs
<1>3. /\ th[t].kind = "exec" /\ th[t].run \in Made
      /\ \A k \in Kids : Clean(Rest(t), th[t], k, Made \cup {k}, asked)
  BY <1>1, AtInsert
<1>4. DOMAIN row = RowFields /\ row.status # "none" /\ row.status \notin Stopped
  BY DEF RowFields, Stopped
<1> HIDE DEF c, row
<1>5. RowsTyped' /\ Calm' /\ Made \subseteq Made' /\ c \in Made'
  BY <1>1, <1>2, <1>4, RowWritten
<1> DEFINE y == th'[t]
<1>6. /\ \A s \in Slots : s # t => th'[s] = th[s]
      /\ y.kind = th[t].kind /\ y.run = th[t].run /\ y.late = th[t].late /\ y.aborted = th[t].aborted
      /\ y.todo = Rest(t) /\ y.child = c
  BY <1>1, ThreadShape
<1> HIDE DEF y
<1>7. Clean(Rest(t), th[t], c, Made \cup {c}, asked)
  BY <1>2, <1>3
<1>8. Clean(y.todo, y, y.child, Made', asked')
  BY <1>1, <1>5, <1>6, <1>7, CleanGrows
<1>9. ThreadFine(th[t], Made, asked)
  BY DEF HostInv, ThreadsFine
<1>10. ThreadFine(y, Made', asked')
  BY <1>1, <1>3, <1>5, <1>6, <1>8, <1>9 DEF ThreadFine
<1>11. Becomes(t, y)
  <2>1. th' = [th EXCEPT ![t] = [[th[t] EXCEPT !.child = c] EXCEPT !.todo = Rest(t)]]
    BY <1>1, ThreadShape
  <2> QED BY <2>1, ThreadShape DEF Becomes, y
<1>12. Follows(th[t], y)
  <2>1. th[t].todo # <<>> /\ ~Inserts(y)
    BY <1>1, <1>8, AtInsert, NoInsert
  <2> QED BY <1>3, <1>6, <2>1 DEF Follows
<1>14. ThreadsFine' /\ Following
  BY <1>1, <1>5, <1>10, <1>11, <1>12, OneThread
<1>13. Quiet
  BY NoteSteps DEF HostInv
<1> QED BY <1>1, <1>5, <1>13, <1>14, SameAborters DEF HostInv, Plain

LEMMA HostSpawns ==
  ASSUME HostInv, NEW t \in Slots, Spawn(t)
  PROVE  Plain
<1> DEFINE k == th[t].child
           new == Executor(th[t].proc, k)
           y == [th[t] EXCEPT !.todo = Rest(t)]
<1>1. /\ At(t, "spawn") /\ UNCHANGED <<runs, aborters, asked>>
      /\ log' = [log EXCEPT ![th[t].run] = With(@, "node.dispatched", th[t].at)]
      /\ th' = [th EXCEPT ![t].todo = Rest(t), ![NewSlot] = new]
      /\ NewSlot \in Slots /\ th[NewSlot].kind = "free"
  BY NewSlotIsFree DEF Spawn, History, Child, FreeSlots
<1>2. th[t].kind = "exec" /\ k \in Kids \cap Made /\ Clean(Rest(t), th[t], k, Made, asked)
  BY <1>1, AtOwn, AtFacts DEF Own
<1>3. /\ y.kind = "exec" /\ y.run = th[t].run /\ y.late = th[t].late /\ y.aborted = th[t].aborted
      /\ y.todo = Rest(t) /\ y.child = k
  BY <1>2, ThreadShape
<1>4. /\ new.kind = "claim" /\ new.run = k /\ new.todo = <<>> /\ new.aborted = FALSE
  BY DEF Executor, Idle
<1>5. \A s \in Slots : th'[s] = IF s = NewSlot THEN new ELSE IF s = t THEN y ELSE th[s]
  BY <1>1, ThreadShape
<1> HIDE DEF new, y
<1>6. RowsTyped' /\ Calm' /\ Made' = Made
  BY <1>1, EventWritten
<1>7. ThreadFine(new, Made, asked)
  <2>1. Clean(<<>>, new, new.child, Made, asked)
    BY CleanFew
  <2> QED BY <1>2, <1>4, <2>1 DEF ThreadFine
<1>8. ThreadFine(y, Made, asked)
  <2>1. ThreadFine(th[t], Made, asked)
    BY DEF HostInv, ThreadsFine
  <2>2. Clean(y.todo, y, y.child, Made, asked)
    BY <1>2, <1>3, CleanGrows
  <2> QED BY <1>2, <1>3, <2>1, <2>2 DEF ThreadFine
<1>9. ThreadsFine'
  <2>1. \A s \in Slots : ThreadFine(th'[s], Made, asked)
    BY <1>5, <1>7, <1>8 DEF HostInv, ThreadsFine
  <2> QED BY <1>1, <1>6, <2>1 DEF ThreadsFine
<1>11. Following
  <2>1. th[t].todo # <<>>
    BY <1>1, AtFacts
  <2>4. Clean(y.todo, y, y.child, Made, asked)
    BY <1>2, <1>3, CleanGrows
  <2>2. Follows(th[t], y)
    BY <1>2, <1>3, <2>1, <2>4, NoInsert DEF Follows
  <2>3. Follows(th[NewSlot], new)
    BY <1>4, IdleFollows
  <2> QED BY <1>5, <2>2, <2>3 DEF Following, Follows
<1>10. Quiet
  BY SpawnStep DEF HostInv
<1> QED BY <1>1, <1>6, <1>9, <1>10, <1>11, SameAborters DEF HostInv, Plain

LEMMA WatchSubStep ==
  ASSUME HostInv, NEW t \in Slots, WatchSub(t)
  PROVE  Plain
<1> DEFINE r == th[t].run
           n == th[t].at
           k == th[t].child
           own == runs[r].status
           child == runs[k].status
           resumes == <<Ev(r, "node.completed", n), Set(r, "running"), Out("completed")>>
<1>1. At(t, "watch") /\ UNCHANGED <<runs, log, aborters, asked>>
  BY DEF WatchSub, Database, History
<1>2. th[t].kind = "exec" /\ r \in Made /\ r \in Runs /\ k \in Kids /\ k \in Made /\ k \in Runs
  BY <1>1, AtOwn DEF Own, Runs
<1>3. Quiet
  BY StatementSteps DEF HostInv
<1>4. ASSUME NEW more, Then(t, more), Clean(more, th[t], k, Made, asked) PROVE Plain
  <2>1. Clean(more, th[t], th[t].child, Made, asked')
    BY <1>1, <1>4
  <2> QED BY <1>1, <1>3, <1>4, <2>1, GoesOn
<1>5. asked # {} => Clean(Abandoned(r, n), th[t], k, Made, asked)
  BY <1>2, Stopping
<1>6. CASE own = "cancelling"
  <2>1. asked # {}
    BY <1>2, <1>6, StoppedIsAsked DEF Stopped
  <2>2. Clean(<<Of("cascade", k)>>, th[t], k, Made, asked)
    BY <1>2, <2>1, FineStatements, CleanFew
  <2>3. Clean(<<Of("cascade", k)>> \o Abandoned(r, n), th[t], k, Made, asked)
    BY <1>5, <2>1, <2>2, CleanBoth
  <2>4. PICK more \in {<<Of("cascade", k)>> \o Abandoned(r, n), Abandoned(r, n)} : Then(t, more)
    BY <1>6 DEF WatchSub, Child
  <2> QED BY <1>4, <1>5, <2>1, <2>3, <2>4
<1>7. CASE own # "cancelling" /\ child = "cancelled"
  <2>1. asked # {}
    BY <1>2, <1>7, StoppedIsAsked DEF Stopped
  <2>2. Then(t, Abandoned(r, n))
    BY <1>7 DEF WatchSub, Child
  <2> QED BY <1>4, <1>5, <2>1, <2>2
<1>8. CASE own # "cancelling" /\ child # "cancelled"
  <2>1. PICK more : Then(t, more)
           /\ \/ more \in {resumes, Failed(r, n)}
              \/ child \in Waiting /\ more = <<Set(r, child), Do("watch")>>
    BY <1>8 DEF WatchSub, Child
  <2>2. Clean(Failed(r, n), th[t], k, Made, asked)
    BY <1>2, OnwardNode DEF Onward
  <2>3. Clean(resumes, th[t], k, Made, asked)
    <3>1. "running" \notin Stopped \cup {"none"}
      BY DEF Stopped
    <3>2. Fine(Ev(r, "node.completed", n), th[t], k, Made, asked) /\ Fine(Set(r, "running"), th[t], k, Made, asked)
          /\ Fine(Out("completed"), th[t], k, Made, asked)
      BY <1>2, <3>1, FineStatements
    <3> QED BY <3>2, CleanFew
  <2>4. child \in Waiting => Clean(<<Set(r, child), Do("watch")>>, th[t], k, Made, asked)
    <3> HAVE child \in Waiting
    <3>1. child \notin Stopped \cup {"none"}
      BY DEF Stopped, Waiting
    <3>2. Fine(Set(r, child), th[t], k, Made, asked) /\ Fine(Do("watch"), th[t], k, Made, asked)
      BY <1>2, <3>1, FineStatements
    <3> QED BY <3>2, CleanFew
  <2> QED BY <1>4, <2>1, <2>2, <2>3, <2>4
<1> QED BY <1>6, <1>7, <1>8

LEMMA DispatchStep ==
  ASSUME HostInv, NEW t \in Slots, DispatchNode(t)
  PROVE  Plain
<1> DEFINE r == th[t].run
           n == th[t].at
<1>1. At(t, "dispatch") /\ UNCHANGED <<runs, log, aborters, asked>>
  BY DEF DispatchNode, Database, History
<1>2. th[t].kind = "exec" /\ r \in Made
  BY <1>1, AtOwn DEF Own
<1>3. Quiet
  BY NoteSteps DEF HostInv
<1>4. PICK q : Onward(r, q) /\ th' = [th EXCEPT ![t].worker = 0, ![t].todo = q]
  BY OnwardNode, OnwardFew DEF DispatchNode, NextWorker, Own
<1>5. /\ \A s \in Slots : s # t => th'[s] = th[s]
      /\ th'[t].kind = th[t].kind /\ th'[t].run = th[t].run /\ th'[t].late = th[t].late /\ th'[t].aborted = th[t].aborted
      /\ th'[t].todo = q /\ th'[t].child = th[t].child
  BY <1>4, ThreadShape
<1>6. Clean(th'[t].todo, th[t], th'[t].child, Made, asked')
  BY <1>2, <1>4, <1>5 DEF Onward
<1> QED BY <1>1, <1>3, <1>5, <1>6, Rewritten

LEMMA WatchWorkerStep ==
  ASSUME HostInv, NEW t \in Slots, WatchWorker(t)
  PROVE  Plain
<1> DEFINE r == th[t].run
           n == th[t].at
           k == th[t].child
<1>1. At(t, "watch") /\ UNCHANGED <<runs, log, aborters, asked>>
  BY DEF WatchWorker, Database, History
<1>2. th[t].kind = "exec" /\ r \in Made /\ r \in Runs /\ k \in Runs
  BY <1>1, AtOwn DEF Own, Runs
<1>3. Quiet
  BY NoteSteps DEF HostInv
<1>4. CASE runs[r].status = "cancelling" /\ Then(t, <<Of("cascade", k)>> \o Abandoned(r, n))
  <2>1. asked # {}
    BY <1>2, <1>4, StoppedIsAsked DEF Stopped
  <2>2. Clean(<<Of("cascade", k)>>, th[t], k, Made, asked)
    BY <1>2, <2>1, FineStatements, CleanFew
  <2>3. Clean(<<Of("cascade", k)>> \o Abandoned(r, n), th[t], k, Made, asked')
    BY <1>1, <1>2, <2>1, <2>2, Stopping, CleanBoth
  <2> QED BY <1>1, <1>3, <1>4, <2>3, GoesOn
<1>5. CASE Then(t, Failed(r, n))
  BY <1>1, <1>3, <1>5, OnwardNode, GoesOnward DEF Own
<1>6. ASSUME NEW worker, NEW q, Onward(r, q), th' = [th EXCEPT ![t].worker = worker, ![t].todo = q] PROVE Plain
  <2>1. /\ \A s \in Slots : s # t => th'[s] = th[s]
        /\ th'[t].kind = th[t].kind /\ th'[t].run = th[t].run /\ th'[t].late = th[t].late /\ th'[t].aborted = th[t].aborted
        /\ th'[t].todo = q /\ th'[t].child = th[t].child
    BY <1>6, ThreadShape
  <2>2. Clean(th'[t].todo, th[t], th'[t].child, Made, asked')
    BY <1>2, <1>6, <2>1 DEF Onward
  <2> QED BY <1>1, <1>3, <2>1, <2>2, Rewritten
<1>7. /\ Onward(r, <<Do("find")>>) /\ Onward(r, <<Ev(r, "node.completed", n)>>)
      /\ Onward(r, <<Out("loopback")>>) /\ Onward(r, Failed(r, n))
  BY OnwardFew, OnwardNode DEF Own
<1>8. Onward(r, <<Set(r, "running"), Out("completed")>>)
  <2>1. "running" \notin Stopped \cup {"none"}
    BY DEF Stopped
  <2> SUFFICES ASSUME NEW x, NEW j, NEW M, NEW A, x.kind = "exec", r \in M
               PROVE  Clean(<<Set(r, "running"), Out("completed")>>, x, j, M, A)
    BY DEF Onward
  <2>2. Fine(Set(r, "running"), x, j, M, A) /\ Fine(Out("completed"), x, j, M, A)
    BY <2>1, FineStatements
  <2> QED BY <2>2, CleanFew
<1>9. /\ Onward(r, <<Ev(r, "node.completed", n)>> \o <<Out("loopback")>>)
      /\ Onward(r, <<Ev(r, "node.completed", n)>> \o <<Set(r, "running"), Out("completed")>>)
  BY <1>7, <1>8, OnwardBoth
<1> QED BY <1>4, <1>5, <1>6, <1>7, <1>9 DEF WatchWorker, NextWorker, Child

-----------------------------------------------------------------------------
(* Cancel                                                                  *)

LEMMA CancelStep ==
  ASSUME HostInv, NEW t \in Slots, Cancel(t)
  PROVE  Plain
<1> DEFINE r == th[t].run
           live == {c \in Kids : runs[c].parent.run = r /\ runs[c].status \notin Terminal \cup {"none"}}
           cascade(order) == [i \in DOMAIN order |-> Of("cascade", order[i])]
           own == IF runs[r].status \in Waiting THEN EndWaiting(r) ELSE Ask(r)
<1>1. At(t, "cancel") /\ UNCHANGED <<runs, log, aborters>>
  BY DEF Cancel, Database
<1>2. r \in Made /\ r \in Runs
  BY <1>1, AtFacts
<1>3. Quiet
  BY StatementSteps DEF HostInv
<1>4. CASE Then(t, <<>>) /\ asked' = asked
  <2>1. Clean(<<>>, th[t], th[t].child, Made, asked')
    BY CleanFew
  <2> QED BY <1>1, <1>3, <1>4, <2>1, GoesOn
<1>5. ASSUME asked' = asked \cup {r}, NEW order \in SetToSeqs(live), Then(t, cascade(order) \o own) PROVE Plain
  <2>1. asked' # {} /\ asked \subseteq asked'
    BY <1>5
  <2>2. Clean(cascade(order), th[t], th[t].child, Made, asked')
    <3> DEFINE T == {Of("cascade", c) : c \in Kids}
               q == cascade(order)
    <3>1. IsFiniteSet(live)
      <4>1. live \in SUBSET (Roots \cup Kids) /\ IsFiniteSet(Roots \cup Kids)
        BY PostgresAssumption
      <4> QED BY <4>1, FS_Subset
    <3>2. Cardinality(live) \in Nat /\ order \in [1..Cardinality(live) -> live]
      BY <1>5, <3>1, FS_CardinalityType DEF SetToSeqs
    <3>3. live \subseteq Kids
      OBVIOUS
    <3> HIDE DEF live
    <3>4. q \in Seq(T)
      BY <3>2, <3>3
    <3>5. \A s \in T : Fine(s, th[t], th[t].child, Made, asked')
      BY <2>1, FineStatements DEF Runs
    <3> HIDE DEF q, T
    <3>6. Clean(q, th[t], th[t].child, Made, asked')
      BY <3>4, <3>5, CleanOver
    <3> QED BY <3>6 DEF q
  <2>3. Clean(own, th[t], th[t].child, Made, asked')
    BY <1>2, <2>1, Stopping
  <2> HIDE DEF cascade, own
  <2>4. Clean(cascade(order) \o own, th[t], th[t].child, Made, asked')
    BY <2>2, <2>3, CleanBoth
  <2> QED BY <1>1, <1>3, <1>5, <2>1, <2>4, GoesOn
<1> QED BY <1>4, <1>5 DEF Cancel

LEMMA CascadeStep ==
  ASSUME HostInv, NEW t \in Slots, CancelInternal(t)
  PROVE  Plain
<1> DEFINE c == First(t).run
<1>1. At(t, "cascade") /\ UNCHANGED <<runs, log, aborters, asked>>
  BY DEF CancelInternal, Database, History
<1>2. asked # {} /\ c \in Runs
  BY <1>1, AtFacts DEF Fine
<1>3. Quiet
  BY StatementSteps DEF HostInv
<1> DEFINE more == IF runs[c].status \in Terminal \cup {"none"} THEN <<>>
                   ELSE IF runs[c].status \in Waiting THEN EndWaiting(c) ELSE Ask(c)
<1>4. Then(t, more)
  BY DEF CancelInternal
<1>5. Clean(more, th[t], th[t].child, Made, asked)
  <2>1. CASE runs[c].status \in Terminal \cup {"none"}
    BY <2>1, CleanFew
  <2>2. CASE runs[c].status \notin Terminal \cup {"none"}
    <3>1. c \in Made
      BY <1>2, <2>2 DEF Made, Created
    <3> QED BY <1>2, <2>2, <3>1, Stopping
  <2> QED BY <2>1, <2>2
<1> HIDE DEF more
<1>6. Clean(more, th[t], th[t].child, Made, asked')
  BY <1>1, <1>5
<1> QED BY <1>1, <1>3, <1>4, <1>6, GoesOn

LEMMA InvalidateStep ==
  ASSUME HostInv, NEW t \in Slots, InvalidateInterrupts(t)
  PROVE  Plain
<1>1. At(t, "invalidate") /\ UNCHANGED <<runs, log, aborters, asked>> /\ Then(t, <<>>)
  BY DEF InvalidateInterrupts, History
<1>2. Quiet
  BY StatementSteps DEF HostInv
<1>3. Clean(<<>>, th[t], th[t].child, Made, asked')
  BY CleanFew
<1> QED BY <1>1, <1>2, <1>3, GoesOn

LEMMA AskStep ==
  ASSUME HostInv, NEW t \in Slots, SetCancelRequested(t)
  PROVE  Plain
<1> DEFINE r == First(t).run
           row == [runs[r] EXCEPT !.status = IF runs[r].status \in Terminal THEN runs[r].status ELSE "cancelling"]
<1>1. At(t, "request") /\ Then(t, <<>>) /\ UNCHANGED <<log, aborters, asked>>
      /\ runs' = [runs EXCEPT ![r].status = IF @ \in Terminal THEN @ ELSE "cancelling"]
  BY DEF SetCancelRequested, History
<1>2. r \in Made /\ r \in Runs /\ asked # {}
  BY <1>1, AtFacts DEF Fine, Made
<1>3. runs' = [runs EXCEPT ![r] = row] /\ DOMAIN row = RowFields /\ row.status \in Terminal \cup {"cancelling"}
  BY <1>1, <1>2 DEF HostInv, RowsTyped, RowFields
<1>4. row.status # "none"
  BY <1>3 DEF Terminal
<1> HIDE DEF r, row
<1>5. RowsTyped' /\ Calm' /\ Made \subseteq Made'
  BY <1>1, <1>2, <1>3, <1>4, RowWritten
<1>6. Quiet
  BY StatementSteps DEF HostInv
<1>7. Clean(<<>>, th[t], th[t].child, Made', asked')
  BY CleanFew
<1>8. ThreadsFine' /\ Following
  BY <1>1, <1>5, <1>7, Continues
<1> QED BY <1>1, <1>5, <1>6, <1>8, SameAborters DEF HostInv, Plain

(* To be woken after somebody asked for it is no breach.                   *)
LEMMA WokenFine ==
  ASSUME HostInv, NEW s \in Slots, th[s].kind # "free", NEW A, asked \subseteq A, A # {}
  PROVE  ThreadFine([th[s] EXCEPT !.aborted = TRUE], Made, A)
<1> DEFINE y == [th[s] EXCEPT !.aborted = TRUE]
<1>1. y.kind = th[s].kind /\ y.run = th[s].run /\ y.todo = th[s].todo /\ y.child = th[s].child
  BY ThreadShape
<1> HIDE DEF y
<1>2. ThreadFine(th[s], Made, asked)
  BY DEF HostInv, ThreadsFine
<1>3. \A q, k, M : Clean(q, th[s], k, M, asked) => Clean(q, y, k, M, A)
  BY <1>1, CleanGrows
<1>4. Inserts(th[s]) => Inserts(y)
  BY <1>1 DEF Inserts
<1>5. \/ Clean(y.todo, y, y.child, Made, A)
      \/ Inserts(y) /\ \A k \in Kids : Clean(Tail(y.todo), y, k, Made \cup {k}, A)
  BY <1>1, <1>2, <1>3, <1>4 DEF ThreadFine
<1>6. ThreadFine(y, Made, A)
  BY <1>1, <1>2, <1>5 DEF ThreadFine
<1> QED BY <1>6 DEF y

LEMMA WokenFollows ==
  ASSUME HostInv, NEW s \in Slots
  PROVE  Follows(th[s], [th[s] EXCEPT !.aborted = TRUE])
BY ThreadShape DEF Follows, Inserts

LEMMA HostAborts ==
  ASSUME HostInv, NEW t \in Slots, Abort(t)
  PROVE  Plain
<1> DEFINE over == th[t].kind = "call" /\ Rest(t) = <<>>
           p == th[t].proc
           r == First(t).run
           woken == aborters[p][r]
           y == [th[t] EXCEPT !.todo = Rest(t)]
<1>1. /\ At(t, "abort") /\ UNCHANGED <<runs, log, aborters, asked>>
      /\ th' = [s \in Slots |-> IF s = t THEN (IF over THEN Idle ELSE y)
                                ELSE IF s = woken THEN [th[s] EXCEPT !.aborted = TRUE] ELSE th[s]]
  BY DEF Abort, Database, History
<1>2. asked # {} /\ r \in Runs /\ th[t].kind # "free" /\ th[t].run \in Made /\ Clean(Rest(t), th[t], th[t].child, Made, asked)
  BY <1>1, AtFacts DEF Fine, Made
<1>3. p \in Procs
  BY <1>2, ThreadShape DEF Seated
<1>4. woken \in Slots => th[woken].kind = "exec"
  BY <1>2, <1>3 DEF HostInv, AbortersKnown
<1> HIDE DEF woken
<1>5. ASSUME NEW s \in Slots PROVE ThreadFine(th'[s], Made, asked) /\ Follows(th[s], th'[s])
  <2>1. ThreadFine(th[s], Made, asked)
    BY DEF HostInv, ThreadsFine
  <2>2. CASE s = t /\ over
    BY <1>1, <2>2, IdleFine, IdleFollows
  <2>3. CASE s = t /\ ~over
    <3>1. th'[s] = y
      BY <1>1, <2>3
    <3>2. y.kind = th[t].kind /\ y.run = th[t].run /\ y.late = th[t].late /\ y.child = th[t].child /\ y.todo = Rest(t)
      BY ThreadShape
    <3> HIDE DEF y
    <3>3. Clean(y.todo, y, y.child, Made, asked)
      BY <1>2, <3>2, CleanGrows
    <3>4. y.kind # "claim"
      BY <1>1, <2>1, <2>3, <3>2 DEF ThreadFine, At
    <3>5. th[t].todo # <<>> /\ Follows(th[t], y)
      BY <1>1, <3>2, <3>3, AtFacts, NoInsert DEF Follows
    <3> QED BY <1>2, <2>3, <3>1, <3>2, <3>3, <3>4, <3>5 DEF ThreadFine
  <2>4. CASE s # t /\ s = woken
    BY <1>1, <1>2, <1>4, <2>4, WokenFine, WokenFollows
  <2>5. CASE s # t /\ s # woken
    BY <1>1, <2>1, <2>5 DEF Follows
  <2> QED BY <2>2, <2>3, <2>4, <2>5
<1>6. Quiet
  BY AbortStep DEF HostInv
<1>7. ClaimInv' /\ RowsTyped' /\ Calm' /\ AbortersKnown' /\ Made' = Made
  BY <1>1, <1>6, Undisturbed
<1>8. ThreadsFine' /\ Following
  BY <1>1, <1>5, <1>7 DEF ThreadsFine, Following
<1> QED BY <1>7, <1>8 DEF HostInv, Plain

-----------------------------------------------------------------------------
(* Answers, pauses                                                         *)

LEMMA ExecutorFine ==
  ASSUME NEW p, NEW M, NEW r \in M, NEW A
  PROVE  ThreadFine(Executor(p, r), M, A)
<1> DEFINE x == Executor(p, r)
<1>1. x.kind = "claim" /\ x.run = r /\ x.todo = <<>> /\ x.aborted = FALSE
  BY DEF Executor, Idle
<1> HIDE DEF x
<1>2. Clean(x.todo, x, x.child, M, A)
  BY <1>1, CleanFew
<1>3. ThreadFine(x, M, A)
  BY <1>1, <1>2 DEF ThreadFine
<1> QED BY <1>3 DEF x

(* A handler's thread that ends, or goes over to executing its run.        *)
LEMMA HandlerOver ==
  ASSUME HostInv, Quiet, NEW t \in Slots, NEW op, At(t, op), op # "insert",
         Becomes(t, Idle) \/ Becomes(t, Executor(th[t].proc, th[t].run)), UNCHANGED <<runs, log, aborters, asked>>
  PROVE  Plain
<1>1. th[t].run \in Made
  BY AtFacts
<1>2. ClaimInv' /\ RowsTyped' /\ Calm' /\ AbortersKnown' /\ Made' = Made
  BY Undisturbed
<1>3. ThreadFine(Executor(th[t].proc, th[t].run), Made', asked') /\ ThreadFine(Idle, Made', asked')
  BY <1>1, <1>2, ExecutorFine, IdleFine
<1>4. ThreadsFine' /\ Following
  BY <1>2, <1>3, IdleFollows, OneThread
<1> QED BY <1>2, <1>4 DEF HostInv, Plain

(* The statements of handlers, which an executor has no use for.           *)
HandlerOps == {"cancel", "resolve", "pause", "resume", "ballot", "tally", "check", "mark", "reload", "advance", "relaunch"}

LEMMA HandlerFew ==
  ASSUME NEW x, NEW k, NEW M, NEW A
  PROVE  /\ \A op \in HandlerOps : Fine(Do(op), x, k, M, A) /\ Clean(<<Do(op)>>, x, k, M, A)
         /\ \A op, op2 \in HandlerOps : Clean(<<Do(op), Do(op2)>>, x, k, M, A)
<1>1. \A op \in HandlerOps : Fine(Do(op), x, k, M, A)
  <2>1. \A op \in HandlerOps : op \notin Own \cup {"set", "append", "request", "abort", "cascade"}
    BY DEF HandlerOps, Own
  <2> QED BY <2>1, FineStatements
<1> QED BY <1>1, CleanFew

LEMMA LookStep ==
  ASSUME HostInv, NEW t \in Slots, Look(t)
  PROVE  Plain
<1>1. At(t, "resolve") /\ UNCHANGED <<runs, log, aborters, asked>>
  BY DEF Look, Handles, Database, History
<1>2. Quiet
  BY HandlerSteps DEF HostInv
<1>3. CASE Becomes(t, Idle)
  BY <1>1, <1>2, <1>3, HandlerOver
<1>4. ASSUME NEW q, NEW row, th' = [th EXCEPT ![t].row = row, ![t].todo = q],
             Clean(q, th[t], th[t].child, Made, asked)
      PROVE  Plain
  <2>1. /\ \A s \in Slots : s # t => th'[s] = th[s]
        /\ th'[t].kind = th[t].kind /\ th'[t].run = th[t].run /\ th'[t].late = th[t].late /\ th'[t].aborted = th[t].aborted
        /\ th'[t].todo = q /\ th'[t].child = th[t].child
    BY <1>4, ThreadShape
  <2>2. Clean(th'[t].todo, th[t], th'[t].child, Made, asked')
    BY <1>1, <1>4, <2>1
  <2> QED BY <1>1, <1>2, <2>1, <2>2, Rewritten
<1>5. Clean(<<Do("ballot"), Do("tally")>>, th[t], th[t].child, Made, asked) /\ Clean(<<Do("check"), Do("mark")>>, th[t], th[t].child, Made, asked)
  BY HandlerFew DEF HandlerOps
<1> QED BY <1>3, <1>4, <1>5 DEF Look, Ends

LEMMA ReadVotesStep ==
  ASSUME HostInv, NEW t \in Slots, ReadVotes(t)
  PROVE  Plain
<1>1. At(t, "ballot") /\ UNCHANGED <<runs, log, aborters, asked>>
  BY DEF ReadVotes, Handles, Database, History
<1>2. Quiet
  BY HandlerSteps DEF HostInv
<1>3. CASE Becomes(t, Idle)
  BY <1>1, <1>2, <1>3, HandlerOver
<1>4. ASSUME NEW votes, th' = [th EXCEPT ![t].votes = votes, ![t].todo = Rest(t)] PROVE Plain
  <2>1. /\ \A s \in Slots : s # t => th'[s] = th[s]
        /\ th'[t].kind = th[t].kind /\ th'[t].run = th[t].run /\ th'[t].late = th[t].late /\ th'[t].aborted = th[t].aborted
        /\ th'[t].todo = Rest(t) /\ th'[t].child = th[t].child
    BY <1>4, ThreadShape
  <2>2. Clean(Rest(t), th[t], th[t].child, Made, asked)
    BY <1>1, AtFacts
  <2>3. Clean(th'[t].todo, th[t], th'[t].child, Made, asked')
    BY <1>1, <2>1, <2>2
  <2> QED BY <1>1, <1>2, <2>1, <2>3, Rewritten
<1> QED BY <1>3, <1>4 DEF ReadVotes, Ends

LEMMA ReloadStep ==
  ASSUME HostInv, NEW t \in Slots, Reload(t)
  PROVE  Plain
<1>1. At(t, "reload") /\ UNCHANGED <<runs, log, aborters, asked>> /\ th' = [th EXCEPT ![t].row = runs[th[t].run].next, ![t].todo = Rest(t)]
  BY DEF Reload, Database, History
<1>2. Quiet
  BY NoteSteps DEF HostInv
<1>3. /\ \A s \in Slots : s # t => th'[s] = th[s]
      /\ th'[t].kind = th[t].kind /\ th'[t].run = th[t].run /\ th'[t].late = th[t].late /\ th'[t].aborted = th[t].aborted
      /\ th'[t].todo = Rest(t) /\ th'[t].child = th[t].child
  BY <1>1, ThreadShape
<1>4. Clean(Rest(t), th[t], th[t].child, Made, asked)
  BY <1>1, AtFacts
<1>5. Clean(th'[t].todo, th[t], th'[t].child, Made, asked')
  BY <1>1, <1>3, <1>4
<1> QED BY <1>1, <1>2, <1>3, <1>5, Rewritten

(* What an answer sets going.                                              *)
LEMMA AnswerFine ==
  ASSUME NEW r, NEW n, NEW x, NEW k, NEW M, r \in M, NEW A
  PROVE  /\ Clean(Resumes(r, n), x, k, M, A)
         /\ Clean(<<Ev(r, "node.completed", n)>> \o Fails(r), x, k, M, A)
         /\ Clean(<<Ev(r, "interrupt.vote", n)>>, x, k, M, A)
<1>1. "failed" # "none" /\ "failed" \notin Stopped
  BY DEF Stopped
<1>2. /\ Fine(Ev(r, "node.resumed", n), x, k, M, A) /\ Fine(Ev(r, "node.completed", n), x, k, M, A)
      /\ Fine(Ev(r, "interrupt.vote", n), x, k, M, A) /\ Fine(Ev(r, "run.failed", 0), x, k, M, A)
      /\ Fine(Set(r, "failed"), x, k, M, A)
  BY <1>1, FineStatements
<1>3. /\ Clean(Resumes(r, n), x, k, M, A) /\ Clean(<<Ev(r, "node.completed", n)>>, x, k, M, A)
      /\ Clean(<<Ev(r, "interrupt.vote", n)>>, x, k, M, A) /\ Clean(Fails(r), x, k, M, A)
  BY <1>2, CleanFew DEF Resumes, Fails
<1> QED BY <1>3, CleanBoth

LEMMA VoteStep ==
  ASSUME HostInv, NEW t \in Slots, ResolveApproval(t)
  PROVE  Plain
<1> DEFINE r == th[t].run
           n == th[t].node
<1>1. At(t, "tally") /\ UNCHANGED <<runs, log, aborters, asked>>
  BY DEF ResolveApproval
<1>2. Quiet
  BY StatementSteps DEF HostInv
<1>3. r \in Made
  BY <1>1, AtFacts
<1>4. Clean(<<Do("advance")>>, th[t], th[t].child, Made, asked)
  BY HandlerFew DEF HandlerOps
<1>5. Clean(Resumes(r, n) \o <<Do("advance")>>, th[t], th[t].child, Made, asked)
  BY <1>3, <1>4, AnswerFine, CleanBoth
<1>6. PICK more : Then(t, more) /\ Clean(more, th[t], th[t].child, Made, asked)
  BY <1>3, <1>5, AnswerFine DEF ResolveApproval
<1>7. Clean(more, th[t], th[t].child, Made, asked')
  BY <1>1, <1>6
<1> QED BY <1>1, <1>2, <1>6, <1>7, GoesOn

LEMMA CheckStep ==
  ASSUME HostInv, NEW t \in Slots, CheckAnswer(t)
  PROVE  Plain
<1>1. At(t, "check") /\ UNCHANGED <<runs, log, aborters, asked>>
  BY DEF CheckAnswer, Handles, History
<1>2. Quiet
  BY HandlerSteps DEF HostInv
<1>3. CASE Becomes(t, Idle)
  BY <1>1, <1>2, <1>3, HandlerOver
<1>4. CASE Then(t, <<>>)
  <2>1. Clean(<<>>, th[t], th[t].child, Made, asked')
    BY CleanFew
  <2> QED BY <1>1, <1>2, <1>4, <2>1, GoesOn
<1> QED BY <1>3, <1>4 DEF CheckAnswer, Ends

LEMMA MarkStep ==
  ASSUME HostInv, NEW t \in Slots, MarkResolved(t)
  PROVE  Plain
<1> DEFINE r == th[t].run
           n == th[t].node
           reload == IF Kind(r, n) = "external" THEN <<Do("reload")>> ELSE <<>>
           more == Resumes(r, n) \o reload \o <<Do("advance")>>
<1>1. At(t, "mark") /\ UNCHANGED <<runs, log, aborters, asked>> /\ Then(t, more)
  BY DEF MarkResolved, History
<1>2. Quiet
  BY StatementSteps DEF HostInv
<1>3. Clean(Resumes(r, n), th[t], th[t].child, Made, asked)
  BY <1>1, AtFacts, AnswerFine
<1>4. Clean(reload, th[t], th[t].child, Made, asked)
  BY HandlerFew, CleanFew DEF HandlerOps
<1>5. Clean(<<Do("advance")>>, th[t], th[t].child, Made, asked)
  BY HandlerFew DEF HandlerOps
<1> HIDE DEF reload
<1>6. Clean(Resumes(r, n) \o reload, th[t], th[t].child, Made, asked)
  BY <1>3, <1>4, CleanBoth
<1>7. Clean(more, th[t], th[t].child, Made, asked)
  BY <1>5, <1>6, CleanBoth
<1> HIDE DEF more
<1>8. Clean(more, th[t], th[t].child, Made, asked')
  BY <1>1, <1>7
<1> QED BY <1>1, <1>2, <1>8, GoesOn

LEMMA AdvanceStep ==
  ASSUME HostInv, NEW t \in Slots, Advance(t)
  PROVE  Plain
<1> DEFINE r == th[t].run
           row == [[runs[r] EXCEPT !.status = "running"] EXCEPT !.next = After(t)]
<1>1. At(t, "advance") /\ UNCHANGED <<log, aborters, asked, lock>>
  BY DEF Advance, Handles, History
<1>2. r \in Made /\ r \in Runs
  BY <1>1, AtFacts
<1>3. Quiet
  BY HandlerSteps DEF HostInv
<1>4. CASE runs[r].status \notin Waiting
  <2>1. Becomes(t, Idle) /\ runs' = runs
    BY <1>4 DEF Advance
  <2> QED BY <1>1, <1>3, <2>1, HandlerOver
<1>5. CASE runs[r].status \in Waiting
  <2>1. Becomes(t, Executor(th[t].proc, r)) /\ runs' = [runs EXCEPT ![r].status = "running", ![r].next = After(t)]
    BY <1>5 DEF Advance
  <2>2. runs' = [runs EXCEPT ![r] = row] /\ DOMAIN row = RowFields /\ row.status = "running"
    BY <1>2, <2>1 DEF HostInv, RowsTyped, RowFields
  <2>3. row.status # "none" /\ row.status \notin Stopped
    BY <2>2 DEF Stopped
  <2> HIDE DEF row
  <2>4. RowsTyped' /\ Calm' /\ Made \subseteq Made' /\ r \in Made'
    BY <1>1, <1>2, <2>2, <2>3, RowWritten
  <2>5. ThreadFine(Executor(th[t].proc, r), Made', asked')
    BY <2>4, ExecutorFine
  <2>6. ThreadsFine' /\ Following
    BY <1>1, <2>1, <2>4, <2>5, IdleFollows, OneThread
  <2> QED BY <1>1, <1>3, <2>4, <2>6, SameAborters DEF HostInv, Plain
<1> QED BY <1>4, <1>5

LEMMA PauseStep ==
  ASSUME HostInv, NEW t \in Slots, Pause(t)
  PROVE  Plain
<1> DEFINE r == th[t].run
           q == <<Set(r, "paused"), Ev(r, "run.paused", 0), Of("abort", r)>>
<1>1. At(t, "pause") /\ UNCHANGED <<runs, log, aborters>>
  BY DEF Pause, Database
<1>2. r \in Made
  BY <1>1, AtFacts
<1>3. Quiet
  BY StatementSteps DEF HostInv
<1>4. CASE Then(t, <<>>) /\ asked' = asked
  <2>1. Clean(<<>>, th[t], th[t].child, Made, asked')
    BY CleanFew
  <2> QED BY <1>1, <1>3, <1>4, <2>1, GoesOn
<1>5. CASE Then(t, q) /\ asked' = asked \cup {r}
  <2>1. asked' # {} /\ asked \subseteq asked'
    BY <1>5
  <2>2. /\ Fine(Set(r, "paused"), th[t], th[t].child, Made, asked') /\ Fine(Ev(r, "run.paused", 0), th[t], th[t].child, Made, asked')
        /\ Fine(Of("abort", r), th[t], th[t].child, Made, asked')
    BY <1>2, <2>1, FineStatements
  <2>3. Clean(q, th[t], th[t].child, Made, asked')
    BY <2>2, CleanFew
  <2> HIDE DEF q
  <2> QED BY <1>1, <1>3, <1>5, <2>1, <2>3, GoesOn
<1> QED BY <1>4, <1>5 DEF Pause

LEMMA ResumeStep ==
  ASSUME HostInv, NEW t \in Slots, Resume(t)
  PROVE  Plain
<1> DEFINE r == th[t].run
           q == <<Set(r, "running"), Do("relaunch")>>
<1>1. At(t, "resume") /\ UNCHANGED <<runs, log, aborters, asked>> /\ (Then(t, q) \/ Then(t, <<>>))
  BY DEF Resume, Database, History
<1>2. r \in Made
  BY <1>1, AtFacts
<1>3. Quiet
  BY StatementSteps DEF HostInv
<1>4. Clean(q, th[t], th[t].child, Made, asked)
  <2>1. "running" \notin Stopped \cup {"none"}
    BY DEF Stopped
  <2>2. Fine(Set(r, "running"), th[t], th[t].child, Made, asked) /\ Fine(Do("relaunch"), th[t], th[t].child, Made, asked)
    BY <1>2, <2>1, FineStatements, HandlerFew DEF HandlerOps
  <2> QED BY <2>2, CleanFew
<1> HIDE DEF q
<1>5. Clean(q, th[t], th[t].child, Made, asked') /\ Clean(<<>>, th[t], th[t].child, Made, asked')
  BY <1>1, <1>4, CleanFew
<1> QED BY <1>1, <1>3, <1>5, GoesOn

LEMMA RelaunchStep ==
  ASSUME HostInv, NEW t \in Slots, Relaunch(t)
  PROVE  Plain
<1>1. At(t, "relaunch") /\ UNCHANGED <<runs, log, aborters, asked>> /\ Becomes(t, Executor(th[t].proc, th[t].run))
  BY DEF Relaunch, Handles, Database, History
<1>2. Quiet
  BY HandlerSteps DEF HostInv
<1> QED BY <1>1, <1>2, HandlerOver

-----------------------------------------------------------------------------
(* Clients and processes                                                   *)

LEMMA CreateStep ==
  ASSUME HostInv, NEW p \in Procs, NEW r \in Roots, NEW flow \in RootFlows, CreateRun(p, r, flow)
  PROVE  Plain
<1> DEFINE row == [[runs[r] EXCEPT !.status = "pending"] EXCEPT !.flow = flow]
<1>1. /\ UNCHANGED <<log, aborters, asked>> /\ Becomes(NewSlot, Executor(p, r)) /\ NewSlot \in Slots /\ r \in Runs
      /\ runs' = [runs EXCEPT ![r].status = "pending", ![r].flow = flow]
  BY NewSlotIsFree DEF CreateRun, History, FreeSlots, Runs
<1>2. runs' = [runs EXCEPT ![r] = row] /\ DOMAIN row = RowFields /\ row.status = "pending"
  BY <1>1 DEF HostInv, RowsTyped, RowFields
<1>3. row.status # "none" /\ row.status \notin Stopped
  BY <1>2 DEF Stopped
<1> HIDE DEF row
<1>4. RowsTyped' /\ Calm' /\ Made \subseteq Made' /\ r \in Made'
  BY <1>1, <1>2, <1>3, RowWritten
<1>5. ThreadFine(Executor(p, r), Made', asked')
  BY <1>4, ExecutorFine
<1>6. ThreadsFine' /\ Following
  BY <1>1, <1>4, <1>5, IdleFollows, OneThread
<1>7. Quiet
  BY RequestSteps DEF HostInv
<1> QED BY <1>1, <1>4, <1>6, <1>7, SameAborters DEF HostInv, Plain

(* A handler that has one statement to do.                                 *)
LEMMA HandlerComes ==
  ASSUME HostInv, Quiet, NEW x, NEW op \in HandlerOps, x.kind = "call", x.run \in Made, x.aborted = FALSE, x.todo = <<Do(op)>>,
         FreeSlots # {}, Becomes(NewSlot, x), UNCHANGED <<runs, log, aborters, asked>>
  PROVE  Plain
<1>1. ClaimInv' /\ RowsTyped' /\ Calm' /\ AbortersKnown' /\ Made' = Made
  BY Undisturbed
<1>2. NewSlot \in Slots
  BY NewSlotIsFree DEF FreeSlots
<1>3. Clean(x.todo, x, x.child, Made, asked)
  BY HandlerFew
<1>4. ThreadFine(x, Made, asked)
  BY <1>3 DEF ThreadFine
<1>5. ThreadsFine' /\ Following
  BY <1>1, <1>2, <1>4, IdleFollows, OneThread
<1> QED BY <1>1, <1>5 DEF HostInv, Plain

LEMMA CallSteps ==
  ASSUME HostInv, NEW p \in Procs, NEW r \in Runs,
         \/ \E op \in {"cancel", "pause", "resume"} : CallRun(p, r, op)
         \/ \E n \in Nodes : \E ballot \in AnswersTo(r, n) : CallResolve(p, r, n, ballot)
  PROVE  Plain
<1>1. Quiet
  BY RequestSteps DEF HostInv
<1>2. ASSUME NEW op, NEW x, Arrives(p, r, op, x)
      PROVE  /\ r \in Made /\ FreeSlots # {} /\ Becomes(NewSlot, x)
             /\ UNCHANGED <<runs, log, aborters, asked>>
  BY <1>2 DEF Arrives, Made, Created, Database, History
<1>3. ASSUME NEW op \in {"cancel", "pause", "resume"}, CallRun(p, r, op) PROVE Plain
  <2> DEFINE x == Handler(p, r, <<Do(op)>>)
  <2>1. x.kind = "call" /\ x.run = r /\ x.aborted = FALSE /\ x.todo = <<Do(op)>> /\ op \in HandlerOps
    BY DEF Handler, Idle, HandlerOps
  <2> HIDE DEF x
  <2>2. Arrives(p, r, op, x)
    BY <1>3 DEF CallRun, x
  <2> QED BY <1>1, <1>2, <2>1, <2>2, HandlerComes
<1>4. ASSUME NEW n \in Nodes, NEW ballot \in AnswersTo(r, n), CallResolve(p, r, n, ballot) PROVE Plain
  <2> DEFINE x == [Handler(p, r, <<Do("resolve")>>) EXCEPT !.node = n, !.ballot = ballot]
  <2>1. x.kind = "call" /\ x.run = r /\ x.aborted = FALSE /\ x.todo = <<Do("resolve")>> /\ "resolve" \in HandlerOps
    BY DEF Handler, Idle, HandlerOps
  <2> HIDE DEF x
  <2>2. Arrives(p, r, "resolve", x)
    BY <1>4 DEF CallResolve, x
  <2> QED BY <1>1, <1>2, <2>1, <2>2, HandlerComes
<1> QED BY <1>3, <1>4

LEMMA HostGone ==
  ASSUME HostInv, NEW p \in Procs, Gone(p), UNCHANGED <<runs, log, asked>>
  PROVE  Plain
<1>1. /\ th' = [t \in Slots |-> IF th[t].proc = p THEN Idle ELSE th[t]]
      /\ aborters' = [aborters EXCEPT ![p] = [r \in Runs |-> 0]]
  BY DEF Gone
<1>2. RowsTyped' /\ Calm' /\ Made' = Made
  BY DEF HostInv, RowsTyped, Calm, Made, Created, Logged
<1>3. ASSUME NEW t \in Slots PROVE ThreadFine(th'[t], Made, asked) /\ Follows(th[t], th'[t])
  <2>1. ThreadFine(th[t], Made, asked)
    BY DEF HostInv, ThreadsFine
  <2>2. th'[t] = Idle \/ th'[t] = th[t]
    BY <1>1
  <2> QED BY <2>1, <2>2, IdleFine, IdleFollows DEF Follows
<1>4. ThreadsFine' /\ Following
  BY <1>2, <1>3 DEF ThreadsFine, Following
<1>5. AbortersKnown'
  <2>1. 0 \notin Slots
    BY DEF Slots
  <2>2. DOMAIN aborters' = Procs /\ \A o \in Procs : DOMAIN aborters'[o] = Runs
    BY <1>1 DEF HostInv, AbortersKnown
  <2>3. ASSUME NEW o \in Procs, NEW c \in Runs, aborters'[o][c] \in Slots
        PROVE  LET x == th'[aborters'[o][c]] IN x.kind = "exec" /\ x.proc = o /\ x.run = c
    <3>1. o # p /\ aborters'[o][c] = aborters[o][c]
      BY <1>1, <2>1, <2>3 DEF HostInv, AbortersKnown
    <3>2. th[aborters[o][c]].kind = "exec" /\ th[aborters[o][c]].proc = o /\ th[aborters[o][c]].run = c
      BY <2>3, <3>1 DEF HostInv, AbortersKnown
    <3> QED BY <1>1, <2>3, <3>1, <3>2
  <2> QED BY <2>2, <2>3 DEF AbortersKnown
<1>6. ClaimInv'
  BY GoneStep DEF HostInv
<1> QED BY <1>2, <1>4, <1>5, <1>6 DEF HostInv, Plain

(* Whoever is woken by a shutdown belongs to the process that shuts down.  *)
LEMMA HostCloses ==
  ASSUME HostInv, NEW p \in Procs, CloseHost(p)
  PROVE  Plain
<1> DEFINE woken == {aborters[p][r] : r \in Runs}
           stopped == {th[t].run : t \in {s \in Slots : th[s].proc = p}}
<1>1. /\ th' = [t \in Slots |-> IF t \in woken THEN [th[t] EXCEPT !.aborted = TRUE] ELSE th[t]]
      /\ aborters' = [aborters EXCEPT ![p] = [r \in Runs |-> 0]]
      /\ asked' = asked \cup stopped /\ UNCHANGED <<runs, log>>
  BY DEF CloseHost, Database
<1>2. RowsTyped' /\ Calm' /\ Made' = Made
  BY <1>1 DEF HostInv, RowsTyped, Calm, Made, Created, Logged
<1>3. ASSUME NEW t \in Slots, t \in woken PROVE th[t].kind = "exec" /\ th[t].proc = p
  BY <1>3 DEF HostInv, AbortersKnown
<1>4. ASSUME NEW t \in Slots PROVE ThreadFine(th'[t], Made, asked') /\ Follows(th[t], th'[t])
  <2>1. CASE t \in woken
    <3>1. asked \subseteq asked' /\ asked' # {}
      BY <1>1, <1>3, <2>1
    <3> QED BY <1>1, <1>3, <2>1, <3>1, WokenFine, WokenFollows
  <2>2. CASE t \notin woken
    <3>1. ThreadFine(th[t], Made, asked) /\ th'[t] = th[t] /\ asked \subseteq asked'
      BY <1>1, <2>2 DEF HostInv, ThreadsFine
    <3> QED BY <3>1, ThreadGrows DEF Follows
  <2> QED BY <2>1, <2>2
<1>5. ThreadsFine' /\ Following
  BY <1>2, <1>4 DEF ThreadsFine, Following
<1>6. ClaimInv'
  BY CloseStep, QuietKeeps DEF HostInv
<1>7. AbortersKnown'
  <2>1. 0 \notin Slots
    BY DEF Slots
  <2>2. DOMAIN aborters' = Procs /\ \A o \in Procs : DOMAIN aborters'[o] = Runs
    BY <1>1 DEF HostInv, AbortersKnown
  <2>3. ASSUME NEW o \in Procs, NEW c \in Runs, aborters'[o][c] \in Slots
        PROVE  LET x == th'[aborters'[o][c]] IN x.kind = "exec" /\ x.proc = o /\ x.run = c
    <3>1. o # p /\ aborters'[o][c] = aborters[o][c]
      BY <1>1, <2>1, <2>3 DEF HostInv, AbortersKnown
    <3>2. th[aborters[o][c]].kind = "exec" /\ th[aborters[o][c]].proc = o /\ th[aborters[o][c]].run = c
      BY <2>3, <3>1 DEF HostInv, AbortersKnown
    <3>3. aborters[o][c] \notin woken
      BY <1>3, <2>3, <3>1, <3>2
    <3> QED BY <1>1, <2>3, <3>1, <3>2, <3>3
  <2> QED BY <2>2, <2>3 DEF AbortersKnown
<1> QED BY <1>2, <1>5, <1>6, <1>7 DEF HostInv, Plain

LEMMA HostBoots ==
  ASSUME HostInv, NEW p \in Procs, Boot(p)
  PROVE  Plain
<1> DEFINE found == {r \in Runs : Orphan(r)}
           orphans == SetToSeq(found)
           free == SetToSeq(FreeSlots)
           seat(t) == CHOOSE i \in DOMAIN orphans : free[i] = t
<1>1. found \subseteq Made
  BY DEF Orphan, Made, Created
<1>2. orphans \in [1..Cardinality(found) -> found]
  <2>1. IsFiniteSet(Runs) /\ found \in SUBSET Runs
    BY PostgresAssumption DEF Runs
  <2> QED BY <2>1, FS_Subset, InSequence
<1>3. /\ UNCHANGED <<runs, log, aborters, asked>>
      /\ th' = [t \in Slots |-> IF \E i \in DOMAIN orphans : free[i] = t THEN Executor(p, orphans[seat(t)]) ELSE th[t]]
  BY DEF Boot, Database, History
<1>4. ASSUME NEW t \in Slots PROVE ThreadFine(th'[t], Made, asked) /\ Follows(th[t], th'[t])
  <2>1. CASE \E i \in DOMAIN orphans : free[i] = t
    <3>1. seat(t) \in DOMAIN orphans
      BY <2>1
    <3> DEFINE r == orphans[seat(t)]
    <3> HIDE DEF orphans, free, found
    <3>2. r \in Made
      BY <1>1, <1>2, <3>1
    <3>3. th'[t] = Executor(p, r)
      BY <1>3, <2>1
    <3> QED BY <3>2, <3>3, ExecutorFine, IdleFollows
  <2>2. CASE ~(\E i \in DOMAIN orphans : free[i] = t)
    BY <1>3, <2>2 DEF HostInv, ThreadsFine, Follows
  <2> QED BY <2>1, <2>2
<1>5. Quiet
  BY BootStep DEF HostInv
<1>6. ClaimInv' /\ RowsTyped' /\ Calm' /\ AbortersKnown' /\ Made' = Made
  BY <1>3, <1>5, Undisturbed
<1>7. ThreadsFine' /\ Following
  BY <1>3, <1>4, <1>6 DEF ThreadsFine, Following
<1> QED BY <1>6, <1>7 DEF HostInv, Plain

-----------------------------------------------------------------------------
LEMMA HostStart == Init => HostInv
<1> SUFFICES ASSUME Init PROVE HostInv
  OBVIOUS
<1>1. RowsTyped
  BY DEF Init, RowsTyped, RowFields
<1>2. Calm
  <2>1. \A r \in Runs : runs[r].status = "none" /\ log[r] = EmptyBag
    BY DEF Init
  <2>2. \A type, n : ~In(EmptyBag, type, n)
    BY DEF In, EmptyBag, BagIn, BagToSet, SetToBag
  <2> QED BY <2>1, <2>2 DEF Calm, Stopped, Logged
<1>3. ThreadsFine
  BY IdleFine DEF Init, ThreadsFine
<1>4. AbortersKnown
  BY DEF Init, AbortersKnown, Slots
<1> QED BY <1>1, <1>2, <1>3, <1>4, ClaimStart DEF HostInv

(* All steps but two that go on with a claim or a search: no new work.     *)
LEMMA StepsArePlain ==
  ASSUME HostInv, NEW t \in Slots, Step(t) \/ Deadline(t), ~TryClaim(t), ~FindChild(t)
  PROVE  Plain
<1>1. CASE AppendEvent(t) \/ SetStatus(t) \/ Load(t) \/ NextNode(t) \/ Outcome(t) \/ Leave(t) \/ Deadline(t)
  BY <1>1, EventStep, StatusStep, LoadStep, NextNodeStep, OutcomeStep, HostLeaves, DeadlineStep
<1>2. CASE Sleep(t) \/ Request(t) \/ CreateInterrupt(t)
  BY <1>2, SleepStep, RequestStep, MintStep
<1>3. CASE InsertChild(t) \/ Spawn(t) \/ WatchSub(t) \/ DispatchNode(t) \/ WatchWorker(t)
  BY <1>3, InsertStep, HostSpawns, WatchSubStep, DispatchStep, WatchWorkerStep
<1>4. CASE Cancel(t) \/ CancelInternal(t) \/ InvalidateInterrupts(t) \/ SetCancelRequested(t) \/ Abort(t)
  BY <1>4, CancelStep, CascadeStep, InvalidateStep, AskStep, HostAborts
<1>5. CASE Look(t) \/ ReadVotes(t) \/ ResolveApproval(t) \/ CheckAnswer(t) \/ MarkResolved(t) \/ Reload(t) \/ Advance(t)
  BY <1>5, LookStep, ReadVotesStep, VoteStep, CheckStep, MarkStep, ReloadStep, AdvanceStep
<1>6. CASE Pause(t) \/ Resume(t) \/ Relaunch(t)
  BY <1>6, PauseStep, ResumeStep, RelaunchStep
<1> QED BY <1>1, <1>2, <1>3, <1>4, <1>5, <1>6 DEF Step

(* What clients and processes do.                                          *)
Outside(p) ==
  \/ \E r \in Roots, flow \in RootFlows : CreateRun(p, r, flow)
  \/ \E r \in Runs, op \in {"cancel", "pause", "resume"} : CallRun(p, r, op)
  \/ \E r \in Runs, n \in Nodes : \E ballot \in AnswersTo(r, n) : CallResolve(p, r, n, ballot)
  \/ Crash(p) \/ CloseHost(p) \/ Exit(p) \/ Boot(p)

LEMMA OutsideIsPlain ==
  ASSUME HostInv, NEW p \in Procs, Outside(p)
  PROVE  Plain
<1>1. Crash(p) \/ Exit(p) => Gone(p) /\ UNCHANGED <<runs, log, asked>>
  BY DEF Crash, Exit, Database, History
<1> QED BY <1>1, CreateStep, CallSteps, HostGone, HostCloses, HostBoots DEF Outside

LEMMA HostNext == HostInv /\ [Next]_vars => HostInv'
<1> SUFFICES ASSUME HostInv, [Next]_vars PROVE HostInv'
  OBVIOUS
<1>1. ASSUME NEW t \in Slots, Step(t) \/ Deadline(t) PROVE HostInv'
  BY <1>1, StepsArePlain, HostClaims, FindStep DEF Plain
<1>2. ASSUME NEW p \in Procs, Outside(p) PROVE HostInv'
  BY <1>2, OutsideIsPlain DEF Plain
<1>3. CASE UNCHANGED vars
  <2>1. ClaimInv'
    BY <1>3 DEF HostInv, vars, ClaimInv, ThreadsTyped, LocksCounted, LocksApart, Holders, Executing
  <2>2. RowsTyped' /\ Calm' /\ AbortersKnown' /\ ThreadsFine'
    BY <1>3 DEF HostInv, vars, RowsTyped, Calm, AbortersKnown, ThreadsFine, Made, Created, Logged
  <2> QED BY <2>1, <2>2 DEF HostInv
<1> QED BY <1>1, <1>2, <1>3 DEF Next, Outside

THEOREM HostHolds == Spec => []HostInv
BY HostStart, HostNext, PTL DEF Spec

(* A run ends as cancelled only if an operator stopped it.                 *)
THEOREM CancelsAreAsked == Spec => []CancelledIfAsked
<1>1. HostInv => CancelledIfAsked
  BY DEF HostInv, Calm, CancelledIfAsked, Stopped
<1> QED BY <1>1, HostHolds, PTL

-----------------------------------------------------------------------------
(* One child for each worker                                               *)

(* At a run that was never worked on twice at once, only one thread works. *)
Sole ==
  \A r \in Runs \ twice : \A s, t \in Slots : Working(s) /\ Working(t) /\ th[s].run = r /\ th[t].run = r => s = t

(* What a thread found no child for still has none when it inserts one.    *)
InsertsFresh ==
  \A t \in Slots : Inserts(th[t]) /\ th[t].run \notin twice => Existing(th[t].run, th[t].at, th[t].worker) = {}

KinInv == HostInv /\ Sole /\ InsertsFresh /\ OneChildPerWorker

KidsKept == \A c \in Kids : (runs'[c].status = "none" <=> runs[c].status = "none") /\ runs'[c].parent = runs[c].parent

LEMMA KidsStay ==
  ASSUME HostInv, NEW t \in Slots, Step(t) \/ Deadline(t), ~InsertChild(t)
  PROVE  KidsKept
<1>1. ASSUME runs' = runs PROVE KidsKept
  BY <1>1 DEF KidsKept
<1>2. ASSUME NEW r \in Made, NEW row, row.status # "none", row.parent = runs[r].parent, runs' = [runs EXCEPT ![r] = row]
      PROVE  KidsKept
  <2>1. r \in Runs /\ runs[r].status # "none" /\ \A c \in Runs : runs'[c] = IF c = r THEN row ELSE runs[c]
    BY <1>2 DEF HostInv, RowsTyped, Made, Created
  <2> QED BY <1>2, <2>1 DEF KidsKept, Runs
<1>3. CASE SetStatus(t)
  <2> DEFINE s == First(t)
             row == [runs[s.run] EXCEPT !.status = s.status]
  <2>1. s.run \in Made /\ s.status # "none" /\ runs' = [runs EXCEPT ![s.run] = row]
    BY <1>3, AtFacts DEF SetStatus, Fine
  <2>2. row.status = s.status /\ row.parent = runs[s.run].parent
    BY <2>1 DEF HostInv, RowsTyped, RowFields, Made
  <2> HIDE DEF row, s
  <2> QED BY <1>2, <2>1, <2>2
<1>4. CASE SetCancelRequested(t)
  <2> DEFINE r == First(t).run
             row == [runs[r] EXCEPT !.status = IF runs[r].status \in Terminal THEN runs[r].status ELSE "cancelling"]
  <2>1. r \in Made /\ runs' = [runs EXCEPT ![r] = row]
    BY <1>4, AtFacts DEF SetCancelRequested, Fine
  <2>2. row.status \in Terminal \cup {"cancelling"} /\ row.parent = runs[r].parent
    BY <2>1 DEF HostInv, RowsTyped, RowFields, Made
  <2>3. row.status # "none"
    BY <2>2 DEF Terminal
  <2> HIDE DEF row, r
  <2> QED BY <1>2, <2>1, <2>2, <2>3
<1>5. ASSUME th[t].run \in Made, NEW status, status # "none", NEW next,
             runs' = [runs EXCEPT ![th[t].run].status = status, ![th[t].run].next = next]
      PROVE  KidsKept
  <2> DEFINE r == th[t].run
             row == [[runs[r] EXCEPT !.status = status] EXCEPT !.next = next]
  <2>1. runs' = [runs EXCEPT ![r] = row] /\ row.status = status /\ row.parent = runs[r].parent
    BY <1>5 DEF HostInv, RowsTyped, RowFields, Made
  <2> HIDE DEF row
  <2> QED BY <1>2, <1>5, <2>1
<1>6. CASE Outcome(t)
  <2>1. th[t].run \in Made
    BY <1>6, AtOwn DEF Outcome, Own
  <2>2. ASSUME NEW next, runs' = [runs EXCEPT ![th[t].run].next = next] PROVE KidsKept
    <3> DEFINE r == th[t].run
               row == [runs[r] EXCEPT !.next = next]
    <3>1. /\ runs' = [runs EXCEPT ![r] = row] /\ row.status = runs[r].status /\ row.parent = runs[r].parent
          /\ runs[r].status # "none"
      BY <2>1, <2>2 DEF HostInv, RowsTyped, RowFields, Made, Created
    <3> HIDE DEF row
    <3> QED BY <1>2, <2>1, <3>1
  <2>3. WaitingFor(Kind(th[t].run, th[t].at)) # "none"
    BY DEF WaitingFor
  <2>4. CASE First(t).outcome = "suspended"
    BY <1>1, <1>5, <1>6, <2>1, <2>3, <2>4 DEF Outcome
  <2>5. CASE First(t).outcome # "suspended"
    BY <1>1, <1>6, <2>2, <2>5 DEF Outcome
  <2> QED BY <2>4, <2>5
<1>7. CASE Advance(t)
  <2>1. th[t].run \in Made
    BY <1>7, AtFacts DEF Advance, Handles
  <2> QED BY <1>1, <1>5, <1>7, <2>1 DEF Advance
<1>8. CASE \/ AppendEvent(t) \/ TryClaim(t) \/ Load(t) \/ NextNode(t) \/ Leave(t) \/ Deadline(t)
           \/ Sleep(t) \/ Request(t) \/ CreateInterrupt(t)
           \/ FindChild(t) \/ Spawn(t) \/ WatchSub(t) \/ DispatchNode(t) \/ WatchWorker(t)
  <2>1. runs' = runs
    BY <1>8 DEF AppendEvent, TryClaim, Load, NextNode, Leave, Deadline, Sleep, Request, CreateInterrupt,
                FindChild, Spawn, WatchSub, DispatchNode, WatchWorker, Database
  <2> QED BY <1>1, <2>1
<1>9. CASE \/ Cancel(t) \/ CancelInternal(t) \/ InvalidateInterrupts(t) \/ Abort(t)
           \/ Look(t) \/ ReadVotes(t) \/ ResolveApproval(t) \/ CheckAnswer(t) \/ MarkResolved(t) \/ Reload(t)
           \/ Pause(t) \/ Resume(t) \/ Relaunch(t)
  <2>1. runs' = runs
    BY <1>9 DEF Cancel, CancelInternal, InvalidateInterrupts, Abort, Look, ReadVotes, ResolveApproval, CheckAnswer,
                MarkResolved, Reload, Pause, Resume, Relaunch, Database
  <2> QED BY <1>1, <2>1
<1> QED BY <1>3, <1>4, <1>6, <1>7, <1>8, <1>9 DEF Step

LEMMA TwiceStays ==
  ASSUME NEW t \in Slots, Step(t) \/ Deadline(t), ~TryClaim(t)
  PROVE  twice' = twice
<1>1. CASE \/ AppendEvent(t) \/ SetStatus(t) \/ Load(t) \/ NextNode(t) \/ Outcome(t) \/ Leave(t) \/ Deadline(t)
           \/ Sleep(t) \/ Request(t) \/ CreateInterrupt(t)
           \/ FindChild(t) \/ InsertChild(t) \/ Spawn(t) \/ WatchSub(t) \/ DispatchNode(t) \/ WatchWorker(t)
  BY <1>1 DEF AppendEvent, SetStatus, Load, NextNode, Outcome, Leave, Deadline, Sleep, Request, CreateInterrupt,
              FindChild, InsertChild, Spawn, WatchSub, DispatchNode, WatchWorker, History
<1>2. CASE \/ Cancel(t) \/ CancelInternal(t) \/ InvalidateInterrupts(t) \/ SetCancelRequested(t) \/ Abort(t)
           \/ Look(t) \/ ReadVotes(t) \/ ResolveApproval(t) \/ CheckAnswer(t) \/ MarkResolved(t) \/ Reload(t) \/ Advance(t)
           \/ Pause(t) \/ Resume(t) \/ Relaunch(t)
  BY <1>2 DEF Cancel, CancelInternal, InvalidateInterrupts, SetCancelRequested, Abort, Look, ReadVotes, ResolveApproval,
              CheckAnswer, MarkResolved, Reload, Advance, Pause, Resume, Relaunch, History
<1> QED BY <1>1, <1>2 DEF Step

(* Steps that insert no child and claim no run.                            *)
LEMMA PlainKin ==
  ASSUME KinInv, Plain, KidsKept, twice' = twice
  PROVE  KinInv'
<1>1. \A s \in Slots : Working(s)' => Working(s) /\ th'[s].run = th[s].run
  BY DEF Plain, Following, Follows, Working, Executing
<1>2. Sole'
  BY <1>1 DEF KinInv, Sole
<1>4. InsertsFresh'
  <2> SUFFICES ASSUME NEW t \in Slots, Inserts(th'[t]), th'[t].run \notin twice, NEW d \in Kids, runs'[d].status # "none",
                      runs'[d].parent = [run |-> th'[t].run, node |-> th'[t].at, worker |-> th'[t].worker]
               PROVE  FALSE
    BY DEF InsertsFresh, Existing
  <2>1. Inserts(th[t]) /\ th'[t].run = th[t].run /\ th'[t].at = th[t].at /\ th'[t].worker = th[t].worker
    BY DEF Plain, Following, Follows
  <2>2. Existing(th[t].run, th[t].at, th[t].worker) = {}
    BY <2>1 DEF KinInv, InsertsFresh
  <2>3. d \in Existing(th[t].run, th[t].at, th[t].worker)
    BY <2>1 DEF KidsKept, Existing
  <2> QED BY <2>2, <2>3
<1>5. OneChildPerWorker'
  BY DEF KinInv, KidsKept, OneChildPerWorker, Created
<1> QED BY <1>2, <1>4, <1>5 DEF KinInv, Plain

LEMMA KinClaims ==
  ASSUME KinInv, NEW t \in Slots, TryClaim(t)
  PROVE  KinInv'
<1> DEFINE new == [th[t] EXCEPT !.kind = "exec", !.todo = <<Do("load")>>]
           r == th[t].run
<1>1. HostInv'
  BY HostClaims DEF KinInv
<1>2. /\ runs' = runs /\ twice \subseteq twice'
      /\ \/ Becomes(t, Idle)
         \/ Becomes(t, new) /\ ((\E s \in Slots : Working(s) /\ th[s].run = r) => r \in twice')
  BY DEF TryClaim, Database
<1>3. /\ new.kind = "exec" /\ new.run = r /\ new.todo = <<Do("load")>>
  BY ThreadShape DEF KinInv
<1>4. ~Inserts(new) /\ ~Inserts(Idle) /\ Idle.kind # "exec"
  BY <1>3 DEF Inserts, Do, Idle
<1> HIDE DEF new
<1>5. \A s \in Slots : s # t => th'[s] = th[s]
  BY <1>2, ThreadShape DEF Becomes, KinInv
<1>6. Sole'
  <2>1. CASE Becomes(t, Idle)
    <3>1. th'[t] = Idle
      BY <2>1, ThreadShape DEF Becomes, KinInv
    <3> QED BY <1>2, <1>4, <1>5, <3>1 DEF KinInv, Sole, Working, Executing
  <2>2. CASE Becomes(t, new) /\ ((\E s \in Slots : Working(s) /\ th[s].run = r) => r \in twice')
    <3>1. th'[t] = new
      BY <2>2, ThreadShape DEF Becomes, KinInv
    <3>2. \A s \in Slots : s # t /\ Working(s)' => Working(s) /\ th'[s].run = th[s].run
      BY <1>5 DEF Working, Executing
    <3>3. \A s \in Slots : s # t /\ Working(s)' /\ th'[s].run = r => r \in twice'
      BY <2>2, <3>2
    <3> QED BY <1>2, <1>3, <3>1, <3>2, <3>3 DEF KinInv, Sole
  <2> QED BY <1>2, <2>1, <2>2
<1>7. InsertsFresh'
  <2> SUFFICES ASSUME NEW s \in Slots, Inserts(th'[s]), th'[s].run \notin twice', NEW d \in Kids, runs'[d].status # "none",
                      runs'[d].parent = [run |-> th'[s].run, node |-> th'[s].at, worker |-> th'[s].worker]
               PROVE  FALSE
    BY DEF InsertsFresh, Existing
  <2>1. s # t
    BY <1>2, <1>4, ThreadShape DEF Becomes, KinInv
  <2>2. Existing(th[s].run, th[s].at, th[s].worker) = {}
    BY <1>2, <1>5, <2>1 DEF KinInv, InsertsFresh
  <2>3. d \in Existing(th[s].run, th[s].at, th[s].worker)
    BY <1>2, <1>5, <2>1 DEF Existing
  <2> QED BY <2>2, <2>3
<1>8. OneChildPerWorker'
  BY <1>2 DEF KinInv, OneChildPerWorker, Created
<1> QED BY <1>1, <1>6, <1>7, <1>8 DEF KinInv

LEMMA KinFinds ==
  ASSUME KinInv, NEW t \in Slots, FindChild(t)
  PROVE  KinInv'
<1> DEFINE there == Existing(th[t].run, th[t].at, th[t].worker)
           y == th'[t]
<1>1. HostInv' /\ runs' = runs /\ twice' = twice
  BY FindStep DEF KinInv, FindChild, Database, History
<1>2. /\ At(t, "find") /\ th[t].kind = "exec" /\ th[t].todo # <<>>
      /\ \A s \in Slots : s # t => th'[s] = th[s]
      /\ y.run = th[t].run /\ y.at = th[t].at /\ y.worker = th[t].worker
  <2>1. At(t, "find") /\ th[t].kind = "exec" /\ th[t].todo # <<>>
    BY AtOwn, AtFacts DEF KinInv, FindChild, Own
  <2> QED BY <2>1, ThreadShape DEF KinInv, FindChild, Then, Becomes
<1>3. Inserts(y) => there = {}
  <2>1. there # {} => y.todo = <<Do("watch")>>
    BY ThreadShape DEF KinInv, FindChild
  <2> QED BY <2>1 DEF Inserts, Do
<1> HIDE DEF y
<1>4. Sole'
  BY <1>1, <1>2 DEF KinInv, Sole, Working, Executing, y
<1>5. InsertsFresh'
  BY <1>1, <1>2, <1>3 DEF KinInv, InsertsFresh, Existing, y
<1>6. OneChildPerWorker'
  BY <1>1 DEF KinInv, OneChildPerWorker, Created
<1> QED BY <1>1, <1>4, <1>5, <1>6 DEF KinInv

LEMMA KinInserts ==
  ASSUME KinInv, NEW t \in Slots, InsertChild(t)
  PROVE  KinInv'
<1> DEFINE c == CHOOSE x \in FreshKids : TRUE
           parent == [run |-> th[t].run, node |-> th[t].at, worker |-> th[t].worker]
           row == [status |-> "pending", next |-> 1, flow |-> ChildFlow, parent |-> parent]
<1>1. HostInv /\ Plain /\ twice' = twice /\ At(t, "insert")
  BY InsertStep DEF KinInv, InsertChild, History
<1>2. c \in Kids /\ c \in Runs /\ runs[c].status = "none"
  BY DEF InsertChild, FreshKids, Runs
<1>3. Working(t) /\ Inserts(th[t]) /\ th[t].run \in Runs
  BY <1>1, AtInsert DEF Working, Executing, Made
<1>4. \A d \in Kids : runs'[d] = IF d = c THEN row ELSE runs[d]
  BY <1>1 DEF InsertChild, HostInv, RowsTyped, Runs
<1>5. ~Inserts(th'[t])
  <2>1. th'[t].todo = Rest(t) /\ th'[t].kind = th[t].kind /\ th'[t].late = th[t].late
    BY <1>1, ThreadShape DEF InsertChild
  <2>2. Clean(Rest(t), th[t], c, Made \cup {c}, asked)
    BY <1>1, <1>2, AtInsert
  <2> SUFFICES ASSUME Inserts(th'[t]) PROVE FALSE
    OBVIOUS
  <2>3. Rest(t) # <<>> /\ Head(Rest(t)) = Do("insert")
    BY <2>1 DEF Inserts
  <2>4. Fine(Head(Rest(t)), th[t], c, Made \cup {c}, asked)
    BY <2>2, <2>3, CleanParts
  <2> QED BY <2>3, <2>4 DEF Fine, Do
<1> HIDE DEF c
<1>6. \A s \in Slots : Working(s)' => Working(s) /\ th'[s].run = th[s].run
  BY <1>1 DEF Plain, Following, Follows, Working, Executing
<1>7. Sole'
  BY <1>1, <1>6 DEF KinInv, Sole
<1>8. InsertsFresh'
  <2> SUFFICES ASSUME NEW s \in Slots, Inserts(th'[s]), th'[s].run \notin twice,
                      NEW d \in Kids, runs'[d].status # "none",
                      runs'[d].parent = [run |-> th'[s].run, node |-> th'[s].at, worker |-> th'[s].worker]
               PROVE  FALSE
    BY <1>1 DEF InsertsFresh, Existing
  <2>1. /\ Inserts(th[s]) /\ th'[s].run = th[s].run /\ th'[s].at = th[s].at /\ th'[s].worker = th[s].worker
    BY <1>1 DEF Plain, Following, Follows
  <2>2. Working(s)
    BY <2>1 DEF Inserts, Working, Executing
  <2>3. s # t
    BY <1>5
  <2>4. th[s].run # th[t].run
    BY <1>3, <2>1, <2>2, <2>3 DEF KinInv, Sole
  <2>5. d # c
    BY <1>4, <2>1, <2>4
  <2>6. Existing(th[s].run, th[s].at, th[s].worker) = {}
    BY <2>1 DEF KinInv, InsertsFresh
  <2> QED BY <1>4, <2>1, <2>5, <2>6 DEF Existing
<1>9. OneChildPerWorker'
  <2> SUFFICES ASSUME NEW d \in Kids, NEW e \in Kids, runs'[d].status # "none", runs'[e].status # "none",
                      runs'[d].parent = runs'[e].parent, runs'[d].parent.run \notin twice, d # e
               PROVE  FALSE
    BY <1>1 DEF OneChildPerWorker, Created
  <2>1. CASE d # c /\ e # c
    BY <1>4, <2>1 DEF KinInv, OneChildPerWorker, Created
  <2>2. ASSUME NEW x \in Kids, x # c, runs'[x].status # "none", runs'[x].parent = parent, parent.run \notin twice PROVE FALSE
    <3>1. Existing(th[t].run, th[t].at, th[t].worker) = {}
      BY <1>3, <2>2 DEF KinInv, InsertsFresh
    <3> QED BY <1>4, <2>2, <3>1 DEF Existing
  <2>3. runs'[c].parent = parent
    BY <1>2, <1>4
  <2> QED BY <2>1, <2>2, <2>3
<1> QED BY <1>1, <1>7, <1>8, <1>9 DEF KinInv, Plain

LEMMA KinStart == Init => KinInv
<1> SUFFICES ASSUME Init PROVE KinInv
  OBVIOUS
<1>1. \A t \in Slots : th[t] = Idle
  BY DEF Init
<1>2. Sole /\ InsertsFresh
  BY <1>1 DEF Sole, InsertsFresh, Inserts, Working, Executing, Idle
<1>3. OneChildPerWorker
  BY DEF Init, OneChildPerWorker, Created, Runs
<1> QED BY <1>2, <1>3, HostStart DEF KinInv

LEMMA KinNext == KinInv /\ [Next]_vars => KinInv'
<1> SUFFICES ASSUME KinInv, [Next]_vars PROVE KinInv'
  OBVIOUS
<1>0. HostInv
  BY DEF KinInv
<1>1. ASSUME NEW t \in Slots, Step(t) \/ Deadline(t) PROVE KinInv'
  <2>1. CASE TryClaim(t) \/ FindChild(t) \/ InsertChild(t)
    BY <2>1, KinClaims, KinFinds, KinInserts
  <2>2. CASE ~(TryClaim(t) \/ FindChild(t) \/ InsertChild(t))
    <3>1. Plain
      BY <1>0, <1>1, <2>2, StepsArePlain
    <3>2. KidsKept /\ twice' = twice
      BY <1>0, <1>1, <2>2, KidsStay, TwiceStays
    <3> QED BY <3>1, <3>2, PlainKin
  <2> QED BY <2>1, <2>2
<1>2. ASSUME NEW p \in Procs, Outside(p) PROVE KinInv'
  <2>1. KidsKept /\ twice' = twice
    <3>1. ASSUME NEW r \in Roots, NEW flow, CreateRun(p, r, flow) PROVE KidsKept /\ twice' = twice
      <4>1. r \notin Kids
        BY PostgresAssumption
      <4> QED BY <1>0, <3>1, <4>1 DEF CreateRun, History, KidsKept, HostInv, RowsTyped, Runs
    <3>2. CASE ~\E r \in Roots, flow \in RootFlows : CreateRun(p, r, flow)
      BY <1>2, <3>2 DEF Outside, CallRun, CallResolve, Arrives, Crash, Exit, CloseHost, Boot, Database, History, KidsKept
    <3> QED BY <3>1, <3>2
  <2> QED BY <1>0, <1>2, <2>1, OutsideIsPlain, PlainKin
<1>3. CASE UNCHANGED vars
  <2>1. HostInv'
    BY <1>0, <1>3, HostNext
  <2>2. Sole' /\ InsertsFresh' /\ OneChildPerWorker'
    BY <1>3 DEF vars, KinInv, Sole, InsertsFresh, OneChildPerWorker, Working, Executing, Existing, Created
  <2> QED BY <2>1, <2>2 DEF KinInv
<1> QED BY <1>1, <1>2, <1>3 DEF Next, Outside

(* A node has one child for each worker, however often it is executed.     *)
THEOREM ChildrenAreReused == Spec => []OneChildPerWorker
<1>1. Spec => []KinInv
  BY KinStart, KinNext, PTL DEF Spec
<1>2. KinInv => OneChildPerWorker
  BY DEF KinInv
<1> QED BY <1>1, <1>2, PTL
=============================================================================
