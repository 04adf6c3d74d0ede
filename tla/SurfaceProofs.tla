---------------------------- MODULE SurfaceProofs ----------------------------
(***************************************************************************)
(* The small parts of the hosts, one after the other: the workspace of the   *)
(* in-memory host (InMemoryHost), runs as A2A and MCP clients meet them       *)
(* (AgentTasks), requests under a key (Idempotency) and workflows that chains *)
(* are put into (ChainExpansion), each for any value of its constants.        *)
(***************************************************************************)
EXTENDS InMemoryHost, AgentTasks, Idempotency, ChainExpansion, FiniteSetTheorems, SequenceTheorems, TLAPS

(***************************************************************************)
(* The workspace.  A path's versions increase and never start again, a       *)
(* tombstone counting as one, so a version number names one content for      *)
(* good.  Whoever noted a number and a content (an editor its etag, a run    *)
(* its snapshot) finds under that number the same content or nothing.        *)
(***************************************************************************)

Entries == [version : Nat \ {0}, content : Nat, deleted : BOOLEAN]

MemoryTypes ==
  /\ files \in [Paths -> Seq(Entries)]
  /\ writes \in Nat
  /\ seen \in [Paths -> [version : Nat, content : Nat]]
  /\ DOMAIN runs = Runs

(* Versions increase.                                                      *)
Increasing(history) ==
  \A i, j \in DOMAIN history : i < j => history[i].version < history[j].version

LastVersion(history) == IF history = <<>> THEN 0 ELSE LastOf(history).version

(* The number in the mark is spent, and names the content in the mark.     *)
Marks(history, mark) ==
  /\ mark.version \in Nat
  /\ mark.version <= LastVersion(history)
  /\ \A i \in DOMAIN history : history[i].version = mark.version => history[i].content = mark.content

(* A run, and the files its snapshot names.                                *)
Stands(run) ==
  /\ DOMAIN run = DOMAIN NoRun
  /\ DOMAIN run.snapshot \subseteq Paths
  /\ \A p \in DOMAIN run.snapshot : Marks(files[p], run.snapshot[p])

MemoryInv ==
  /\ MemoryTypes
  /\ \A p \in Paths : Increasing(files[p]) /\ Marks(files[p], seen[p])
  /\ \A r \in Runs : Stands(runs[r])

-----------------------------------------------------------------------------
(* Histories                                                               *)

LEMMA SomeKept == MaxVersions \in Nat \ {0}
  BY InMemoryAssumption

(* Trimming leaves a tail of the history, which ends as it did.            *)
LEMMA KeptTail ==
  ASSUME NEW h \in Seq(Entries), h # <<>>
  PROVE  /\ Kept(h) \in Seq(Entries) /\ Kept(h) # <<>>
         /\ LastOf(Kept(h)) = LastOf(h)
         /\ \E d \in Nat : Len(Kept(h)) = Len(h) - d /\ \A i \in DOMAIN Kept(h) : i + d \in DOMAIN h /\ Kept(h)[i] = h[i + d]
<1>1. CASE Len(h) > MaxVersions
  <2> DEFINE d == Len(h) - MaxVersions
  <2>1. d \in Nat /\ d + 1 \in Int /\ Len(h) \in Int /\ \A i \in d + 1 .. Len(h) : h[i] \in Entries
    BY <1>1, SomeKept
  <2>2. Kept(h) = SubSeq(h, d + 1, Len(h))
    BY <1>1 DEF Kept
  <2>3. /\ Kept(h) \in Seq(Entries) /\ Len(Kept(h)) = Len(h) - d
        /\ \A i \in 1 .. Len(h) - d : Kept(h)[i] = h[d + 1 + i - 1]
    <3> HIDE DEF d
    <3>1. d <= Len(h)
      BY <1>1, SomeKept DEF d
    <3> QED
      BY <2>1, <2>2, <3>1, SubSeqProperties
  <2>4. Len(Kept(h)) = MaxVersions
    BY <2>3, SomeKept
  <2>5. Kept(h)[MaxVersions] = h[Len(h)]
    BY <2>1, <2>3, SomeKept
  <2> QED
    <3>1. Kept(h) # <<>> /\ LastOf(Kept(h)) = LastOf(h)
      BY <2>4, <2>5, SomeKept DEF LastOf
    <3>2. ASSUME NEW i \in DOMAIN Kept(h) PROVE i + d \in DOMAIN h /\ Kept(h)[i] = h[i + d]
      <4>1. i \in 1 .. MaxVersions /\ MaxVersions = Len(h) - d
        BY <2>3, <2>4, SomeKept
      <4>2. d + 1 + i - 1 = i + d
        BY <2>1, <4>1
      <4> QED
        BY <2>1, <2>3, <4>1, <4>2, SomeKept
    <3> QED
      BY <2>1, <2>3, <3>1, <3>2
<1>2. CASE ~(Len(h) > MaxVersions)
  <2>1. Kept(h) = h
    BY <1>2 DEF Kept
  <2>2. Len(h) = Len(h) - 0 /\ \A i \in DOMAIN h : i + 0 \in DOMAIN h /\ h[i] = h[i + 0]
    OBVIOUS
  <2>3. 0 \in Nat
    OBVIOUS
  <2> QED
    BY ONLY <2>1, <2>2, <2>3, h \in Seq(Entries), h # <<>>, Zenon
<1> QED
  BY <1>1, <1>2

(* Appending the next version keeps a history increasing, and every mark.  *)
LEMMA Grows ==
  ASSUME NEW h \in Seq(Entries), Increasing(h), NEW e \in Entries, e.version = LastVersion(h) + 1
  PROVE  LET g == Kept(Append(h, e)) IN
         /\ g \in Seq(Entries) /\ Increasing(g)
         /\ \A mark : Marks(h, mark) => Marks(g, mark)
<1> DEFINE a == Append(h, e)
           g == Kept(a)
<1>1. /\ a \in Seq(Entries) /\ a # <<>> /\ Len(a) = Len(h) + 1 /\ LastOf(a) = e
      /\ \A i \in DOMAIN h : a[i] = h[i]
      /\ DOMAIN a = DOMAIN h \cup {Len(h) + 1}
  <2>1. /\ a \in Seq(Entries) /\ Len(a) = Len(h) + 1 /\ a[Len(h) + 1] = e
        /\ \A i \in 1 .. Len(h) : a[i] = h[i]
    BY AppendProperties
  <2>2. DOMAIN a = 1 .. Len(h) + 1 /\ DOMAIN h = 1 .. Len(h) /\ Len(h) \in Nat
    BY <2>1
  <2>3. a # <<>> /\ LastOf(a) = e
    <3> HIDE DEF a
    <3> QED
      BY <2>1, <2>2 DEF LastOf
  <2> QED
    BY <2>1, <2>2, <2>3
<1>2. ASSUME NEW i \in DOMAIN h PROVE h[i].version <= LastVersion(h) /\ h[i].version \in Nat
  <2>1. h # <<>> /\ Len(h) \in DOMAIN h /\ LastVersion(h) = h[Len(h)].version
    BY DEF LastVersion, LastOf
  <2>2. h[i].version \in Nat /\ h[Len(h)].version \in Nat
    <3>1. h[i] \in Entries /\ h[Len(h)] \in Entries
      BY <2>1
    <3> QED
      BY <3>1 DEF Entries
  <2>3. i < Len(h) => h[i].version < h[Len(h)].version
    BY <2>1 DEF Increasing
  <2> QED
    BY <2>1, <2>2, <2>3
<1>3. LastVersion(h) \in Nat
  BY <1>2 DEF LastVersion, LastOf
<1>4. Increasing(a)
  <2> SUFFICES ASSUME NEW i \in DOMAIN a, NEW j \in DOMAIN a, i < j PROVE a[i].version < a[j].version
    BY DEF Increasing
  <2>1. i \in DOMAIN h
    BY <1>1
  <2>2. CASE j \in DOMAIN h
    BY <1>1, <2>1, <2>2 DEF Increasing
  <2>3. CASE j = Len(h) + 1
    BY <1>1, <1>2, <1>3, <2>1, <2>3
  <2> QED
    BY <1>1, <2>2, <2>3
<1>5. PICK d \in Nat : Len(g) = Len(a) - d /\ \A i \in DOMAIN g : i + d \in DOMAIN a /\ g[i] = a[i + d]
  BY <1>1, KeptTail
<1>6. g \in Seq(Entries) /\ g # <<>> /\ LastOf(g) = e
  BY <1>1, KeptTail
<1> HIDE DEF g
<1>7. Increasing(g)
  <2> SUFFICES ASSUME NEW i \in DOMAIN g, NEW j \in DOMAIN g, i < j PROVE g[i].version < g[j].version
    BY DEF Increasing
  <2>1. i \in Nat /\ j \in Nat /\ i + d < j + d
    BY <1>6
  <2>2. /\ i + d \in DOMAIN a /\ g[i] = a[i + d]
        /\ j + d \in DOMAIN a /\ g[j] = a[j + d]
    BY <1>5
  <2> QED
    BY <1>4, <2>1, <2>2 DEF Increasing
<1>8. ASSUME NEW mark, Marks(h, mark) PROVE Marks(g, mark)
  <2>1. mark.version \in Nat /\ mark.version <= LastVersion(g)
    BY <1>3, <1>6, <1>8 DEF Marks, LastVersion
  <2>2. ASSUME NEW i \in DOMAIN g, g[i].version = mark.version PROVE g[i].content = mark.content
    <3>1. i + d \in DOMAIN a /\ g[i] = a[i + d]
      BY <1>5
    <3>2. CASE i + d \in DOMAIN h
      BY <1>1, <1>8, <2>2, <3>1, <3>2 DEF Marks
    <3>3. CASE i + d = Len(h) + 1
      <4>1. g[i] = e
        BY <1>1, <3>1, <3>3 DEF LastOf
      <4> QED
        BY <4>1, <1>3, <1>8, <2>2 DEF Marks
    <3> QED
      BY <1>1, <3>1, <3>2, <3>3
  <2> QED
    BY <2>1, <2>2 DEF Marks
<1> QED
  BY <1>6, <1>7, <1>8 DEF g

(* The live version of an increasing history is a mark of it.              *)
LEMMA LastMarks ==
  ASSUME NEW h \in Seq(Entries), Increasing(h), h # <<>>,
         NEW mark, mark = [version |-> LastOf(h).version, content |-> LastOf(h).content]
  PROVE  Marks(h, mark) /\ mark \in [version : Nat, content : Nat]
<1>1. Len(h) \in DOMAIN h /\ h[Len(h)] \in Entries
  OBVIOUS
<1>2. ASSUME NEW i \in DOMAIN h, h[i].version = h[Len(h)].version PROVE h[i] = h[Len(h)]
  <2>1. CASE i = Len(h)
    BY <2>1
  <2>2. CASE i < Len(h)
    <3>1. h[i].version < h[Len(h)].version
      BY <1>1, <2>2 DEF Increasing
    <3> QED
      BY <1>1, <1>2, <3>1 DEF Entries
  <2> QED
    BY <2>1, <2>2
<1> QED
  BY <1>1, <1>2 DEF Marks, LastVersion, LastOf, Entries

-----------------------------------------------------------------------------
(* The workspace's steps                                                   *)

LEMMA MemoryStart == MemoryInit => MemoryInv
<1> SUFFICES ASSUME MemoryInit PROVE MemoryInv
  OBVIOUS
<1>1. \A p \in Paths : files[p] = <<>> /\ seen[p] = [version |-> 0, content |-> 0]
  BY DEF MemoryInit
<1>2. \A p \in Paths : Increasing(files[p]) /\ Marks(files[p], seen[p])
  BY <1>1 DEF Increasing, Marks, LastVersion
<1>3. \A r \in Runs : Stands(runs[r])
  BY DEF MemoryInit, Stands, NoRun
<1>4. MemoryTypes
  <2>1. files \in [Paths -> Seq(Entries)]
    BY DEF MemoryInit
  <2> QED
    BY <2>1 DEF MemoryInit, MemoryTypes
<1> QED
  BY <1>2, <1>3, <1>4 DEF MemoryInv

(* A file that gets its next version.                                      *)
LEMMA FileStep ==
  ASSUME MemoryInv, NEW p \in Paths, NEW e \in Entries, e.version = LastVersion(files[p]) + 1,
         files' = [files EXCEPT ![p] = Kept(Append(@, e))], writes' \in Nat, UNCHANGED <<seen, runs>>
  PROVE  MemoryInv'
<1>1. files[p] \in Seq(Entries) /\ Increasing(files[p])
  BY DEF MemoryInv, MemoryTypes
<1>2. /\ files'[p] \in Seq(Entries) /\ Increasing(files'[p])
      /\ \A mark : Marks(files[p], mark) => Marks(files'[p], mark)
  <2>1. files'[p] = Kept(Append(files[p], e))
    BY DEF MemoryInv, MemoryTypes
  <2> QED
    BY <1>1, <2>1, Grows
<1>3. \A q \in Paths : q # p => files'[q] = files[q]
  BY DEF MemoryInv, MemoryTypes
<1>4. MemoryTypes'
  <2>1. files' \in [Paths -> Seq(Entries)]
    BY <1>2, <1>3 DEF MemoryInv, MemoryTypes
  <2> QED
    BY <2>1 DEF MemoryInv, MemoryTypes
<1>5. ASSUME NEW q \in Paths, NEW mark, Marks(files[q], mark) PROVE Marks(files'[q], mark)
  BY <1>2, <1>3, <1>5
<1>6. \A q \in Paths : Increasing(files'[q]) /\ Marks(files'[q], seen'[q])
  BY <1>2, <1>3, <1>5 DEF MemoryInv
<1>7. ASSUME NEW r \in Runs PROVE Stands(runs[r])'
  <2>1. Stands(runs[r]) /\ runs' = runs
    BY DEF MemoryInv
  <2> QED
    BY <1>5, <2>1 DEF Stands
<1> QED
  BY <1>4, <1>6, <1>7 DEF MemoryInv

(* A run that moves while no file does.                                    *)
LEMMA RunStep ==
  ASSUME MemoryInv, NEW r \in Runs, NEW run, Stands(run),
         runs' = [runs EXCEPT ![r] = run], UNCHANGED workspace
  PROVE  MemoryInv'
<1>1. files' = files /\ writes' = writes /\ seen' = seen
  BY DEF workspace
<1>2. MemoryTypes'
  BY <1>1 DEF MemoryInv, MemoryTypes
<1>3. ASSUME NEW q \in Runs PROVE Stands(runs[q])'
  <2>1. runs'[q] = IF q = r THEN run ELSE runs[q]
    BY DEF MemoryInv, MemoryTypes
  <2>2. Stands(runs'[q])
    BY <2>1 DEF MemoryInv
  <2> QED
    BY <1>1, <2>2 DEF Stands
<1>4. \A q \in Paths : Increasing(files'[q]) /\ Marks(files'[q], seen'[q])
  BY <1>1 DEF MemoryInv
<1> QED
  BY <1>2, <1>3, <1>4 DEF MemoryInv

LEMMA PutStep ==
  ASSUME MemoryInv, NEW p \in Paths, NEW conditional \in BOOLEAN, Put(p, conditional)
  PROVE  MemoryInv'
<1>1. files[p] \in Seq(Entries) /\ writes \in Nat
  BY DEF MemoryInv, MemoryTypes
<1>2. NextVersion(p) = LastVersion(files[p]) + 1
  BY DEF NextVersion, LastVersion
<1>3. LastVersion(files[p]) \in Nat
  <2>1. files[p] # <<>> => files[p][Len(files[p])] \in Entries
    BY <1>1
  <2> QED
    BY <2>1 DEF LastVersion, LastOf, Entries
<1>4. /\ Version(NextVersion(p), writes + 1) \in Entries
      /\ Version(NextVersion(p), writes + 1).version = LastVersion(files[p]) + 1
  BY <1>1, <1>2, <1>3 DEF Version, Entries
<1>5. /\ files' = [files EXCEPT ![p] = Kept(Append(@, Version(NextVersion(p), writes + 1)))]
      /\ writes' \in Nat /\ UNCHANGED <<seen, runs>>
  BY <1>1 DEF Put
<1> QED
  BY <1>4, <1>5, FileStep

LEMMA DeleteStep ==
  ASSUME MemoryInv, NEW p \in Paths, Delete(p)
  PROVE  MemoryInv'
<1>1. files[p] \in Seq(Entries) /\ writes \in Nat /\ files[p] # <<>> /\ files \in [Paths -> Seq(Entries)]
  BY DEF MemoryInv, MemoryTypes, Delete, IsLive
<1> DEFINE e == Tombstone(LastOf(files[p]).version + 1)
<1>2. e \in Entries /\ e.version = LastVersion(files[p]) + 1
  <2>1. files[p][Len(files[p])] \in Entries
    BY <1>1
  <2> QED
    BY <1>1, <2>1 DEF Tombstone, LastVersion, LastOf, Entries
<1>3. files' = [files EXCEPT ![p] = Kept(Append(@, e))]
  BY DEF Delete
<1>4. writes' \in Nat /\ UNCHANGED <<seen, runs>>
  BY <1>1 DEF Delete
<1> QED
  BY <1>2, <1>3, <1>4, FileStep

LEMMA GetStep ==
  ASSUME MemoryInv, NEW p \in Paths, Get(p)
  PROVE  MemoryInv'
<1>1. files[p] \in Seq(Entries) /\ files[p] # <<>> /\ Increasing(files[p])
  BY DEF MemoryInv, MemoryTypes, Get, IsLive
<1> DEFINE mark == [version |-> LastOf(files[p]).version, content |-> LastOf(files[p]).content]
<1>2. Marks(files[p], mark) /\ mark \in [version : Nat, content : Nat]
  BY <1>1, LastMarks
<1>3. seen' = [seen EXCEPT ![p] = mark] /\ UNCHANGED <<files, writes, runs>>
  BY DEF Get
<1> HIDE DEF mark
<1>4. MemoryTypes'
  BY <1>2, <1>3 DEF MemoryInv, MemoryTypes
<1>5. \A q \in Paths : Increasing(files'[q]) /\ Marks(files'[q], seen'[q])
  BY <1>2, <1>3 DEF MemoryInv, MemoryTypes
<1>6. \A r \in Runs : Stands(runs[r])'
  BY <1>3 DEF MemoryInv, Stands
<1> QED
  BY <1>4, <1>5, <1>6 DEF MemoryInv

-----------------------------------------------------------------------------
(* The runs' steps                                                         *)

(* A run keeps its fields and its snapshot, whatever it goes through.      *)
Same(run, before) == DOMAIN run = DOMAIN NoRun /\ run.snapshot = before.snapshot

LEMMA SameRun ==
  ASSUME NEW run, DOMAIN run = DOMAIN NoRun
  PROVE  /\ \A types : Same(AppendEvents(run, types), run)
         /\ \A status, types : Same(Finish(run, status, types), run)
         /\ \A n : Same(RunFrom(run, n), run)
<1>1. DOMAIN run = {"status", "flow", "at", "cancelRequested", "timedOut", "events", "snapshot"}
  BY DEF NoRun
<1>2. ASSUME NEW types PROVE Same(AppendEvents(run, types), run)
  BY <1>1 DEF Same, AppendEvents
<1>3. ASSUME NEW status, NEW types PROVE Same(Finish(run, status, types), run)
  BY <1>1 DEF Same, AppendEvents, Finish
<1>4. ASSUME NEW n PROVE Same(RunFrom(run, n), run)
  <2>1. ASSUME NEW types, NEW at PROVE Same([AppendEvents(run, types) EXCEPT !.at = at], run)
    BY <1>1 DEF Same, AppendEvents
  <2>2. ASSUME NEW types, NEW more, NEW status PROVE Same(Finish(AppendEvents(run, types), status, more), run)
    BY <1>1 DEF Same, AppendEvents, Finish
  <2> QED
    BY <2>1, <2>2, Zenon DEF RunFrom
<1> QED
  BY <1>2, <1>3, <1>4

LEMMA SameStands ==
  ASSUME NEW run, NEW before, Stands(before), Same(run, before)
  PROVE  Stands(run)
BY DEF Stands, Same

LEMMA CreateStep ==
  ASSUME MemoryInv, NEW r \in Runs, NEW w, NEW key, CreateRun(r, w, key)
  PROVE  MemoryInv'
<1> DEFINE new == [NoRun EXCEPT !.status = "running", !.flow = w, !.events = <<"run.started">>, !.snapshot = Snapshot]
<1>1. DOMAIN new = DOMAIN NoRun /\ new.snapshot = Snapshot
  BY DEF NoRun
<1>2. ASSUME NEW p \in DOMAIN Snapshot PROVE p \in Paths /\ Marks(files[p], Snapshot[p])
  <2>1. p \in Paths /\ files[p] # <<>>
    BY <1>2 DEF Snapshot, LivePaths, IsLive
  <2>2. files[p] \in Seq(Entries) /\ Increasing(files[p])
    BY <2>1 DEF MemoryInv, MemoryTypes
  <2>3. Snapshot[p] = [version |-> LastOf(files[p]).version, content |-> LastOf(files[p]).content]
    BY <1>2 DEF Snapshot
  <2> QED
    BY <2>1, <2>2, <2>3, LastMarks
<1>3. Stands(new)
  BY <1>1, <1>2 DEF Stands
<1> HIDE DEF new
<1>4. Stands(RunFrom(new, 1))
  BY <1>1, <1>3, SameRun, SameStands
<1>5. runs' = [runs EXCEPT ![r] = RunFrom(new, 1)] /\ UNCHANGED workspace
  BY DEF CreateRun, new
<1> QED
  BY <1>4, <1>5, RunStep

LEMMA SleepSteps ==
  ASSUME MemoryInv, NEW r \in Runs, Wake(r) \/ Deadline(r) \/ CancelRun(r)
  PROVE  MemoryInv'
<1> DEFINE run == runs[r]
<1>1. Stands(run) /\ DOMAIN run = DOMAIN NoRun
  BY DEF MemoryInv, Stands
<1>2. /\ Same([run EXCEPT !.at = 0], run)
      /\ Same([run EXCEPT !.timedOut = TRUE, !.at = 0], run)
      /\ Same([run EXCEPT !.cancelRequested = TRUE, !.at = 0], run)
  <2> HIDE DEF run
  <2> QED
    BY <1>1 DEF Same, NoRun
<1>3. CASE Wake(r)
  <2> DEFINE awake == AppendEvents([run EXCEPT !.at = 0], <<"node.completed">>)
  <2>1. Same(awake, run)
    BY <1>2, SameRun DEF Same
  <2>2. Stands(RunFrom(awake, run.at + 1))
    <3> HIDE DEF awake, run
    <3> QED
      BY <1>1, <2>1, SameRun, SameStands DEF Same
  <2>3. runs' = [runs EXCEPT ![r] = RunFrom(awake, run.at + 1)] /\ UNCHANGED workspace
    BY <1>3 DEF Wake
  <2> QED
    BY <2>2, <2>3, RunStep
<1>4. CASE Deadline(r)
  <2> DEFINE late == AppendEvents([run EXCEPT !.timedOut = TRUE, !.at = 0], <<"node.failed">>)
  <2>1. Same(late, run)
    BY <1>2, SameRun DEF Same
  <2>2. Stands(FailRunDuration(late))
    <3> HIDE DEF late, run
    <3> QED
      BY <1>1, <2>1, SameRun, SameStands DEF Same, FailRunDuration
  <2>3. runs' = [runs EXCEPT ![r] = FailRunDuration(late)] /\ UNCHANGED workspace
    BY <1>4 DEF Deadline
  <2> QED
    BY <2>2, <2>3, RunStep
<1>5. CASE CancelRun(r)
  <2> DEFINE asked == [run EXCEPT !.cancelRequested = TRUE, !.at = 0]
             ended == Finish(asked, "cancelled", <<"node.cancelled", "run.cancelled">>)
  <2>1. Stands(ended)
    <3>1. Same(asked, run)
      BY <1>2
    <3> HIDE DEF asked, run
    <3> QED
      BY <1>1, <3>1, SameRun, SameStands DEF Same
  <2>2. runs' = [runs EXCEPT ![r] = ended] /\ UNCHANGED workspace
    BY <1>5 DEF CancelRun
  <2> QED
    BY <2>1, <2>2, RunStep
<1> QED
  BY <1>3, <1>4, <1>5

-----------------------------------------------------------------------------
LEMMA MemoryStep == MemoryInv /\ [MemoryNext]_memoryVars => MemoryInv'
<1> SUFFICES ASSUME MemoryInv, [MemoryNext]_memoryVars PROVE MemoryInv'
  OBVIOUS
<1>1. CASE \E p \in Paths : Put(p, TRUE) \/ Put(p, FALSE) \/ Delete(p) \/ Get(p)
  BY <1>1, PutStep, DeleteStep, GetStep
<1>2. CASE Distill
  <2>1. IndexPath \in Paths
    BY InMemoryAssumption
  <2> QED
    BY <1>2, <2>1, PutStep DEF Distill
<1>3. CASE \E r \in Runs : Wake(r) \/ Deadline(r) \/ CancelRun(r)
  BY <1>3, SleepSteps
<1>4. CASE \E r \in Runs, w \in DOMAIN Workflows, key \in Keys \cup {"none"} : CreateRun(r, w, key)
  BY <1>4, CreateStep
<1>5. CASE UNCHANGED <<files, writes, seen, runs>>
  BY <1>5 DEF MemoryInv, MemoryTypes, Stands
<1>6. CASE \E key \in Keys : Prune(key)
  BY <1>5, <1>6 DEF Prune, workspace
<1>7. CASE UNCHANGED memoryVars
  BY <1>5, <1>7 DEF memoryVars
<1> QED
  BY <1>1, <1>2, <1>3, <1>4, <1>6, <1>7 DEF MemoryNext

(* Versions only increase, and what was noted of a version stays true of   *)
(* it: the induction both theorems rest on.                                *)
THEOREM MemoryHolds == MemorySpec => []MemoryInv
BY MemoryStart, MemoryStep, PTL DEF MemorySpec

(* A run's snapshot stands: each version it names still has the content it *)
(* had when the run started, or none.                                      *)
THEOREM SnapshotsHold == MemorySpec => []SnapshotStands
<1>1. MemoryInv => SnapshotStands
  BY DEF MemoryInv, Stands, Marks, SnapshotStands, GetVersion
<1> QED
  BY <1>1, MemoryHolds, PTL

(* A write with If-Match replaces exactly what its editor read.            *)
LEMMA ConditionalStep ==
  ASSUME MemoryInv, MemoryNext, NEW p \in Paths, files'[p] # files[p], edit'.conditional
  PROVE  IsLive(files[p]) /\ LastOf(files[p]).content = edit'.content
<1>1. files \in [Paths -> Seq(Entries)]
  BY DEF MemoryInv, MemoryTypes
<1>2. \E q \in Paths : Put(q, TRUE)
  <2>1. ASSUME NEW q \in Paths PROVE ~Put(q, FALSE) /\ ~Delete(q) /\ ~Get(q)
    BY DEF Put, Delete, Get
  <2>2. ~Distill
    BY <2>1, InMemoryAssumption DEF Distill
  <2>3. files' # files
    OBVIOUS
  <2>4. ~(\E r \in Runs : Wake(r) \/ Deadline(r) \/ CancelRun(r)) /\ ~(\E key \in Keys : Prune(key))
    BY <2>3 DEF Wake, Deadline, CancelRun, Prune, workspace
  <2>5. ~(\E r \in Runs, w \in DOMAIN Workflows, key \in Keys \cup {"none"} : CreateRun(r, w, key))
    BY <2>3 DEF CreateRun, workspace
  <2> QED
    BY <2>1, <2>2, <2>4, <2>5 DEF MemoryNext
<1>3. PICK q \in Paths : Put(q, TRUE)
  BY <1>2
<1>4. q = p
  BY <1>1, <1>3 DEF Put
<1>5. IsLive(files[p]) /\ LastOf(files[p]).version = seen[p].version /\ edit'.content = seen[p].content
  BY <1>3, <1>4 DEF Put, IfMatch
<1>6. Len(files[p]) \in DOMAIN files[p]
  BY <1>1, <1>5 DEF IsLive
<1>7. Marks(files[p], seen[p])
  BY DEF MemoryInv
<1> QED
  BY <1>5, <1>6, <1>7 DEF Marks, LastOf

(* No lost update, however often the file was deleted and made again.      *)
THEOREM UpdatesHold == MemorySpec => NoLostUpdate
<1>1. ASSUME MemoryInv, [MemoryNext]_memoryVars
      PROVE  [\A p \in Paths : files'[p] # files[p] /\ edit'.conditional =>
                IsLive(files[p]) /\ LastOf(files[p]).content = edit'.content]_memoryVars
  BY <1>1, ConditionalStep
<1> QED
  BY <1>1, MemoryHolds, PTL DEF MemorySpec, NoLostUpdate

---------------------------------------------------------------------------
(***************************************************************************)
(* Tasks.  An image of the database fits when the answers of each run are    *)
(* of different interrupts, none of one that is open, and a run that is over *)
(* has none open; the process fits when what it holds of a run is of a run   *)
(* there is, and its push config was told of a run that is over.             *)
(***************************************************************************)

Answerers == Messages \cup {"token", "key", "page"}

AnswerRecords == [interrupt : Nat, named : Nat, by : Answerers]

TaskStatuses == {"pending", "running", "cancelling", "waiting"} \cup Ends

TaskRecords ==
  [status : TaskStatuses, task : BOOLEAN, history : Seq(Messages), opened : Nat,
   kind : Kinds \cup {"none"}, open : BOOLEAN, claimed : BOOLEAN, answers : Seq(AnswerRecords)]

Stores == [runs : Seq(TaskRecords), recorded : [Messages -> Nat], spent : SUBSET Nat, pages : SUBSET Nat]

Fits(run) ==
  /\ run \in TaskRecords
  /\ run.status \in Ends => ~run.open
  /\ \A i \in DOMAIN run.answers :
       /\ run.answers[i].interrupt <= run.opened
       /\ run.open => run.answers[i].interrupt # run.opened
       /\ run.answers[i].named \in {0, run.answers[i].interrupt}
       /\ \A j \in DOMAIN run.answers : i # j => run.answers[i].interrupt # run.answers[j].interrupt

StoreFits(s) ==
  /\ s \in Stores
  /\ \A r \in DOMAIN s.runs : Fits(s.runs[r])
  /\ \A m \in Messages : s.recorded[m] \in 0..Len(s.runs)

\* A message that answered is recorded, and answered once.
Once(s) ==
  \A q, r \in DOMAIN s.runs : \A i \in DOMAIN s.runs[q].answers, j \in DOMAIN s.runs[r].answers :
    s.runs[q].answers[i].by \in Messages =>
      /\ s.recorded[s.runs[q].answers[i].by] # 0
      /\ <<q, i>> # <<r, j>> => s.runs[q].answers[i].by # s.runs[r].answers[j].by

PushStates == {"none", "submitted", "working", "auth required", "input required"} \cup Ends

CallRecords == [at : {"free", "a2a", "tool", "task", "page"}, run : Nat, interrupt : Nat, owns : BOOLEAN]

Heaps ==
  [loops : SUBSET Nat, calls : [Callers -> CallRecords],
   config : [run : Nat, held : BOOLEAN, last : PushStates], told : BOOLEAN]

\* The end of a run was pushed, or is about to be.
Pushed(s, h) ==
  LET c == h.config
  IN  /\ h.told \/ c.held => c.run # 0
      /\ c.run # 0 =>
           /\ c.run \in DOMAIN s.runs
           /\ c.held => (s.runs[c.run].status \in Ends => h.told)
           /\ ~c.held => s.runs[c.run].status \in Ends /\ c.last = s.runs[c.run].status

HeapFits(s, h) ==
  /\ h \in Heaps
  /\ \A c \in Callers : h.calls[c].at # "free" => h.calls[c].run \in DOMAIN s.runs
  /\ Pushed(s, h)

TokenRecords == [n : Nat, run : Nat, interrupt : Nat, good : BOOLEAN]

TokensFit(s, tokens) ==
  tokens \in SUBSET TokenRecords /\ IsFiniteSet(tokens) /\ \A token \in tokens : token.run \in DOMAIN s.runs

TasksInv ==
  /\ StoreFits(store) /\ HeapFits(store, heap) /\ TokensFit(store, handed)
  /\ kills \in Nat /\ (kills = 0 => Once(store))

---------------------------------------------------------------------------
(* Images *)

\* One run of an image is written.
LEMMA RunWritten ==
  ASSUME NEW s, StoreFits(s), NEW r \in DOMAIN s.runs, NEW run, Fits(run),
         NEW t, t = [s EXCEPT !.runs = [s.runs EXCEPT ![r] = run]]
  PROVE  /\ StoreFits(t) /\ Len(t.runs) = Len(s.runs) /\ DOMAIN t.runs = DOMAIN s.runs
         /\ t.runs[r] = run /\ \A q \in DOMAIN s.runs : q # r => t.runs[q] = s.runs[q]
         /\ t.recorded = s.recorded
<1>1. s.runs \in Seq(TaskRecords) /\ s.recorded \in [Messages -> Nat] /\ s.spent \in SUBSET Nat /\ s.pages \in SUBSET Nat
  BY DEF StoreFits, Stores
<1>2. run \in TaskRecords
  BY DEF Fits
<1>3. t = [runs |-> [s.runs EXCEPT ![r] = run], recorded |-> s.recorded, spent |-> s.spent, pages |-> s.pages]
  BY DEF StoreFits, Stores
<1>4. t.runs \in Seq(TaskRecords) /\ Len(t.runs) = Len(s.runs) /\ DOMAIN t.runs = DOMAIN s.runs
  BY <1>1, <1>2, <1>3, ExceptSeq
<1>5. t.runs[r] = run /\ \A q \in DOMAIN s.runs : q # r => t.runs[q] = s.runs[q]
  BY <1>1, <1>3
<1>6. t \in Stores
  BY <1>1, <1>3, <1>4 DEF Stores
<1>7. t.recorded = s.recorded
  BY <1>3
<1> QED BY <1>4, <1>5, <1>6, <1>7 DEF StoreFits

\* What statements write of a run.
LEMMA StatusFits ==
  ASSUME NEW run, Fits(run), NEW status \in TaskStatuses, status \in Ends => ~run.open
  PROVE  Fits([run EXCEPT !.status = status]) /\ Fits([run EXCEPT !.claimed = FALSE, !.status = status])
  BY DEF Fits, TaskRecords

LEMMA ShutFits ==
  ASSUME NEW run, Fits(run)
  PROVE  Fits([run EXCEPT !.open = FALSE])
  BY DEF Fits, TaskRecords

LEMMA HistoryFits ==
  ASSUME NEW run, Fits(run), NEW m \in Messages
  PROVE  Fits([run EXCEPT !.history = Append(@, m)]) /\ Fits([run EXCEPT !.task = TRUE])
<1>1. Append(run.history, m) \in Seq(Messages)
  BY DEF Fits, TaskRecords
<1> DEFINE history == Append(run.history, m)
<1> HIDE DEF history
<1>2. Fits([run EXCEPT !.history = history])
  BY <1>1 DEF Fits, TaskRecords, history
<1>3. Fits([run EXCEPT !.task = TRUE])
  BY DEF Fits, TaskRecords
<1> QED BY <1>2, <1>3 DEF history

LEMMA AcceptedFits == Fits(Accepted)
  BY DEF Fits, TaskRecords, Accepted, TaskStatuses, AnswerRecords

LEMMA MintedFits ==
  ASSUME NEW run, Fits(run), ~run.open, run.status = "running", NEW kind \in Kinds
  PROVE  Fits([run EXCEPT !.opened = @ + 1, !.kind = kind, !.open = TRUE])
<1> DEFINE minted == [run EXCEPT !.opened = @ + 1, !.kind = kind, !.open = TRUE]
<1>1. run.opened \in Nat /\ run.answers \in Seq(AnswerRecords)
  BY DEF Fits, TaskRecords
<1>2. \A i \in DOMAIN run.answers : run.answers[i].interrupt \in Nat
  <2> SUFFICES ASSUME NEW i \in DOMAIN run.answers PROVE run.answers[i].interrupt \in Nat
    OBVIOUS
  <2>1. run.answers[i] \in AnswerRecords
    BY <1>1
  <2> QED BY <2>1 DEF AnswerRecords
<1>3. \A i \in DOMAIN run.answers : run.answers[i].interrupt <= run.opened
  BY DEF Fits
<1>4. \A i \in DOMAIN run.answers : run.answers[i].interrupt <= run.opened + 1 /\ run.answers[i].interrupt # run.opened + 1
  BY <1>1, <1>2, <1>3
<1>5. /\ minted \in TaskRecords /\ minted.status = "running" /\ minted.opened = run.opened + 1
      /\ minted.answers = run.answers
  <2>1. run \in TaskRecords /\ run.opened + 1 \in Nat
    BY <1>1 DEF Fits
  <2> DEFINE next == run.opened + 1
  <2> HIDE DEF next
  <2>2. minted = [run EXCEPT !.opened = next, !.kind = kind, !.open = TRUE]
    BY DEF next
  <2>3. next \in Nat
    BY <2>1 DEF next
  <2> HIDE DEF minted
  <2>4. minted \in TaskRecords /\ minted.status = run.status /\ minted.opened = next /\ minted.answers = run.answers
    BY <2>1, <2>2, <2>3 DEF TaskRecords
  <2> QED BY <2>4 DEF next
<1> HIDE DEF minted
<1>6. Fits(minted)
  BY <1>4, <1>5 DEF Fits, Ends
<1> QED BY <1>6 DEF minted

LEMMA ClaimFits ==
  ASSUME NEW run, Fits(run), run.open, NEW a \in AnswerRecords, a.interrupt = run.opened, a.named \in {0, run.opened}
  PROVE  Fits([run EXCEPT !.open = FALSE, !.claimed = TRUE, !.answers = Append(@, a)])
<1> DEFINE appended == Append(run.answers, a)
           claimed == [run EXCEPT !.open = FALSE, !.claimed = TRUE, !.answers = appended]
<1>1. /\ run.opened \in Nat /\ run.answers \in Seq(AnswerRecords)
      /\ appended \in Seq(AnswerRecords) /\ Len(appended) = Len(run.answers) + 1
      /\ appended[Len(appended)] = a /\ \A i \in 1..Len(run.answers) : appended[i] = run.answers[i]
  BY DEF Fits, TaskRecords
<1> HIDE DEF appended
<1>2. claimed \in TaskRecords /\ ~claimed.open /\ claimed.answers = appended /\ claimed.opened = run.opened
  BY <1>1 DEF Fits, TaskRecords
<1>3. DOMAIN appended = 1..Len(run.answers) + 1 /\ DOMAIN run.answers = 1..Len(run.answers) /\ Len(run.answers) \in Nat
  BY <1>1
<1>4. \A i \in DOMAIN appended : appended[i].interrupt <= run.opened /\ appended[i].named \in {0, appended[i].interrupt}
  BY <1>1, <1>3 DEF Fits
<1>5. \A i, j \in DOMAIN appended : i # j => appended[i].interrupt # appended[j].interrupt
  <2> TAKE i, j \in DOMAIN appended
  <2>1. \A k \in DOMAIN run.answers : run.answers[k].interrupt # run.opened
    BY DEF Fits
  <2>2. \A k \in DOMAIN appended : k \in DOMAIN run.answers \/ k = Len(appended)
    BY <1>1, <1>3
  <2>3. \A k \in DOMAIN run.answers : appended[k] = run.answers[k]
    BY <1>1, <1>3
  <2>4. CASE i \in DOMAIN run.answers /\ j \in DOMAIN run.answers
    BY <2>3, <2>4 DEF Fits
  <2>5. CASE ~(i \in DOMAIN run.answers /\ j \in DOMAIN run.answers)
    BY <1>1, <2>1, <2>2, <2>3, <2>5
  <2> QED BY <2>4, <2>5
<1> HIDE DEF claimed
<1>6. Fits(claimed)
  BY <1>2, <1>4, <1>5 DEF Fits
<1> QED BY <1>6 DEF claimed, appended

---------------------------------------------------------------------------
(* Sequences of images *)

\* Only run r was written.
Wrote(s, t, r) ==
  /\ StoreFits(t) /\ Len(t.runs) = Len(s.runs) /\ DOMAIN t.runs = DOMAIN s.runs /\ t.recorded = s.recorded
  /\ \A q \in DOMAIN s.runs : q # r => t.runs[q] = s.runs[q]

\* Images that fit, of no fewer runs than n.
Images(imgs, n) ==
  /\ imgs \in Seq(Stores) /\ imgs # <<>>
  /\ \A i \in DOMAIN imgs : StoreFits(imgs[i]) /\ n <= Len(imgs[i].runs)

LEMMA OneImage ==
  ASSUME NEW s, StoreFits(s), NEW n, n <= Len(s.runs)
  PROVE  Images(<<s>>, n) /\ LastImage(<<s>>) = s
  BY DEF Images, LastImage, StoreFits

LEMMA TwoImages ==
  ASSUME NEW s, StoreFits(s), NEW t, StoreFits(t), NEW n, n <= Len(s.runs), n <= Len(t.runs)
  PROVE  Images(<<s, t>>, n) /\ LastImage(<<s, t>>) = t
  BY DEF Images, LastImage, StoreFits

LEMMA JoinImages ==
  ASSUME NEW n, NEW first, NEW second, Images(first, n), Images(second, n)
  PROVE  Images(first \o second, n) /\ LastImage(first \o second) = LastImage(second)
<1> DEFINE both == first \o second
<1>1. /\ first \in Seq(Stores) /\ second \in Seq(Stores) /\ second # <<>> /\ both \in Seq(Stores)
      /\ Len(both) = Len(first) + Len(second) /\ Len(first) \in Nat /\ Len(second) \in Nat
      /\ \A i \in 1..Len(both) : both[i] = IF i <= Len(first) THEN first[i] ELSE second[i - Len(first)]
  BY DEF Images
<1>2. Len(second) > 0 /\ both # <<>>
  BY <1>1
<1>3. \A i \in DOMAIN both : both[i] \in {first[j] : j \in DOMAIN first} \cup {second[j] : j \in DOMAIN second}
  <2> TAKE i \in DOMAIN both
  <2>1. i \in 1..Len(both)
    BY <1>1
  <2>2. CASE i <= Len(first)
    BY <1>1, <2>1, <2>2
  <2>3. CASE ~(i <= Len(first))
    <3>1. i - Len(first) \in DOMAIN second /\ both[i] = second[i - Len(first)]
      BY <1>1, <2>1, <2>3
    <3> QED BY <3>1
  <2> QED BY <2>2, <2>3
<1>4. both[Len(both)] = second[Len(second)]
  BY <1>1, <1>2
<1> HIDE DEF both
<1>5. Images(both, n)
  BY <1>1, <1>2, <1>3 DEF Images
<1>6. LastImage(both) = LastImage(second)
  BY <1>4 DEF LastImage
<1> QED BY <1>5, <1>6 DEF both

\* What Resolve leaves of the answers: the one it takes, if it decides.
Answered(s, t, r, by) ==
  \/ t.runs[r].answers = s.runs[r].answers
  \/ \E a \in AnswerRecords : a.by = by /\ t.runs[r].answers = Append(s.runs[r].answers, a)

LEMMA ResolveImages ==
  ASSUME NEW s, StoreFits(s), NEW r \in DOMAIN s.runs, s.runs[r].open, NEW to \in Results, NEW by \in Answerers,
         NEW named \in {0, s.runs[r].opened}
  PROVE  LET imgs == Resolve(s, r, named, by, to)
             t == LastImage(imgs)
         IN  /\ Images(imgs, Len(s.runs)) /\ Wrote(s, t, r) /\ Answered(s, t, r, by)
             /\ t.runs[r].status = IF to = "undecided" THEN s.runs[r].status ELSE to
<1> DEFINE run == s.runs[r]
           a == [interrupt |-> run.opened, named |-> named, by |-> by]
           taken == [run EXCEPT !.open = FALSE, !.claimed = TRUE, !.answers = Append(@, a)]
           decided == [taken EXCEPT !.claimed = FALSE, !.status = to]
           claimed == [s EXCEPT !.runs[r].open = FALSE, !.runs[r].claimed = TRUE, !.runs[r].answers = Append(@, a)]
           done == [claimed EXCEPT !.runs[r].claimed = FALSE, !.runs[r].status = to]
<1>1. /\ s.runs \in Seq(TaskRecords) /\ Len(s.runs) \in Nat /\ Fits(run) /\ run \in TaskRecords
      /\ s = [runs |-> s.runs, recorded |-> s.recorded, spent |-> s.spent, pages |-> s.pages]
  BY DEF StoreFits, Stores, Fits
<1>2. CASE to = "undecided"
  <2>1. Resolve(s, r, named, by, to) = <<s>>
    BY <1>2 DEF Resolve
  <2>2. Wrote(s, s, r) /\ Answered(s, s, r, by)
    BY DEF Wrote, Answered
  <2> QED BY <1>1, <1>2, <2>1, <2>2, OneImage
<1>3. CASE to # "undecided"
  <2>1. a \in AnswerRecords /\ a.interrupt = run.opened /\ a.named \in {0, run.opened} /\ a.by = by
    <3>1. run.opened \in Nat
      BY <1>1 DEF TaskRecords
    <3> QED BY <3>1 DEF AnswerRecords
  <2> HIDE DEF a
  <2>2. Fits(taken)
    BY <1>1, <2>1, ClaimFits
  <2>3. claimed = [s EXCEPT !.runs = [s.runs EXCEPT ![r] = taken]]
    BY <1>1 DEF TaskRecords
  <2>4. taken.answers = Append(run.answers, a) /\ taken.open = FALSE
    BY <1>1 DEF TaskRecords
  <2> HIDE DEF taken, claimed, run
  <2>5. Wrote(s, claimed, r) /\ claimed.runs[r] = taken
    BY <2>2, <2>3, RunWritten DEF Wrote
  <2>6. to \in TaskStatuses
    BY <1>3 DEF Results, TaskStatuses, Ends
  <2>7. Fits(decided)
    BY <2>2, <2>4, <2>6, StatusFits
  <2>8. done = [claimed EXCEPT !.runs = [claimed.runs EXCEPT ![r] = decided]]
    <3>1. claimed.runs[r] \in TaskRecords /\ claimed.runs \in Seq(TaskRecords) /\ r \in DOMAIN claimed.runs
          /\ claimed = [runs |-> claimed.runs, recorded |-> claimed.recorded, spent |-> claimed.spent, pages |-> claimed.pages]
      BY <2>2, <2>5 DEF Wrote, StoreFits, Stores, Fits
    <3> QED BY <2>5, <3>1 DEF TaskRecords
  <2>9. decided.status = to /\ decided.answers = taken.answers
    BY <2>2 DEF Fits, TaskRecords
  <2> HIDE DEF decided, done
  <2>10. Wrote(claimed, done, r) /\ done.runs[r] = decided
    BY <2>5, <2>7, <2>8, RunWritten DEF Wrote
  <2>11. Resolve(s, r, named, by, to) = <<claimed, done>>
    BY <1>3 DEF Resolve, claimed, done, a, run
  <2>12. Wrote(s, done, r)
    BY <2>5, <2>10 DEF Wrote
  <2>13. Answered(s, done, r, by)
    BY <2>1, <2>4, <2>9, <2>10 DEF Answered, run
  <2>14. Images(<<claimed, done>>, Len(s.runs)) /\ LastImage(<<claimed, done>>) = done
    BY <1>1, <2>5, <2>10, TwoImages DEF Wrote
  <2> QED BY <1>3, <2>9, <2>10, <2>11, <2>12, <2>13, <2>14
<1> QED BY <1>2, <1>3

LEMMA EndImages ==
  ASSUME NEW s, StoreFits(s), NEW r \in DOMAIN s.runs, NEW status \in Ends
  PROVE  LET imgs == End(s, r, status)
             t == LastImage(imgs)
         IN  /\ Images(imgs, Len(s.runs)) /\ Wrote(s, t, r)
             /\ t.runs[r].answers = s.runs[r].answers /\ t.runs[r].status = status
<1> DEFINE run == s.runs[r]
           shut == [run EXCEPT !.open = FALSE]
           over == [shut EXCEPT !.status = status]
           d1 == [s EXCEPT !.runs[r].open = FALSE]
           d2 == [s EXCEPT !.runs[r].open = FALSE, !.runs[r].status = status]
<1>1. /\ s.runs \in Seq(TaskRecords) /\ Len(s.runs) \in Nat /\ Fits(run) /\ run \in TaskRecords
      /\ s = [runs |-> s.runs, recorded |-> s.recorded, spent |-> s.spent, pages |-> s.pages]
  BY DEF StoreFits, Stores, Fits
<1>2. Fits(shut) /\ shut.open = FALSE /\ shut.answers = run.answers
  BY <1>1, ShutFits DEF TaskRecords
<1>3. Fits(over) /\ over.status = status /\ over.answers = run.answers
  <2>1. status \in TaskStatuses
    BY DEF TaskStatuses
  <2>2. Fits(over)
    BY <1>2, <2>1, StatusFits
  <2> QED BY <1>1, <2>2 DEF TaskRecords
<1>4. d1 = [s EXCEPT !.runs = [s.runs EXCEPT ![r] = shut]] /\ d2 = [s EXCEPT !.runs = [s.runs EXCEPT ![r] = over]]
  BY <1>1 DEF TaskRecords
<1>5. End(s, r, status) = <<d1, d2>>
  BY DEF End
<1> HIDE DEF d1, d2, shut, over, run
<1>6. Wrote(s, d1, r) /\ Wrote(s, d2, r) /\ d2.runs[r] = over
  BY <1>2, <1>3, <1>4, RunWritten DEF Wrote
<1>7. Images(<<d1, d2>>, Len(s.runs)) /\ LastImage(<<d1, d2>>) = d2
  BY <1>1, <1>6, TwoImages DEF Wrote
<1> QED BY <1>3, <1>5, <1>6, <1>7 DEF run

LEMMA StatusImage ==
  ASSUME NEW s, StoreFits(s), NEW r \in DOMAIN s.runs, NEW status \in TaskStatuses \ Ends
  PROVE  LET t == [s EXCEPT !.runs[r].status = status]
         IN  Wrote(s, t, r) /\ t.runs[r].answers = s.runs[r].answers /\ t.runs[r].status = status
<1> DEFINE run == s.runs[r]
           set == [run EXCEPT !.status = status]
           t == [s EXCEPT !.runs[r].status = status]
<1>1. Fits(run) /\ run \in TaskRecords
  BY DEF StoreFits, Fits
<1>2. Fits(set) /\ set.status = status /\ set.answers = run.answers
  BY <1>1, StatusFits DEF TaskRecords
<1>3. t = [s EXCEPT !.runs = [s.runs EXCEPT ![r] = set]]
  BY <1>1 DEF StoreFits, Stores
<1> HIDE DEF t, set, run
<1>4. Wrote(s, t, r) /\ t.runs[r] = set
  BY <1>2, <1>3, RunWritten DEF Wrote
<1> QED BY <1>2, <1>4 DEF t, run

\* A run is accepted.
LEMMA AcceptImage ==
  ASSUME NEW s, StoreFits(s)
  PROVE  LET t == Accept(s)
             r == Len(s.runs) + 1
         IN  /\ StoreFits(t) /\ Len(t.runs) = r /\ r \in Nat /\ DOMAIN t.runs = 1..r /\ DOMAIN s.runs = 1..r - 1
             /\ t.runs[r] = Accepted /\ t.recorded = s.recorded
             /\ \A q \in DOMAIN s.runs : t.runs[q] = s.runs[q]
<1> DEFINE t == Accept(s)
           more == Append(s.runs, Accepted)
<1>1. Accepted \in TaskRecords
  BY AcceptedFits DEF Fits
<1>2. /\ s.runs \in Seq(TaskRecords) /\ Len(s.runs) \in Nat /\ s.recorded \in [Messages -> Nat]
      /\ s.spent \in SUBSET Nat /\ s.pages \in SUBSET Nat /\ DOMAIN s.runs = 1..Len(s.runs)
  BY DEF StoreFits, Stores
<1>3. /\ more \in Seq(TaskRecords) /\ Len(more) = Len(s.runs) + 1 /\ DOMAIN more = 1..Len(s.runs) + 1
      /\ more[Len(s.runs) + 1] = Accepted /\ \A q \in 1..Len(s.runs) : more[q] = s.runs[q]
  BY <1>1, <1>2
<1>4. t = [runs |-> more, recorded |-> s.recorded, spent |-> s.spent, pages |-> s.pages]
  <2>1. s = [runs |-> s.runs, recorded |-> s.recorded, spent |-> s.spent, pages |-> s.pages]
    BY DEF StoreFits, Stores
  <2>2. t = [s EXCEPT !.runs = more]
    BY DEF Accept
  <2> HIDE DEF t, more
  <2> QED BY <2>1, <2>2
<1> HIDE DEF more, t
<1>5. t.runs = more /\ t.recorded = s.recorded /\ t \in Stores
  BY <1>2, <1>3, <1>4 DEF Stores
<1>6. \A q \in DOMAIN more : Fits(more[q])
  BY <1>2, <1>3, AcceptedFits DEF StoreFits
<1>7. \A m \in Messages : s.recorded[m] \in 0..Len(more)
  BY <1>2, <1>3 DEF StoreFits
<1> QED BY <1>2, <1>3, <1>5, <1>6, <1>7 DEF StoreFits, t

\* Run r is as it was for its answers and its status.
Alike(s, t, r) == t.runs[r].answers = s.runs[r].answers /\ t.runs[r].status = s.runs[r].status

LEMMA HistoryImage ==
  ASSUME NEW s, StoreFits(s), NEW r \in DOMAIN s.runs, NEW m \in Messages
  PROVE  Wrote(s, AppendHistory(s, r, m), r) /\ Alike(s, AppendHistory(s, r, m), r)
<1> DEFINE run == s.runs[r]
           longer == [run EXCEPT !.history = Append(@, m)]
           t == [s EXCEPT !.runs[r].history = Append(@, m)]
<1>1. Fits(run) /\ run \in TaskRecords
  BY DEF StoreFits, Fits
<1>2. Fits(longer) /\ longer.answers = run.answers /\ longer.status = run.status
  BY <1>1, HistoryFits DEF TaskRecords
<1>3. t = [s EXCEPT !.runs = [s.runs EXCEPT ![r] = longer]]
  BY <1>1 DEF StoreFits, Stores
<1>4. AppendHistory(s, r, m) = s \/ AppendHistory(s, r, m) = t
  BY DEF AppendHistory
<1> HIDE DEF t, longer, run
<1>5. Wrote(s, t, r) /\ t.runs[r] = longer
  BY <1>2, <1>3, RunWritten DEF Wrote
<1>6. Wrote(s, s, r) /\ Alike(s, s, r)
  BY DEF Wrote, Alike
<1> QED BY <1>2, <1>4, <1>5, <1>6 DEF Alike, run

LEMMA TaskImage ==
  ASSUME NEW s, StoreFits(s), NEW r \in DOMAIN s.runs
  PROVE  LET t == [s EXCEPT !.runs[r].task = TRUE] IN Wrote(s, t, r) /\ Alike(s, t, r)
<1> DEFINE run == s.runs[r]
           task == [run EXCEPT !.task = TRUE]
           t == [s EXCEPT !.runs[r].task = TRUE]
<1>1. Fits(run) /\ run \in TaskRecords
  BY DEF StoreFits, Fits
<1>2. Fits(task) /\ task.answers = run.answers /\ task.status = run.status
  BY <1>1 DEF Fits, TaskRecords
<1>3. t = [s EXCEPT !.runs = [s.runs EXCEPT ![r] = task]]
  BY <1>1 DEF StoreFits, Stores
<1> HIDE DEF t, task, run
<1>4. Wrote(s, t, r) /\ t.runs[r] = task
  BY <1>2, <1>3, RunWritten DEF Wrote
<1> QED BY <1>2, <1>4 DEF Alike, t, run

LEMMA MintImage ==
  ASSUME NEW s, StoreFits(s), NEW r \in DOMAIN s.runs, ~s.runs[r].open, s.runs[r].status = "running", NEW kind \in Kinds
  PROVE  LET t == [s EXCEPT !.runs[r].opened = @ + 1, !.runs[r].kind = kind, !.runs[r].open = TRUE]
         IN  Wrote(s, t, r) /\ Alike(s, t, r)
<1> DEFINE run == s.runs[r]
           minted == [run EXCEPT !.opened = @ + 1, !.kind = kind, !.open = TRUE]
           t == [s EXCEPT !.runs[r].opened = @ + 1, !.runs[r].kind = kind, !.runs[r].open = TRUE]
<1>1. Fits(run) /\ run \in TaskRecords
  BY DEF StoreFits, Fits
<1>2. Fits(minted) /\ minted.answers = run.answers /\ minted.status = run.status
  BY <1>1, MintedFits DEF TaskRecords
<1>3. t = [s EXCEPT !.runs = [s.runs EXCEPT ![r] = minted]]
  BY <1>1 DEF StoreFits, Stores, TaskRecords
<1> HIDE DEF t, minted, run
<1>4. Wrote(s, t, r) /\ t.runs[r] = minted
  BY <1>2, <1>3, RunWritten DEF Wrote
<1> QED BY <1>2, <1>4 DEF Alike, t, run

\* The other tables.
LEMMA RecordImage ==
  ASSUME NEW s, StoreFits(s), NEW r \in DOMAIN s.runs, NEW m \in Messages
  PROVE  LET t == Record(s, r, m)
         IN  /\ StoreFits(t) /\ t.runs = s.runs /\ t.recorded[m] = r
             /\ \A n \in Messages : n # m => t.recorded[n] = s.recorded[n]
<1>1. r \in 1..Len(s.runs) /\ Len(s.runs) \in Nat
  BY DEF StoreFits, Stores
<1> DEFINE t == Record(s, r, m)
           recorded == [s.recorded EXCEPT ![m] = r]
<1>2. /\ recorded \in [Messages -> Nat] /\ recorded[m] = r /\ \A n \in Messages : n # m => recorded[n] = s.recorded[n]
      /\ \A n \in Messages : recorded[n] \in 0..Len(s.runs)
  BY <1>1 DEF StoreFits, Stores
<1>3. s = [runs |-> s.runs, recorded |-> s.recorded, spent |-> s.spent, pages |-> s.pages]
  BY DEF StoreFits, Stores
<1>4. t = [s EXCEPT !.recorded = recorded]
  BY <1>3 DEF Record
<1> HIDE DEF t, recorded
<1>5. t.runs = s.runs /\ t.recorded = recorded /\ t \in Stores
  BY <1>2, <1>3, <1>4 DEF StoreFits, Stores
<1>6. StoreFits(t)
  BY <1>2, <1>5 DEF StoreFits
<1> QED BY <1>2, <1>5, <1>6 DEF t

LEMMA OtherImages ==
  ASSUME NEW s, StoreFits(s), NEW n \in Nat
  PROVE  /\ LET t == [s EXCEPT !.spent = @ \cup {n}] IN StoreFits(t) /\ t.runs = s.runs /\ t.recorded = s.recorded
         /\ LET t == [s EXCEPT !.pages = @ \cup {n}] IN StoreFits(t) /\ t.runs = s.runs /\ t.recorded = s.recorded
  BY DEF StoreFits, Stores

---------------------------------------------------------------------------
(* Messages answer once *)

LEMMA OnceKept ==
  ASSUME NEW s, NEW t, StoreFits(s), StoreFits(t), Once(s), NEW r, NEW by,
         DOMAIN s.runs \subseteq DOMAIN t.runs,
         \A q \in DOMAIN t.runs \ DOMAIN s.runs : t.runs[q].answers = <<>>,
         \A q \in DOMAIN s.runs : q # r => t.runs[q].answers = s.runs[q].answers,
         r \in DOMAIN s.runs => Answered(s, t, r, by),
         by \in Messages => s.recorded[by] = 0 /\ t.recorded[by] # 0,
         \A m \in Messages : s.recorded[m] # 0 => t.recorded[m] # 0
  PROVE  Once(t)
<1> DEFINE Old(q, i) == /\ q \in DOMAIN s.runs /\ i \in DOMAIN s.runs[q].answers
                        /\ t.runs[q].answers[i] = s.runs[q].answers[i]
           New(q, i) == q = r /\ i = Len(t.runs[r].answers) /\ t.runs[q].answers[i].by = by
<1>1. \A q \in DOMAIN s.runs : s.runs[q].answers \in Seq(AnswerRecords)
  BY DEF StoreFits, Fits, TaskRecords
<1>2. ASSUME NEW q \in DOMAIN t.runs, NEW i \in DOMAIN t.runs[q].answers
      PROVE  Old(q, i) \/ New(q, i)
  <2>1. q \in DOMAIN s.runs
    BY <1>2
  <2>2. CASE q # r
    BY <2>1, <2>2
  <2>3. CASE q = r /\ t.runs[r].answers = s.runs[r].answers
    BY <2>1, <2>3
  <2>4. CASE q = r /\ \E a \in AnswerRecords : a.by = by /\ t.runs[r].answers = Append(s.runs[r].answers, a)
    <3>1. PICK a \in AnswerRecords : a.by = by /\ t.runs[r].answers = Append(s.runs[r].answers, a)
      BY <2>4
    <3> DEFINE before == s.runs[r].answers
    <3>2. before \in Seq(AnswerRecords) /\ t.runs[q].answers = Append(before, a) /\ q = r
      BY <1>1, <2>1, <2>4, <3>1
    <3>3. /\ i \in 1..Len(before) + 1 /\ Len(t.runs[r].answers) = Len(before) + 1 /\ DOMAIN before = 1..Len(before)
          /\ t.runs[q].answers[Len(before) + 1] = a /\ \A k \in 1..Len(before) : t.runs[q].answers[k] = before[k]
          /\ Len(before) \in Nat
      BY <1>2, <3>1, <3>2
    <3> QED BY <2>1, <3>1, <3>2, <3>3
  <2> QED BY <2>1, <2>2, <2>3, <2>4 DEF Answered
<1>3. ASSUME NEW q, NEW i, Old(q, i), t.runs[q].answers[i].by \in Messages
      PROVE  s.recorded[t.runs[q].answers[i].by] # 0
  BY <1>3 DEF Once
<1>4. ASSUME NEW q \in DOMAIN t.runs, NEW p \in DOMAIN t.runs,
             NEW i \in DOMAIN t.runs[q].answers, NEW j \in DOMAIN t.runs[p].answers, t.runs[q].answers[i].by \in Messages
      PROVE  /\ t.recorded[t.runs[q].answers[i].by] # 0
             /\ <<q, i>> # <<p, j>> => t.runs[q].answers[i].by # t.runs[p].answers[j].by
  <2> HIDE DEF Old, New
  <2>1. CASE Old(q, i) /\ Old(p, j)
    BY <1>3, <1>4, <2>1 DEF Once, Old
  <2>2. CASE Old(q, i) /\ New(p, j)
    BY <1>3, <1>4, <2>2 DEF New
  <2>3. CASE New(q, i) /\ Old(p, j)
    BY <1>3, <1>4, <2>3 DEF New
  <2>4. CASE New(q, i) /\ New(p, j)
    BY <1>4, <2>4 DEF New
  <2> QED BY <1>2, <2>1, <2>2, <2>3, <2>4
<1> QED BY <1>4 DEF Once

---------------------------------------------------------------------------
(* The process *)

\* t is a later image than s, written where only the status of run r may differ,
\* and not once r is over.
Later(s, t, r) ==
  /\ StoreFits(t) /\ Len(s.runs) <= Len(t.runs) /\ DOMAIN s.runs \subseteq DOMAIN t.runs
  /\ \A q \in DOMAIN s.runs : t.runs[q].status = s.runs[q].status \/ (q = r /\ s.runs[q].status \notin Ends)

\* Nobody has to be told when it did not end the run.
LEMMA LaterFits ==
  ASSUME NEW s, NEW h, HeapFits(s, h), NEW t, NEW r, Later(s, t, r)
  PROVE  /\ HeapFits(t, Tell(h, r))
         /\ r \in DOMAIN s.runs /\ t.runs[r].status \notin Ends => HeapFits(t, h)
         /\ (\A q \in DOMAIN s.runs : t.runs[q].status = s.runs[q].status) => HeapFits(t, h)
<1>1. h \in Heaps /\ \A c \in Callers : h.calls[c].at # "free" => h.calls[c].run \in DOMAIN t.runs
  BY DEF HeapFits, Later
<1>2. Tell(h, r) \in Heaps
  BY <1>1 DEF Tell, Heaps
<1>3. /\ Tell(h, r).calls = h.calls /\ Tell(h, r).config = h.config
      /\ Tell(h, r).told = (h.told \/ (h.config.run = r /\ h.config.held))
  BY <1>1 DEF Tell, Heaps
<1>4. h.config.held \in BOOLEAN
  BY <1>1 DEF Heaps
<1>5. Pushed(t, Tell(h, r))
  BY <1>3, <1>4 DEF HeapFits, Later, Pushed
<1>6. r \in DOMAIN s.runs /\ t.runs[r].status \notin Ends => Pushed(t, h)
  BY <1>4 DEF HeapFits, Later, Pushed
<1>7. (\A q \in DOMAIN s.runs : t.runs[q].status = s.runs[q].status) => Pushed(t, h)
  BY <1>4 DEF HeapFits, Later, Pushed
<1> QED BY <1>1, <1>2, <1>3, <1>5, <1>6, <1>7 DEF HeapFits

LEMMA LoopsFit ==
  ASSUME NEW s, NEW h, HeapFits(s, h), NEW r \in Nat
  PROVE  HeapFits(s, Schedule(h, r)) /\ HeapFits(s, Leave(h, r))
<1>1. h \in Heaps
  BY DEF HeapFits
<1>2. ASSUME NEW loops \in SUBSET Nat PROVE HeapFits(s, [h EXCEPT !.loops = loops])
  <2> DEFINE g == [h EXCEPT !.loops = loops]
  <2>1. g \in Heaps /\ g.calls = h.calls /\ g.config = h.config /\ g.told = h.told
    BY <1>1 DEF Heaps
  <2> HIDE DEF g
  <2>2. HeapFits(s, g)
    BY <2>1 DEF HeapFits, Pushed
  <2> QED BY <2>2 DEF g
<1>3. h.loops \cup {r} \in SUBSET Nat /\ h.loops \ {r} \in SUBSET Nat
  BY <1>1 DEF Heaps
<1> QED BY <1>2, <1>3 DEF Schedule, Leave

LEMMA CallsFit ==
  ASSUME NEW s, NEW h, HeapFits(s, h), NEW c \in Callers, NEW call \in CallRecords,
         call.at # "free" => call.run \in DOMAIN s.runs
  PROVE  HeapFits(s, Blocked(h, c, call))
<1> DEFINE g == Blocked(h, c, call)
<1>1. h \in Heaps
  BY DEF HeapFits
<1>2. /\ g \in Heaps /\ g.config = h.config /\ g.told = h.told
      /\ \A d \in Callers : g.calls[d] = IF d = c THEN call ELSE h.calls[d]
  BY <1>1 DEF Heaps, Blocked
<1> HIDE DEF g
<1>3. HeapFits(s, g)
  BY <1>2 DEF HeapFits, Pushed
<1> QED BY <1>3 DEF g

LEMMA WaitsFit ==
  ASSUME NEW s, NEW h, HeapFits(s, h), StoreFits(s), NEW c \in Callers, NEW r \in DOMAIN s.runs, NEW at \in {"a2a", "tool", "task"}
  PROVE  HeapFits(s, Blocked(h, c, Waits(at, r)))
<1>1. r \in Nat
  BY DEF StoreFits, Stores
<1>2. Waits(at, r) \in CallRecords /\ Waits(at, r).run = r
  BY <1>1 DEF Waits, Free, CallRecords
<1> QED BY <1>2, CallsFit

LEMMA FreedFits ==
  ASSUME NEW s, NEW h, HeapFits(s, h), NEW c \in Callers
  PROVE  HeapFits(s, Blocked(h, c, Free))
<1>1. Free \in CallRecords /\ Free.at = "free"
  BY DEF Free, CallRecords
<1> QED BY <1>1, CallsFit

LEMMA RestartFits ==
  ASSUME NEW s, StoreFits(s)
  PROVE  HeapFits(s, Restarted(s))
<1>1. s.runs \in Seq(TaskRecords)
  BY DEF StoreFits, Stores
<1>2. {r \in DOMAIN s.runs : s.runs[r].status \in {"pending", "running", "cancelling"}} \in SUBSET Nat
  BY <1>1
<1>3. Free \in CallRecords /\ Free.at = "free"
  BY DEF Free, CallRecords
<1>4. NoConfig \in [run : Nat, held : BOOLEAN, last : PushStates] /\ NoConfig.run = 0 /\ ~NoConfig.held
  BY DEF NoConfig, PushStates
<1>5. Restarted(s) \in Heaps
  BY <1>2, <1>3, <1>4 DEF Restarted, Heaps
<1>6. \A c \in Callers : Restarted(s).calls[c].at = "free"
  BY <1>3 DEF Restarted
<1>7. Pushed(s, Restarted(s))
  BY <1>4 DEF Restarted, Pushed
<1> QED BY <1>5, <1>6, <1>7 DEF HeapFits

\* The process is killed on an image.
LEMMA KilledKeeps ==
  ASSUME TasksInv, NEW s, StoreFits(s), Len(store.runs) <= Len(s.runs), KilledAt(s)
  PROVE  TasksInv'
<1>1. HeapFits(s, Restarted(s))
  BY RestartFits
<1>2. DOMAIN store.runs \subseteq DOMAIN s.runs
  BY DEF TasksInv, StoreFits, Stores
<1>3. kills' \in Nat /\ kills' # 0 /\ store' = s /\ heap' = Restarted(s)
      /\ (handed' = handed \/ handed' = {[token EXCEPT !.good = FALSE] : token \in handed})
  BY DEF TasksInv, KilledAt
<1> DEFINE stale == {[token EXCEPT !.good = FALSE] : token \in handed}
<1>4. TokensFit(s, handed)
  BY <1>2 DEF TasksInv, TokensFit
<1>5. TokensFit(s, stale)
  <2>1. IsFiniteSet(stale)
    <3> DEFINE f == [token \in handed |-> [token EXCEPT !.good = FALSE]]
    <3>1. f \in [handed -> stale] /\ \A x \in stale : \E token \in handed : f[token] = x
      OBVIOUS
    <3>2. f \in Surjection(handed, stale)
      BY <3>1, Zenon DEF Surjection
    <3> QED BY <3>2, FS_Surjection DEF TasksInv, TokensFit
  <2>2. \A token \in handed : [token EXCEPT !.good = FALSE] \in TokenRecords /\ [token EXCEPT !.good = FALSE].run = token.run
    BY DEF TasksInv, TokensFit, TokenRecords
  <2>3. \A token \in stale : token \in TokenRecords /\ token.run \in DOMAIN s.runs
    BY <1>2, <2>2 DEF TasksInv, TokensFit
  <2> QED BY <2>1, <2>3 DEF TokensFit
<1> HIDE DEF stale
<1>6. TokensFit(s, handed')
  BY <1>3, <1>4, <1>5 DEF stale
<1> QED BY <1>1, <1>3, <1>6 DEF TasksInv

\* A handler comes to its end or is killed on the way.
LEMMA ServeKeeps ==
  ASSUME TasksInv, NEW imgs, NEW h, Images(imgs, Len(store.runs)), HeapFits(LastImage(imgs), h),
         kills = 0 => Once(LastImage(imgs)), Serve(imgs, h)
  PROVE  TasksInv'
<1>1. /\ imgs \in Seq(Stores) /\ Len(imgs) \in Nat \ {0} /\ DOMAIN imgs = 1..Len(imgs)
      /\ \A i \in 1..Len(imgs) : StoreFits(imgs[i]) /\ Len(store.runs) <= Len(imgs[i].runs)
  BY EmptySeq DEF Images
<1>2. CASE store' = LastImage(imgs) /\ heap' = h /\ UNCHANGED <<handed, kills>>
  <2>1. StoreFits(LastImage(imgs)) /\ Len(store.runs) <= Len(LastImage(imgs).runs)
    BY <1>1 DEF LastImage
  <2>2. DOMAIN store.runs \subseteq DOMAIN LastImage(imgs).runs
    BY <2>1 DEF TasksInv, StoreFits, Stores
  <2>3. TokensFit(LastImage(imgs), handed)
    BY <2>2 DEF TasksInv, TokensFit
  <2> QED BY <1>2, <2>1, <2>3 DEF TasksInv
<1>3. CASE \E i \in 1..Len(imgs) - 1 : KilledAt(imgs[i])
  <2>1. PICK i \in 1..Len(imgs) - 1 : KilledAt(imgs[i])
    BY <1>3
  <2>2. StoreFits(imgs[i]) /\ Len(store.runs) <= Len(imgs[i].runs)
    BY <1>1
  <2> QED BY <2>1, <2>2, KilledKeeps
<1> QED BY <1>2, <1>3 DEF Serve

---------------------------------------------------------------------------
(* Operations *)

\* s has the runs and the messages of the database.
AsStored(s) == StoreFits(s) /\ s.runs = store.runs /\ s.recorded = store.recorded

LEMMA Stored ==
  ASSUME TasksInv
  PROVE  /\ StoreFits(store) /\ HeapFits(store, heap) /\ Len(store.runs) \in Nat /\ DOMAIN store.runs = 1..Len(store.runs)
         /\ AsStored(store) /\ \A n \in Nat : AsStored([store EXCEPT !.spent = @ \cup {n}]) /\ AsStored([store EXCEPT !.pages = @ \cup {n}])
<1>1. StoreFits(store) /\ HeapFits(store, heap)
  BY DEF TasksInv
<1>2. store.runs \in Seq(TaskRecords)
  BY <1>1 DEF StoreFits, Stores
<1> QED BY <1>1, <1>2, OtherImages DEF AsStored

LEMMA StayKeeps ==
  ASSUME TasksInv, NEW h, HeapFits(store, h), Serve(<<store>>, h)
  PROVE  TasksInv'
<1>1. Images(<<store>>, Len(store.runs)) /\ LastImage(<<store>>) = store
  BY Stored, OneImage
<1>2. kills = 0 => Once(store)
  BY DEF TasksInv
<1> QED BY <1>1, <1>2, ServeKeeps

\* Only what nobody answered changed in run r.
LEMMA OnceWrote ==
  ASSUME NEW s, NEW t, NEW r, StoreFits(s), Once(s), Wrote(s, t, r), t.runs[r].answers = s.runs[r].answers
  PROVE  Once(t)
<1>1. "token" \notin Messages
  BY AgentAssumption
<1>2. DOMAIN t.runs = DOMAIN s.runs /\ StoreFits(t) /\ t.recorded = s.recorded
      /\ \A q \in DOMAIN s.runs : q # r => t.runs[q].answers = s.runs[q].answers
  BY DEF Wrote
<1>3. Answered(s, t, r, "token")
  BY DEF Answered
<1> QED BY <1>1, <1>2, <1>3, OnceKept

LEMMA WroteLater ==
  ASSUME NEW s, NEW t, NEW r \in DOMAIN s.runs, Wrote(s, t, r), StoreFits(s), s.runs[r].status \notin Ends \/ t.runs[r].status = s.runs[r].status
  PROVE  Later(s, t, r)
<1>1. Len(s.runs) \in Nat
  BY DEF StoreFits, Stores
<1> QED BY <1>1 DEF Later, Wrote

\* requestCancel, of a run that is not over.
LEMMA CancelImages ==
  ASSUME TasksInv, NEW s, AsStored(s), NEW r \in DOMAIN store.runs, store.runs[r].status \notin Ends,
         NEW h, HeapFits(store, h)
  PROVE  LET imgs == Cancel(s, r)
             t == LastImage(imgs)
         IN  /\ Images(imgs, Len(store.runs)) /\ Wrote(store, t, r) /\ t.runs[r].answers = store.runs[r].answers
             /\ HeapFits(t, Cancelled(h, r)) /\ (kills = 0 => Once(t))
<1> DEFINE imgs == Cancel(s, r)
           t == LastImage(imgs)
<1>1. /\ StoreFits(s) /\ s.runs = store.runs /\ s.recorded = store.recorded /\ r \in DOMAIN s.runs
      /\ StoreFits(store) /\ Len(store.runs) \in Nat
  BY Stored DEF AsStored
<1>2. CASE AtOnce(r)
  <2>1. "cancelled" \in Ends
    BY DEF Ends
  <2>2. imgs = End(s, r, "cancelled") /\ Cancelled(h, r) = Tell(h, r)
    BY <1>2 DEF Cancel, Cancelled
  <2>3. Images(imgs, Len(store.runs)) /\ Wrote(s, t, r) /\ t.runs[r].answers = s.runs[r].answers
    BY <1>1, <2>1, <2>2, EndImages
  <2> HIDE DEF imgs, t
  <2>4. Wrote(store, t, r) /\ t.runs[r].answers = store.runs[r].answers
    BY <1>1, <2>3 DEF Wrote
  <2>5. Later(store, t, r)
    BY <1>1, <2>4, WroteLater
  <2>6. HeapFits(t, Tell(h, r))
    BY <2>5, LaterFits
  <2>7. kills = 0 => Once(t)
    BY <1>1, <2>4, OnceWrote DEF TasksInv
  <2> QED BY <2>2, <2>3, <2>4, <2>6, <2>7 DEF imgs, t
<1>3. CASE ~AtOnce(r)
  <2> DEFINE u == [s EXCEPT !.runs[r].status = "cancelling"]
  <2>1. "cancelling" \in TaskStatuses \ Ends
    BY DEF Ends, TaskStatuses
  <2>2. imgs = <<u>> /\ Cancelled(h, r) = h
    BY <1>3 DEF Cancel, Cancelled
  <2>3. Wrote(s, u, r) /\ u.runs[r].answers = s.runs[r].answers /\ u.runs[r].status = "cancelling"
    BY <1>1, <2>1, StatusImage
  <2> HIDE DEF u
  <2>4. Images(<<u>>, Len(store.runs)) /\ LastImage(<<u>>) = u
    BY <1>1, <2>3, OneImage DEF Wrote
  <2>5. Wrote(store, u, r) /\ u.runs[r].answers = store.runs[r].answers
    BY <1>1, <2>3 DEF Wrote
  <2>6. Later(store, u, r)
    BY <1>1, <2>5, WroteLater
  <2>7. HeapFits(u, h)
    BY <1>1, <2>1, <2>3, <2>6, LaterFits
  <2>8. kills = 0 => Once(u)
    BY <1>1, <2>5, OnceWrote DEF TasksInv
  <2> QED BY <2>2, <2>4, <2>5, <2>7, <2>8
<1> QED BY <1>2, <1>3

\* resolveAndResume, of a run whose interrupt is open.
LEMMA AnsweredFits ==
  ASSUME TasksInv, NEW s, AsStored(s), NEW r \in DOMAIN store.runs, store.runs[r].open, NEW to \in Results,
         NEW by \in Answerers, NEW named \in {0, store.runs[r].opened}, NEW h, HeapFits(store, h)
  PROVE  LET imgs == Resolve(s, r, named, by, to)
             t == LastImage(imgs)
         IN  /\ Images(imgs, Len(store.runs)) /\ Wrote(store, t, r) /\ Answered(store, t, r, by)
             /\ HeapFits(t, Resumed(h, r, to)) /\ (kills = 0 /\ by \notin Messages => Once(t))
<1> DEFINE imgs == Resolve(s, r, named, by, to)
           t == LastImage(imgs)
<1>1. /\ StoreFits(s) /\ s.runs = store.runs /\ s.recorded = store.recorded /\ r \in DOMAIN s.runs
      /\ StoreFits(store) /\ Len(store.runs) \in Nat /\ r \in Nat
  BY Stored DEF AsStored
<1>2. Images(imgs, Len(store.runs)) /\ Wrote(s, t, r) /\ Answered(s, t, r, by)
      /\ t.runs[r].status = IF to = "undecided" THEN s.runs[r].status ELSE to
  BY <1>1, ResolveImages
<1> HIDE DEF imgs, t
<1>3. Wrote(store, t, r) /\ Answered(store, t, r, by)
  BY <1>1, <1>2 DEF Wrote, Answered
<1>4. Later(store, t, r)
  <2>1. store.runs[r].status \notin Ends
    BY <1>1 DEF StoreFits, Fits
  <2> QED BY <1>1, <1>3, <2>1, WroteLater
<1>5. HeapFits(t, Resumed(h, r, to))
  <2>1. HeapFits(t, Tell(h, r)) /\ HeapFits(t, Schedule(Tell(h, r), r))
    BY <1>1, <1>4, LaterFits, LoopsFit
  <2>2. CASE to = "undecided"
    <3>1. \A q \in DOMAIN store.runs : t.runs[q].status = store.runs[q].status
      BY <1>1, <1>2, <1>3, <2>2 DEF Wrote
    <3>2. HeapFits(t, h)
      BY <1>4, <3>1, LaterFits
    <3> QED BY <2>2, <3>2 DEF Resumed
  <2>3. CASE to # "undecided"
    BY <2>1, <2>3 DEF Resumed, Results
  <2> QED BY <2>2, <2>3
<1>6. kills = 0 /\ by \notin Messages => Once(t)
  <2>1. DOMAIN t.runs = DOMAIN store.runs /\ StoreFits(t) /\ t.recorded = store.recorded
        /\ \A q \in DOMAIN store.runs : q # r => t.runs[q].answers = store.runs[q].answers
    BY <1>3 DEF Wrote
  <2> QED BY <1>1, <1>3, <2>1, OnceKept DEF TasksInv
<1> QED BY <1>2, <1>3, <1>5, <1>6 DEF imgs, t

LEMMA StartTaskKeeps == ASSUME TasksInv, NEW c \in Callers, NEW m \in Messages, StartTask(c, m) PROVE TasksInv'
<1> DEFINE r == Len(store.runs) + 1
           accepted == Accept(store)
           task == [accepted EXCEPT !.runs[r].task = TRUE]
           written == AppendHistory(task, r, m)
           recorded == Record(written, r, m)
           h == Blocked(Schedule(heap, r), c, Waits("a2a", r))
<1>1. Serve(<<accepted, task, written, recorded>>, h) /\ store.recorded[m] = 0
  BY DEF StartTask
<1>2. StoreFits(store) /\ HeapFits(store, heap) /\ Len(store.runs) \in Nat /\ DOMAIN store.runs = 1..Len(store.runs)
  BY Stored
<1>3. /\ StoreFits(accepted) /\ Len(accepted.runs) = r /\ r \in Nat /\ DOMAIN accepted.runs = 1..r
      /\ accepted.runs[r] = Accepted /\ accepted.recorded = store.recorded
      /\ \A q \in DOMAIN store.runs : accepted.runs[q] = store.runs[q]
  BY <1>2, AcceptImage
<1> HIDE DEF accepted
<1>4. r \in DOMAIN accepted.runs /\ r \notin DOMAIN store.runs /\ 1..r = DOMAIN store.runs \cup {r} /\ r # 0
  BY <1>2, <1>3
<1> HIDE DEF r
<1>5. Wrote(accepted, task, r) /\ Alike(accepted, task, r)
  BY <1>3, <1>4, TaskImage
<1> HIDE DEF task
<1>6. Wrote(task, written, r) /\ Alike(task, written, r)
  BY <1>3, <1>4, <1>5, HistoryImage DEF Wrote
<1> HIDE DEF written
<1>7. StoreFits(written) /\ DOMAIN written.runs = DOMAIN accepted.runs /\ Len(written.runs) = r
      /\ written.recorded = store.recorded
  BY <1>3, <1>5, <1>6 DEF Wrote
<1>8. StoreFits(recorded) /\ recorded.runs = written.runs /\ recorded.recorded[m] = r
      /\ \A n \in Messages : n # m => recorded.recorded[n] = written.recorded[n]
  BY <1>4, <1>7, RecordImage
<1> HIDE DEF recorded
<1>9. /\ \A q \in DOMAIN store.runs : recorded.runs[q] = store.runs[q]
      /\ recorded.runs[r].answers = <<>>
      /\ DOMAIN recorded.runs = DOMAIN store.runs \cup {r} /\ Len(recorded.runs) = r
  BY <1>3, <1>4, <1>5, <1>6, <1>7, <1>8 DEF Wrote, Alike, Accepted
<1>10. Len(store.runs) <= r
  BY <1>2 DEF r
<1>11. HeapFits(recorded, h)
  <2>1. Later(store, recorded, r)
    BY <1>8, <1>9, <1>10 DEF Later
  <2>2. HeapFits(recorded, heap)
    BY <1>2, <1>9, <2>1, LaterFits
  <2>3. HeapFits(recorded, Schedule(heap, r))
    BY <1>3, <2>2, LoopsFit
  <2> QED BY <1>8, <1>9, <2>3, WaitsFit
<1>12. kills = 0 => Once(recorded)
  <2>1. "token" \notin Messages
    BY AgentAssumption
  <2>2. \A n \in Messages : store.recorded[n] # 0 => recorded.recorded[n] # 0
    BY <1>1, <1>7, <1>8
  <2> QED BY <1>2, <1>4, <1>8, <1>9, <2>1, <2>2, OnceKept DEF TasksInv
<1>13. Images(<<accepted, task>>, Len(store.runs)) /\ Images(<<written, recorded>>, Len(store.runs))
  <2>1. /\ StoreFits(task) /\ Len(task.runs) = r
    BY <1>3, <1>5 DEF Wrote
  <2> QED BY <1>3, <1>7, <1>8, <1>9, <1>10, <2>1, TwoImages
<1>14. Images(<<accepted, task, written, recorded>>, Len(store.runs)) /\ LastImage(<<accepted, task, written, recorded>>) = recorded
  BY <1>13 DEF Images, LastImage
<1> HIDE DEF h
<1> QED BY <1>1, <1>11, <1>12, <1>14, ServeKeeps

LEMMA AnswerTaskKeeps ==
  ASSUME TasksInv, NEW c \in Callers, NEW m \in Messages, NEW r \in DOMAIN store.runs, NEW to \in Results, AnswerTask(c, m, r, to)
  PROVE  TasksInv'
<1> DEFINE resolved == Resolve(store, r, 0, m, to)
           t == LastImage(resolved)
           written == AppendHistory(t, r, m)
           recorded == Record(written, r, m)
           g == Resumed(heap, r, to)
           h == Blocked(g, c, Waits("a2a", r))
<1>1. Serve(resolved \o <<written, recorded>>, h) /\ store.recorded[m] = 0 /\ store.runs[r].open
  BY DEF AnswerTask, Asking
<1>2. StoreFits(store) /\ HeapFits(store, heap) /\ Len(store.runs) \in Nat /\ AsStored(store)
  BY Stored
<1>3. m \in Answerers
  BY DEF Answerers
<1>4. Images(resolved, Len(store.runs)) /\ Wrote(store, t, r) /\ Answered(store, t, r, m) /\ HeapFits(t, g)
  BY <1>1, <1>2, <1>3, AnsweredFits
<1> HIDE DEF resolved, t, g
<1>5. Wrote(t, written, r) /\ Alike(t, written, r) /\ DOMAIN t.runs = DOMAIN store.runs /\ Len(t.runs) = Len(store.runs)
  BY <1>4, HistoryImage DEF Wrote
<1> HIDE DEF written
<1>6. StoreFits(written) /\ DOMAIN written.runs = DOMAIN store.runs /\ Len(written.runs) = Len(store.runs)
      /\ written.recorded = store.recorded
  BY <1>4, <1>5 DEF Wrote
<1>7. StoreFits(recorded) /\ recorded.runs = written.runs /\ recorded.recorded[m] = r
      /\ \A n \in Messages : n # m => recorded.recorded[n] = written.recorded[n]
  BY <1>6, RecordImage
<1> HIDE DEF recorded
<1>8. r # 0
  BY Stored
<1>9. HeapFits(recorded, h)
  <2>1. Later(t, recorded, r) /\ \A q \in DOMAIN t.runs : recorded.runs[q].status = t.runs[q].status
    BY <1>2, <1>5, <1>6, <1>7 DEF Later, Wrote, Alike
  <2>2. HeapFits(recorded, g)
    BY <1>4, <2>1, LaterFits
  <2> QED BY <1>6, <1>7, <2>2, WaitsFit
<1>10. kills = 0 => Once(recorded)
  <2>1. Answered(store, recorded, r, m)
    BY <1>4, <1>5, <1>7 DEF Answered, Alike
  <2>2. \A q \in DOMAIN store.runs : q # r => recorded.runs[q].answers = store.runs[q].answers
    BY <1>4, <1>5, <1>7 DEF Wrote
  <2>3. \A n \in Messages : store.recorded[n] # 0 => recorded.recorded[n] # 0
    BY <1>1, <1>6, <1>7
  <2> QED BY <1>1, <1>2, <1>6, <1>7, <1>8, <2>1, <2>2, <2>3, OnceKept DEF TasksInv
<1>11. Images(<<written, recorded>>, Len(store.runs)) /\ LastImage(<<written, recorded>>) = recorded
  BY <1>2, <1>6, <1>7, TwoImages
<1>12. /\ Images(resolved \o <<written, recorded>>, Len(store.runs))
       /\ LastImage(resolved \o <<written, recorded>>) = recorded
  BY <1>4, <1>11, JoinImages
<1> HIDE DEF h
<1> QED BY <1>1, <1>9, <1>10, <1>12, ServeKeeps

LEMMA RepeatMessageKeeps == ASSUME TasksInv, NEW c \in Callers, NEW m \in Messages, RepeatMessage(c, m) PROVE TasksInv'
<1> DEFINE r == store.recorded[m]
<1>1. r \in DOMAIN store.runs /\ StoreFits(store) /\ HeapFits(store, heap)
  BY Stored DEF RepeatMessage, StoreFits
<1>2. HeapFits(store, Blocked(heap, c, Waits("a2a", r)))
  BY <1>1, WaitsFit
<1> QED BY <1>2, StayKeeps DEF RepeatMessage

LEMMA CancelTaskKeeps == ASSUME TasksInv, NEW r \in DOMAIN store.runs, CancelTask(r) PROVE TasksInv'
<1>1. AsStored(store) /\ HeapFits(store, heap)
  BY Stored
<1> QED BY <1>1, CancelImages, ServeKeeps DEF CancelTask

LEMMA DisconnectKeeps == ASSUME TasksInv, NEW c \in Callers, Disconnect(c) PROVE TasksInv'
<1> DEFINE r == heap.calls[c].run
           gone == Blocked(heap, c, Free)
<1>1. AsStored(store) /\ HeapFits(store, heap) /\ HeapFits(store, gone) /\ r \in DOMAIN store.runs
  BY Stored, FreedFits DEF HeapFits, Disconnect, Ready
<1>2. \/ Serve(<<store>>, gone)
      \/ store.runs[r].status \notin Ends /\ Serve(Cancel(store, r), Cancelled(gone, r))
  BY DEF Disconnect
<1> HIDE DEF r, gone
<1>3. CASE Serve(<<store>>, gone)
  BY <1>1, <1>3, StayKeeps
<1>4. CASE store.runs[r].status \notin Ends /\ Serve(Cancel(store, r), Cancelled(gone, r))
  BY <1>1, <1>4, CancelImages, ServeKeeps
<1> QED BY <1>2, <1>3, <1>4

---------------------------------------------------------------------------
(* Push configs *)

\* The config changed.
LEMMA ConfigFits ==
  ASSUME NEW s, NEW h, HeapFits(s, h), NEW told \in BOOLEAN,
         NEW config \in [run : Nat, held : BOOLEAN, last : PushStates],
         Pushed(s, [h EXCEPT !.config = config, !.told = told])
  PROVE  HeapFits(s, [h EXCEPT !.config = config, !.told = told])
<1> DEFINE g == [h EXCEPT !.config = config, !.told = told]
<1>1. g \in Heaps /\ g.calls = h.calls
  BY DEF HeapFits, Heaps
<1> HIDE DEF g
<1>2. HeapFits(s, g)
  BY <1>1 DEF HeapFits, g
<1> QED BY <1>2 DEF g

LEMMA TaskStateTyped == ASSUME NEW run, Fits(run) PROVE TaskState(run) \in PushStates /\ (run.status \in Ends => TaskState(run) = run.status)
  BY DEF TaskState, PushStates, Fits, TaskRecords, TaskStatuses, Ends

LEMMA CreatePushConfigKeeps == ASSUME TasksInv, NEW r \in DOMAIN store.runs, CreatePushConfig(r) PROVE TasksInv'
<1> DEFINE last == TaskState(store.runs[r])
           config == [run |-> r, held |-> TRUE, last |-> last]
           h == [heap EXCEPT !.config = config]
<1>1. HeapFits(store, heap) /\ heap \in Heaps /\ r \in Nat \ {0}
  BY Stored DEF HeapFits
<1>2. last \in PushStates
  BY Stored, TaskStateTyped DEF StoreFits
<1> HIDE DEF last
<1>3. config \in [run : Nat, held : BOOLEAN, last : PushStates] /\ config.run = r /\ config.held
  BY <1>1, <1>2
<1>4. store.runs[r].status \notin Ends /\ Serve(<<store>>, h)
  BY DEF CreatePushConfig, last
<1> HIDE DEF config
<1>5. h = [heap EXCEPT !.config = config, !.told = heap.told] /\ h.config = config /\ heap.told \in BOOLEAN
  BY <1>1 DEF Heaps
<1>6. h.told = heap.told
  BY <1>1 DEF Heaps
<1> HIDE DEF h
<1>7. Pushed(store, h)
  BY <1>1, <1>3, <1>4, <1>5, <1>6 DEF Pushed
<1>8. HeapFits(store, h)
  BY <1>1, <1>3, <1>5, <1>7, ConfigFits
<1> QED BY <1>4, <1>8, StayKeeps

LEMMA DeletePushConfigKeeps == ASSUME TasksInv, DeletePushConfig PROVE TasksInv'
<1> DEFINE h == [heap EXCEPT !.config = NoConfig, !.told = FALSE]
<1>1. HeapFits(store, heap) /\ heap \in Heaps
  BY Stored DEF HeapFits
<1>2. NoConfig \in [run : Nat, held : BOOLEAN, last : PushStates] /\ NoConfig.run = 0 /\ ~NoConfig.held
  BY DEF NoConfig, PushStates
<1>3. h.config = NoConfig /\ ~h.told
  BY <1>1 DEF Heaps
<1>4. HeapFits(store, h)
  BY <1>1, <1>2, <1>3, ConfigFits DEF Pushed
<1> QED BY <1>4, StayKeeps DEF DeletePushConfig

LEMMA PushKeeps == ASSUME TasksInv, Push PROVE TasksInv'
<1> DEFINE run == store.runs[heap.config.run]
           last == TaskState(run)
           held == run.status \notin Ends
           config == [heap.config EXCEPT !.last = last, !.held = held]
           h == [heap EXCEPT !.told = FALSE, !.config.last = last, !.config.held = held]
<1>1. HeapFits(store, heap) /\ heap \in Heaps /\ Pushed(store, heap)
  BY Stored DEF HeapFits
<1>2. Serve(<<store>>, h)
  BY DEF Push
<1>3. heap.told /\ heap.config.run \in DOMAIN store.runs /\ heap.config.run # 0
  BY <1>1 DEF Push, Pushed
<1>4. last \in PushStates /\ (run.status \in Ends => last = run.status)
  BY <1>3, Stored, TaskStateTyped DEF StoreFits
<1> HIDE DEF last, run
<1>5. held \in BOOLEAN /\ held = (run.status \notin Ends)
  OBVIOUS
<1> HIDE DEF held
<1>6. /\ config \in [run : Nat, held : BOOLEAN, last : PushStates]
      /\ config.run = heap.config.run /\ config.held = held /\ config.last = last
  BY <1>1, <1>4, <1>5 DEF Heaps
<1>7. h = [heap EXCEPT !.config = config, !.told = FALSE]
  BY <1>1 DEF Heaps
<1> HIDE DEF config
<1>8. h.config = config /\ ~h.told
  BY <1>1, <1>7 DEF Heaps
<1> HIDE DEF h
<1>9. Pushed(store, h)
  BY <1>3, <1>4, <1>5, <1>6, <1>8 DEF Pushed, run
<1>10. HeapFits(store, h)
  BY <1>1, <1>6, <1>7, <1>9, ConfigFits
<1> QED BY <1>2, <1>10, StayKeeps

---------------------------------------------------------------------------
(* Tool calls, tasks and pages *)

LEMMA CallToolKeeps == ASSUME TasksInv, NEW c \in Callers, NEW tasked \in BOOLEAN, CallTool(c, tasked) PROVE TasksInv'
<1> DEFINE r == Len(store.runs) + 1
           accepted == Accept(store)
           at == IF tasked THEN "task" ELSE "tool"
           h == Blocked(Schedule(heap, r), c, Waits(at, r))
<1>1. Serve(<<accepted>>, h)
  BY DEF CallTool
<1>2. StoreFits(store) /\ HeapFits(store, heap) /\ Len(store.runs) \in Nat /\ DOMAIN store.runs = 1..Len(store.runs)
  BY Stored
<1>3. /\ StoreFits(accepted) /\ Len(accepted.runs) = r /\ r \in Nat /\ DOMAIN accepted.runs = 1..r
      /\ accepted.runs[r] = Accepted /\ accepted.recorded = store.recorded
      /\ \A q \in DOMAIN store.runs : accepted.runs[q] = store.runs[q]
  BY <1>2, AcceptImage
<1> HIDE DEF accepted
<1>4. 1..r = DOMAIN store.runs \cup {r} /\ Len(store.runs) <= r /\ r \in DOMAIN accepted.runs /\ r \notin DOMAIN store.runs
  BY <1>2, <1>3
<1> HIDE DEF r
<1>5. HeapFits(accepted, h)
  <2>1. Later(store, accepted, r)
    BY <1>3, <1>4 DEF Later
  <2>2. HeapFits(accepted, heap)
    BY <1>2, <1>3, <2>1, LaterFits
  <2>3. HeapFits(accepted, Schedule(heap, r))
    BY <1>3, <2>2, LoopsFit
  <2>4. at \in {"a2a", "tool", "task"}
    OBVIOUS
  <2> HIDE DEF at
  <2> QED BY <1>3, <1>4, <2>3, <2>4, WaitsFit
<1>6. kills = 0 => Once(accepted)
  <2>1. "token" \notin Messages
    BY AgentAssumption
  <2>2. \A q \in DOMAIN accepted.runs \ DOMAIN store.runs : accepted.runs[q].answers = <<>>
    BY <1>3, <1>4 DEF Accepted
  <2> QED BY <1>2, <1>3, <1>4, <2>1, <2>2, OnceKept DEF TasksInv
<1>7. Images(<<accepted>>, Len(store.runs)) /\ LastImage(<<accepted>>) = accepted
  BY <1>3, <1>4, OneImage
<1> HIDE DEF h
<1> QED BY <1>1, <1>5, <1>6, <1>7, ServeKeeps

LEMMA RetryKeeps ==
  ASSUME TasksInv, NEW c \in Callers, NEW token \in handed, NEW action, NEW to \in Results, Retry(c, token, action, to)
  PROVE  TasksInv'
<1> DEFINE r == token.run
           n == token.n
           spent == [store EXCEPT !.spent = @ \cup {n}]
           waits == Waits("tool", r)
           cancelled == Cancel(spent, r)
           resolved == Resolve(spent, r, token.interrupt, "token", to)
<1>1. r \in DOMAIN store.runs /\ n \in Nat /\ r \in Nat
  BY Stored DEF TasksInv, TokensFit, TokenRecords
<1>2. /\ StoreFits(spent) /\ spent.runs = store.runs /\ spent.recorded = store.recorded /\ AsStored(spent)
      /\ HeapFits(store, heap) /\ Len(store.runs) \in Nat /\ StoreFits(store)
  BY <1>1, Stored DEF AsStored
<1>3. \/ Serve(<<spent>>, heap)
      \/ /\ store.runs[r].status \notin Ends
         /\ Serve(<<spent>> \o cancelled, Blocked(Cancelled(heap, r), c, waits))
      \/ Serve(<<spent>>, Blocked(heap, c, [waits EXCEPT !.at = "task"]))
      \/ /\ StillOpen(token)
         /\ Serve(<<spent>> \o resolved, Blocked(Resumed(heap, r, to), c, waits))
      \/ Serve(<<spent>>, Blocked(heap, c, waits))
  BY DEF Retry
<1> HIDE DEF r, n, spent
<1>4. Images(<<spent>>, Len(store.runs)) /\ LastImage(<<spent>>) = spent
  BY <1>2, OneImage
<1>5. HeapFits(spent, heap)
  BY <1>2 DEF HeapFits, Pushed
<1>6. kills = 0 => Once(spent)
  BY <1>2 DEF TasksInv, Once
<1>7. CASE Serve(<<spent>>, heap)
  BY <1>4, <1>5, <1>6, <1>7, ServeKeeps
<1>8. CASE /\ store.runs[r].status \notin Ends
           /\ Serve(<<spent>> \o cancelled, Blocked(Cancelled(heap, r), c, waits))
  <2> DEFINE t == LastImage(cancelled)
  <2>1. /\ Images(cancelled, Len(store.runs)) /\ Wrote(store, t, r) /\ HeapFits(t, Cancelled(heap, r)) /\ (kills = 0 => Once(t))
    BY <1>1, <1>2, <1>8, CancelImages
  <2> HIDE DEF cancelled
  <2>2. Images(<<spent>> \o cancelled, Len(store.runs)) /\ LastImage(<<spent>> \o cancelled) = t
    BY <1>4, <2>1, JoinImages
  <2>3. HeapFits(t, Blocked(Cancelled(heap, r), c, waits))
    BY <1>1, <2>1, WaitsFit DEF Wrote
  <2> HIDE DEF t
  <2> QED BY <1>8, <2>1, <2>2, <2>3, ServeKeeps
<1>9. CASE Serve(<<spent>>, Blocked(heap, c, [waits EXCEPT !.at = "task"]))
  <2> DEFINE call == [waits EXCEPT !.at = "task"]
  <2>1. call \in CallRecords /\ call.run = r
    BY <1>1 DEF CallRecords, Waits, Free
  <2> HIDE DEF call
  <2>2. HeapFits(spent, Blocked(heap, c, call))
    BY <1>1, <1>2, <1>5, <2>1, CallsFit
  <2> QED BY <1>4, <1>6, <1>9, <2>2, ServeKeeps DEF call
<1>10. CASE /\ StillOpen(token)
            /\ Serve(<<spent>> \o resolved, Blocked(Resumed(heap, r, to), c, waits))
  <2> DEFINE t == LastImage(resolved)
  <2>1. store.runs[r].open /\ token.interrupt \in {0, store.runs[r].opened}
    BY <1>10 DEF StillOpen, r
  <2>2. "token" \in Answerers /\ "token" \notin Messages
    BY AgentAssumption DEF Answerers
  <2>3. /\ Images(resolved, Len(store.runs)) /\ Wrote(store, t, r) /\ HeapFits(t, Resumed(heap, r, to)) /\ (kills = 0 => Once(t))
    BY <1>1, <1>2, <2>1, <2>2, AnsweredFits
  <2> HIDE DEF resolved
  <2>4. Images(<<spent>> \o resolved, Len(store.runs)) /\ LastImage(<<spent>> \o resolved) = t
    BY <1>4, <2>3, JoinImages
  <2>5. HeapFits(t, Blocked(Resumed(heap, r, to), c, waits))
    BY <1>1, <2>3, WaitsFit DEF Wrote
  <2> HIDE DEF t
  <2> QED BY <1>10, <2>3, <2>4, <2>5, ServeKeeps
<1>11. CASE Serve(<<spent>>, Blocked(heap, c, waits))
  <2>1. HeapFits(spent, Blocked(heap, c, waits))
    BY <1>1, <1>2, <1>5, WaitsFit
  <2> QED BY <1>4, <1>6, <1>11, <2>1, ServeKeeps
<1> QED BY <1>3, <1>7, <1>8, <1>9, <1>10, <1>11

\* A page of a run there is, or none more.
LEMMA PagesAsStored ==
  ASSUME TasksInv, NEW r \in DOMAIN store.runs, NEW s \in {store, [store EXCEPT !.pages = @ \cup {r}]}
  PROVE  AsStored(s) /\ (kills = 0 => Once(s)) /\ \A h : HeapFits(store, h) => HeapFits(s, h)
<1>1. r \in Nat
  BY Stored
<1>2. AsStored(s)
  BY <1>1, Stored
<1> QED BY <1>2 DEF TasksInv, Once, AsStored, HeapFits, Pushed

LEMMA AnswerKeeps == ASSUME TasksInv, NEW c \in Callers, NEW url \in BOOLEAN, Answer(c, url) PROVE TasksInv'
<1> DEFINE call == heap.calls[c]
           r == call.run
           token == RequestState(Cardinality(handed) + 1, r)
           asks == call.at = "tool" /\ Asking(r) /\ Elicits(store.runs[r].kind, url)
           h == Blocked(heap, c, Free)
<1>1. /\ StoreFits(store) /\ HeapFits(store, heap) /\ r \in DOMAIN store.runs /\ r \in Nat
      /\ IsFiniteSet(handed) /\ TokensFit(store, handed)
  BY Stored DEF TasksInv, TokensFit, HeapFits, Answer
<1>2. /\ handed' = IF asks THEN handed \cup {token} ELSE handed
      /\ store' = store \/ store' = [store EXCEPT !.pages = @ \cup {r}]
      /\ heap' = h /\ kills' = kills
  BY DEF Answer
<1>3. token \in TokenRecords /\ token.run = r
  <2>1. Cardinality(handed) + 1 \in Nat
    BY <1>1, FS_CardinalityType
  <2>2. store.runs[r].opened \in Nat
    BY <1>1 DEF StoreFits, Fits, TaskRecords
  <2> QED BY <1>1, <2>1, <2>2 DEF RequestState, TokenRecords
<1> HIDE DEF token, asks, r, h
<1>4. TokensFit(store, handed \cup {token})
  BY <1>1, <1>3, FS_AddElement DEF TokensFit
<1>5. TokensFit(store, handed')
  BY <1>1, <1>2, <1>4
<1>6. AsStored(store') /\ (kills = 0 => Once(store')) /\ \A g : HeapFits(store, g) => HeapFits(store', g)
  BY <1>1, <1>2, PagesAsStored
<1>7. HeapFits(store', h)
  BY <1>1, <1>6, FreedFits DEF h
<1>8. TokensFit(store', handed')
  BY <1>5, <1>6 DEF TokensFit, AsStored
<1> QED BY <1>2, <1>6, <1>7, <1>8 DEF TasksInv, AsStored

LEMMA GetTaskKeeps == ASSUME TasksInv, NEW r \in DOMAIN store.runs, GetTask(r) PROVE TasksInv'
<1> DEFINE s == [store EXCEPT !.pages = @ \cup {r}]
<1>1. AsStored(s) /\ (kills = 0 => Once(s)) /\ HeapFits(s, heap)
  BY PagesAsStored, Stored
<1>2. Serve(<<s>>, heap)
  BY DEF GetTask
<1> HIDE DEF s
<1>3. Images(<<s>>, Len(store.runs)) /\ LastImage(<<s>>) = s
  BY <1>1, Stored, OneImage DEF AsStored
<1> QED BY <1>1, <1>2, <1>3, ServeKeeps

LEMMA UpdateTaskKeeps ==
  ASSUME TasksInv, NEW r \in DOMAIN store.runs, NEW i \in 1..MaxInterrupts, NEW action \in {"answer", "cancel"}, NEW to \in Results,
         UpdateTask(r, i, action, to)
  PROVE  TasksInv'
<1>1. AsStored(store) /\ HeapFits(store, heap)
  BY Stored
<1>2. store.runs[r].open /\ store.runs[r].opened = i /\ store.runs[r].status \notin Ends
  BY DEF UpdateTask, Asking, Ends
<1>3. CASE Serve(Cancel(store, r), Cancelled(heap, r))
  BY <1>1, <1>2, <1>3, CancelImages, ServeKeeps
<1>4. CASE Serve(Resolve(store, r, i, "key", to), Resumed(heap, r, to))
  <2>1. "key" \in Answerers /\ "key" \notin Messages
    BY AgentAssumption DEF Answerers
  <2> QED BY <1>1, <1>2, <1>4, <2>1, AnsweredFits, ServeKeeps
<1> QED BY <1>3, <1>4 DEF UpdateTask

LEMMA PostPageKeeps == ASSUME TasksInv, NEW c \in Callers, NEW r \in DOMAIN store.runs, PostPage(c, r) PROVE TasksInv'
<1> DEFINE call == [Free EXCEPT !.at = "page", !.run = r, !.interrupt = store.runs[r].opened]
<1>1. StoreFits(store) /\ HeapFits(store, heap) /\ r \in Nat
  BY Stored
<1>2. store.runs[r].opened \in Nat
  BY <1>1 DEF StoreFits, Fits, TaskRecords
<1>3. call \in CallRecords /\ call.run = r
  BY <1>1, <1>2 DEF CallRecords, Free
<1>4. Serve(<<store>>, Blocked(heap, c, call))
  BY DEF PostPage
<1> HIDE DEF call
<1> QED BY <1>1, <1>3, <1>4, CallsFit, StayKeeps

LEMMA PageBodyKeeps == ASSUME TasksInv, NEW c \in Callers, NEW to \in Results, PageBody(c, to) PROVE TasksInv'
<1> DEFINE r == heap.calls[c].run
           i == heap.calls[c].interrupt
           freed == Blocked(heap, c, Free)
<1>1. AsStored(store) /\ HeapFits(store, heap) /\ HeapFits(store, freed) /\ r \in DOMAIN store.runs
  BY Stored, FreedFits DEF HeapFits, PageBody
<1>2. \/ Serve(<<store>>, freed)
      \/ store.runs[r].open /\ store.runs[r].opened = i /\ Serve(Resolve(store, r, i, "page", to), Resumed(freed, r, to))
  BY DEF PageBody
<1>3. "page" \in Answerers /\ "page" \notin Messages
  BY AgentAssumption DEF Answerers
<1> HIDE DEF r, i, freed
<1>4. CASE Serve(<<store>>, freed)
  BY <1>1, <1>4, StayKeeps
<1>5. CASE store.runs[r].open /\ store.runs[r].opened = i /\ Serve(Resolve(store, r, i, "page", to), Resumed(freed, r, to))
  BY <1>1, <1>3, <1>5, AnsweredFits, ServeKeeps
<1> QED BY <1>2, <1>4, <1>5

---------------------------------------------------------------------------
(* The run's own steps *)

\* An image that wrote the status of r, or nothing.
LEMMA StatusServed ==
  ASSUME TasksInv, NEW t, NEW r \in DOMAIN store.runs, Wrote(store, t, r), t.runs[r].answers = store.runs[r].answers,
         store.runs[r].status \notin Ends
  PROVE  HeapFits(t, Tell(heap, r)) /\ HeapFits(t, Tell(Leave(heap, r), r)) /\ (kills = 0 => Once(t))
<1>1. StoreFits(store) /\ HeapFits(store, heap) /\ r \in Nat
  BY Stored
<1>2. HeapFits(store, Leave(heap, r))
  BY <1>1, LoopsFit
<1>3. Later(store, t, r)
  BY <1>1, WroteLater
<1>4. kills = 0 => Once(t)
  BY <1>1, OnceWrote DEF TasksInv
<1> QED BY <1>1, <1>2, <1>3, <1>4, LaterFits

LEMMA StartRunKeeps == ASSUME TasksInv, NEW r \in DOMAIN store.runs, StartRun(r) PROVE TasksInv'
<1> DEFINE t == [store EXCEPT !.runs[r].status = "running"]
<1>1. "running" \in TaskStatuses \ Ends
  BY DEF TaskStatuses, Ends
<1>2. Wrote(store, t, r) /\ t.runs[r].answers = store.runs[r].answers
  BY <1>1, Stored, StatusImage
<1>3. Serve(<<t>>, Tell(heap, r)) /\ store.runs[r].status \notin Ends
  BY DEF StartRun, Ends
<1> HIDE DEF t
<1>4. Images(<<t>>, Len(store.runs)) /\ LastImage(<<t>>) = t
  BY <1>2, Stored, OneImage DEF Wrote
<1> QED BY <1>2, <1>3, <1>4, StatusServed, ServeKeeps

LEMMA SuspendKeeps == ASSUME TasksInv, NEW r \in DOMAIN store.runs, NEW kind \in Kinds, Suspend(r, kind) PROVE TasksInv'
<1> DEFINE run == store.runs[r]
           asked == [store EXCEPT !.runs[r].opened = @ + 1, !.runs[r].kind = kind, !.runs[r].open = TRUE]
           minted == IF run.open \/ run.claimed THEN store ELSE asked
           t == [minted EXCEPT !.runs[r].status = "waiting"]
<1>1. StoreFits(store) /\ Len(store.runs) \in Nat
  BY Stored
<1>2. run.status = "running" /\ Serve(<<minted, t>>, Tell(Leave(heap, r), r))
  BY DEF Suspend
<1>3. Wrote(store, minted, r) /\ minted.runs[r].answers = run.answers
  <2>1. CASE run.open \/ run.claimed
    BY <1>1, <2>1 DEF Wrote
  <2>2. CASE ~(run.open \/ run.claimed)
    <3>1. Wrote(store, asked, r) /\ Alike(store, asked, r)
      BY <1>1, <1>2, <2>2, MintImage
    <3> QED BY <2>2, <3>1 DEF Alike
  <2> QED BY <2>1, <2>2
<1>4. "waiting" \in TaskStatuses \ Ends
  BY DEF TaskStatuses, Ends
<1> HIDE DEF minted
<1>5. Wrote(minted, t, r) /\ t.runs[r].answers = minted.runs[r].answers
  BY <1>3, <1>4, StatusImage DEF Wrote
<1> HIDE DEF t
<1>6. Wrote(store, t, r) /\ t.runs[r].answers = run.answers
  BY <1>3, <1>5 DEF Wrote
<1>7. Images(<<minted, t>>, Len(store.runs)) /\ LastImage(<<minted, t>>) = t
  BY <1>1, <1>3, <1>6, TwoImages DEF Wrote
<1>8. run.status \notin Ends
  BY <1>2 DEF Ends
<1> QED BY <1>2, <1>6, <1>7, <1>8, StatusServed, ServeKeeps

LEMMA EndRunKeeps == ASSUME TasksInv, NEW r \in DOMAIN store.runs, NEW status \in Ends, EndRun(r, status) PROVE TasksInv'
<1> DEFINE imgs == End(store, r, status)
<1>1. store.runs[r].status \notin Ends /\ Serve(imgs, Tell(Leave(heap, r), r))
  BY DEF EndRun, Ends
<1>2. Images(imgs, Len(store.runs)) /\ Wrote(store, LastImage(imgs), r) /\ LastImage(imgs).runs[r].answers = store.runs[r].answers
  BY Stored, EndImages
<1> HIDE DEF imgs
<1> QED BY <1>1, <1>2, StatusServed, ServeKeeps

LEMMA LeaveRunKeeps == ASSUME TasksInv, NEW r \in DOMAIN store.runs, LeaveRun(r) PROVE TasksInv'
<1>1. HeapFits(store, heap) /\ r \in Nat
  BY Stored
<1>2. HeapFits(store, Leave(heap, r))
  BY <1>1, LoopsFit
<1> QED BY <1>2, StayKeeps DEF LeaveRun

---------------------------------------------------------------------------

LEMMA TasksStart == AgentInit => TasksInv
<1> SUFFICES ASSUME AgentInit PROVE TasksInv
  OBVIOUS
<1>1. /\ store = [runs |-> <<>>, recorded |-> [m \in Messages |-> 0], spent |-> {}, pages |-> {}]
      /\ heap = Restarted(store) /\ handed = {} /\ kills = 0
  BY DEF AgentInit
<1>2. StoreFits(store) /\ DOMAIN store.runs = {}
  BY <1>1 DEF StoreFits, Stores
<1>3. HeapFits(store, heap)
  BY <1>1, <1>2, RestartFits
<1>4. TokensFit(store, handed) /\ Once(store)
  BY <1>1, <1>2, FS_EmptySet DEF TokensFit, Once
<1> QED BY <1>1, <1>2, <1>3, <1>4 DEF TasksInv

LEMMA TasksStep == TasksInv /\ [AgentNext]_agentVars => TasksInv'
<1> SUFFICES ASSUME TasksInv, [AgentNext]_agentVars PROVE TasksInv'
  OBVIOUS
<1>1. ASSUME NEW c \in Callers, NEW m \in Messages, StartTask(c, m) \/ RepeatMessage(c, m) PROVE TasksInv'
  BY <1>1, StartTaskKeeps, RepeatMessageKeeps
<1>2. ASSUME NEW c \in Callers, NEW m \in Messages, NEW r \in DOMAIN store.runs, NEW to \in Results, AnswerTask(c, m, r, to) PROVE TasksInv'
  BY <1>2, AnswerTaskKeeps
<1>3. ASSUME NEW c \in Callers, NEW token \in handed, NEW action, NEW to \in Results, Retry(c, token, action, to) PROVE TasksInv'
  BY <1>3, RetryKeeps
<1>4. ASSUME NEW c \in Callers, NEW b \in BOOLEAN, CallTool(c, b) \/ Answer(c, b) PROVE TasksInv'
  BY <1>4, CallToolKeeps, AnswerKeeps
<1>5. ASSUME NEW c \in Callers, NEW r \in DOMAIN store.runs, PostPage(c, r) PROVE TasksInv'
  BY <1>5, PostPageKeeps
<1>6. ASSUME NEW c \in Callers, NEW to \in Results, PageBody(c, to) PROVE TasksInv'
  BY <1>6, PageBodyKeeps
<1>7. ASSUME NEW c \in Callers, Disconnect(c) PROVE TasksInv'
  BY <1>7, DisconnectKeeps
<1>8. ASSUME NEW r \in DOMAIN store.runs, CancelTask(r) \/ GetTask(r) \/ CreatePushConfig(r) \/ StartRun(r) \/ LeaveRun(r) PROVE TasksInv'
  BY <1>8, CancelTaskKeeps, GetTaskKeeps, CreatePushConfigKeeps, StartRunKeeps, LeaveRunKeeps
<1>9. ASSUME NEW r \in DOMAIN store.runs, NEW status \in Ends, EndRun(r, status) PROVE TasksInv'
  BY <1>9, EndRunKeeps
<1>10. ASSUME NEW r \in DOMAIN store.runs, NEW kind \in Kinds, Suspend(r, kind) PROVE TasksInv'
  BY <1>10, SuspendKeeps
<1>11. ASSUME NEW r \in DOMAIN store.runs, NEW i \in 1..MaxInterrupts, NEW action \in {"answer", "cancel"}, NEW to \in Results,
              UpdateTask(r, i, action, to)
       PROVE  TasksInv'
  BY <1>11, UpdateTaskKeeps
<1>12. ASSUME DeletePushConfig \/ Push PROVE TasksInv'
  BY <1>12, DeletePushConfigKeeps, PushKeeps
<1>13. ASSUME KilledAt(store) PROVE TasksInv'
  BY <1>13, Stored, KilledKeeps
<1>14. ASSUME UNCHANGED agentVars PROVE TasksInv'
  BY <1>14 DEF agentVars, TasksInv
<1> QED BY <1>1, <1>2, <1>3, <1>4, <1>5, <1>6, <1>7, <1>8, <1>9, <1>10, <1>11, <1>12, <1>13, <1>14 DEF AgentNext

\* The database, the process and the tokens fit each other, for any messages,
\* callers, kinds of interrupts and bounds.
THEOREM TasksHold == AgentSpec => []TasksInv
  BY TasksStart, TasksStep, PTL DEF AgentSpec

\* Whichever way an answer comes, it answers the interrupt it was given to, and
\* no interrupt is answered twice (a2a-server.ts, mcp-server.ts, interrupts.ts).
THEOREM EveryAnswerFits == AgentSpec => []AnswersFit
<1>1. TasksInv => AnswersFit
  <2> SUFFICES ASSUME TasksInv, NEW q \in DOMAIN store.runs, NEW r \in DOMAIN store.runs,
                      NEW i \in DOMAIN store.runs[q].answers, NEW j \in DOMAIN store.runs[r].answers
               PROVE  LET a == store.runs[q].answers[i]
                          b == store.runs[r].answers[j]
                      IN  /\ a.named \in {0, a.interrupt}
                          /\ <<q, i>> # <<r, j>> => /\ q = r => a.interrupt # b.interrupt
                                                    /\ kills = 0 /\ a.by \in Messages => a.by # b.by
    BY DEF AnswersFit
  <2>1. Fits(store.runs[q])
    BY DEF TasksInv, StoreFits
  <2>2. kills = 0 => Once(store)
    BY DEF TasksInv
  <2> QED BY <2>1, <2>2 DEF Fits, Once
<1> QED BY <1>1, TasksHold, PTL

\* A push config hears of its run's end, or is about to (a2a-push.ts:159).
THEOREM EndsArePushed == AgentSpec => []EndIsPushed
<1>1. TasksInv => EndIsPushed
  BY TaskStateTyped DEF TasksInv, StoreFits, HeapFits, Pushed, EndIsPushed
<1> QED BY <1>1, TasksHold, PTL

---------------------------------------------------------------------------
(***************************************************************************)
(* What the keys promise, for any requests, clients and kills.               *)
(***************************************************************************)

Dbs == [table : [Slots -> Rows], work : Seq(Slots)]

\* Work under a key leaves its row, once; a recorded success has its work, and a
\* recorded reply is about what its digest names.
Sound(d) ==
  /\ d \in Dbs
  /\ \A i, j \in DOMAIN d.work : d.work[i] = d.work[j] => i = j
  /\ \A i \in DOMAIN d.work : d.table[d.work[i]] # NoRow
  /\ \A s \in Slots : d.table[s].reply.code = "done" =>
       d.table[s].reply.work \in DOMAIN d.work /\ d.work[d.table[s].reply.work] = s
  /\ \A s \in Slots : s[1] # "cancelRun" /\ d.table[s].reply # NoReply =>
       d.table[s].reply.of = d.table[s].digest[1]

\* q holds its key's claim and has not done its work.
Fresh(d, q) ==
  /\ d.table[Slot(q)].digest = Digest(q) /\ d.table[Slot(q)].reply = NoReply
  /\ \A i \in DOMAIN d.work : d.work[i] # Slot(q)

\* What clients were told is what the table says.
Agrees(d, told) ==
  \A x \in told :
    /\ x.slot \in Slots /\ x.reply # NoReply /\ d.table[x.slot].reply = x.reply
    /\ x.slot[1] # "cancelRun" => x.reply.of = x.target

Handlers == [Clients -> {<<>>} \cup {<<q>> : q \in Requests}]

\* Every handler that waits holds its key's claim, alone.
Held(d, m) ==
  \A c \in Clients : m[c] # <<>> =>
    /\ Fresh(d, m[c][1])
    /\ \A e \in Clients : m[e] # <<>> /\ Slot(m[c][1]) = Slot(m[e][1]) => c = e

Counters == up \in BOOLEAN /\ sends \in 0..MaxSends /\ crashes \in 0..MaxCrashes

KeyInv == Counters /\ Sound(db) /\ calls \in Handlers /\ Held(db, calls) /\ Agrees(db, answers)

---------------------------------------------------------------------------
(* Statements *)

\* Image d2 of a section over q's key touches no other key.
KeyApart(d, d2, q) ==
  \A s \in Slots \ {Slot(q)} :
    /\ d2.table[s] = d.table[s]
    /\ (\A i \in DOMAIN d.work : d.work[i] # s) => \A i \in DOMAIN d2.work : d2.work[i] # s

\* A digest is never the digest of no row.
LEMMA DigestIsSome ==
  ASSUME NEW q \in Requests
  PROVE  /\ Digest(q) # <<>> /\ Digest(q) \in {<<>>} \cup {Digest(p) : p \in Requests}
         /\ Slot(q) \in Slots /\ Slot(q)[1] = q.op
         /\ q.op # "cancelRun" => Digest(q)[1] = q.target
BY DEF Digest, Slots, Slot

LEMMA NoRowIsRow == NoRow \in Rows /\ NoRow.reply = NoReply /\ NoRow.digest = <<>> /\ NoReply.code = "none"
BY DEF NoRow, NoReply, Rows

LEMMA ClaimSound ==
  ASSUME NEW d, Sound(d), NEW q \in Requests, d.table[Slot(q)] = NoRow
  PROVE  Sound(Claim(d, q)) /\ Fresh(Claim(d, q), q) /\ KeyApart(d, Claim(d, q), q)
<1> DEFINE d2 == Claim(d, q)
           row == [digest |-> Digest(q), reply |-> NoReply]
<1>1. row \in Rows /\ row # NoRow /\ row.reply = NoReply /\ row.digest = Digest(q)
  <2>1. NoReply \in [code : Outcomes \cup {"none"}, of : {p.target : p \in Requests} \cup {"none"}, work : Nat]
    BY DEF NoReply
  <2> QED BY <2>1, DigestIsSome, NoRowIsRow DEF Rows
<1> HIDE DEF row
<1>2. d2.work = d.work /\ d2.table = [d.table EXCEPT ![Slot(q)] = row] /\ d2 \in Dbs
  BY <1>1, DigestIsSome DEF Claim, Sound, Dbs, row
<1> HIDE DEF d2
<1>3. d.table \in [Slots -> Rows] /\ d.work \in Seq(Slots) /\ Slot(q) \in Slots
  BY DigestIsSome DEF Sound, Dbs
<1>4. \A i \in DOMAIN d.work : d.work[i] # Slot(q)
  BY DEF Sound
<1>5. Sound(d2)
  BY <1>1, <1>2, <1>3, <1>4, NoRowIsRow DEF Sound
<1>6. Fresh(d2, q) /\ KeyApart(d, d2, q)
  BY <1>1, <1>2, <1>3, <1>4 DEF Fresh, KeyApart
<1> QED BY <1>5, <1>6 DEF d2

\* Recording a reply, with its work done if it is a success.
Entry(q, o, i) == [code |-> o, of |-> q.target, work |-> i]

LEMMA CompleteSound ==
  ASSUME NEW d, Sound(d), NEW q \in Requests, NEW o \in {"done", "refused"}, NEW i \in Nat,
         d.table[Slot(q)].digest = Digest(q),
         o = "done" => i \in DOMAIN d.work /\ d.work[i] = Slot(q)
  PROVE  /\ Sound(Complete(d, q, Entry(q, o, i)))
         /\ KeyApart(d, Complete(d, q, Entry(q, o, i)), q)
         /\ Complete(d, q, Entry(q, o, i)).table[Slot(q)] = [digest |-> Digest(q), reply |-> Entry(q, o, i)]
<1> DEFINE reply == Entry(q, o, i)
           d2 == Complete(d, q, reply)
           row == [digest |-> Digest(q), reply |-> reply]
<1>1. /\ reply.code = o /\ reply.of = q.target /\ reply.work = i /\ reply # NoReply
      /\ reply \in [code : Outcomes \cup {"none"}, of : {p.target : p \in Requests} \cup {"none"}, work : Nat]
  BY DEF Entry, NoReply, Outcomes
<1> HIDE DEF reply
<1>2. row \in Rows /\ row.reply = reply /\ row.digest = Digest(q) /\ row # NoRow
  BY <1>1, DigestIsSome, NoRowIsRow DEF Rows
<1>3. d.table \in [Slots -> Rows] /\ d.work \in Seq(Slots) /\ Slot(q) \in Slots
  BY DigestIsSome DEF Sound, Dbs
<1>4. [d.table[Slot(q)] EXCEPT !.reply = reply] = row
  BY <1>3 DEF Rows
<1> HIDE DEF row
<1>5. d2.work = d.work /\ d2.table = [d.table EXCEPT ![Slot(q)] = row] /\ d2 \in Dbs
  BY <1>2, <1>3, <1>4 DEF Complete, Sound, Dbs
<1> HIDE DEF d2
<1>6. d2.table[Slot(q)] = row
  BY <1>3, <1>5
<1>7. Sound(d2)
  BY <1>1, <1>2, <1>3, <1>5, DigestIsSome DEF Sound
<1>8. KeyApart(d, d2, q)
  BY <1>3, <1>5 DEF KeyApart
<1> QED BY <1>6, <1>7, <1>8 DEF d2, row, reply

LEMMA WorkSound ==
  ASSUME NEW d, Sound(d), NEW q \in Requests, Fresh(d, q)
  PROVE  LET d2 == Work(d, q)
         IN  /\ Sound(d2) /\ KeyApart(d, d2, q) /\ d2.table = d.table
             /\ Len(d2.work) \in DOMAIN d2.work /\ d2.work[Len(d2.work)] = Slot(q)
             /\ Len(d2.work) \in Nat /\ Len(d2.work) = Len(d.work) + 1
<1> DEFINE d2 == Work(d, q)
<1>1. d.table \in [Slots -> Rows] /\ d.work \in Seq(Slots) /\ Slot(q) \in Slots /\ d.table[Slot(q)] # NoRow
  BY DigestIsSome, NoRowIsRow DEF Sound, Dbs, Fresh
<1>2. d2.work = Append(d.work, Slot(q)) /\ d2.table = d.table /\ d2 \in Dbs
  BY <1>1 DEF Work, Sound, Dbs
<1> HIDE DEF d2
<1>3. /\ Len(d2.work) = Len(d.work) + 1 /\ Len(d.work) \in Nat
      /\ DOMAIN d2.work = 1..Len(d2.work) /\ DOMAIN d.work = 1..Len(d.work)
      /\ d2.work[Len(d2.work)] = Slot(q)
      /\ \A i \in DOMAIN d.work : d2.work[i] = d.work[i]
  BY <1>1, <1>2
<1>4. Sound(d2)
  <2>1. \A i, j \in DOMAIN d2.work : d2.work[i] = d2.work[j] => i = j
    BY <1>3 DEF Sound, Fresh
  <2>2. \A i \in DOMAIN d2.work : d2.table[d2.work[i]] # NoRow
    BY <1>1, <1>2, <1>3 DEF Sound
  <2>3. \A s \in Slots : d2.table[s].reply.code = "done" =>
          d2.table[s].reply.work \in DOMAIN d2.work /\ d2.work[d2.table[s].reply.work] = s
    BY <1>2, <1>3 DEF Sound
  <2> QED BY <1>2, <2>1, <2>2, <2>3 DEF Sound
<1>5. KeyApart(d, d2, q)
  BY <1>2, <1>3 DEF KeyApart
<1> QED BY <1>2, <1>3, <1>4, <1>5 DEF d2

LEMMA ReleaseSound ==
  ASSUME NEW d, Sound(d), NEW q \in Requests, Fresh(d, q)
  PROVE  Sound(Release(d, q)) /\ KeyApart(d, Release(d, q), q) /\ Release(d, q).table[Slot(q)] = NoRow
<1> DEFINE d2 == Release(d, q)
<1>1. d.table \in [Slots -> Rows] /\ d.work \in Seq(Slots) /\ Slot(q) \in Slots
  BY DigestIsSome DEF Sound, Dbs
<1>2. d2.work = d.work /\ d2.table = [d.table EXCEPT ![Slot(q)] = NoRow] /\ d2 \in Dbs
  BY <1>1, NoRowIsRow DEF Release, Sound, Dbs
<1> HIDE DEF d2
<1>3. Sound(d2)
  BY <1>1, <1>2, NoRowIsRow DEF Sound, Fresh
<1>4. KeyApart(d, d2, q) /\ d2.table[Slot(q)] = NoRow
  BY <1>1, <1>2 DEF KeyApart
<1> QED BY <1>3, <1>4 DEF d2

---------------------------------------------------------------------------
(* Sections *)

\* The images of a handler's work under its claim, and what the last one records.
LEMMA RunSound ==
  ASSUME NEW d, Sound(d), NEW q \in Requests, Fresh(d, q), NEW o \in Outcomes
  PROVE  LET imgs == Run(d, q, o)
             last == imgs[Len(imgs)].table[Slot(q)]
         IN  /\ Len(imgs) \in {1, 2}
             /\ \A i \in 1..Len(imgs) : Sound(imgs[i]) /\ KeyApart(d, imgs[i], q)
             /\ o # "failed" => last.digest = Digest(q) /\ last.reply = Reply(d, q, o)
<1> DEFINE worked == Work(d, q)
           n == Len(worked.work)
<1>1. /\ Sound(worked) /\ KeyApart(d, worked, q) /\ worked.table = d.table
      /\ n \in DOMAIN worked.work /\ worked.work[n] = Slot(q) /\ n \in Nat
      /\ n = Len(d.work) + 1
  BY WorkSound
<1>2. d.table[Slot(q)].digest = Digest(q)
  BY DEF Fresh
<1> HIDE DEF worked, n
<1>3. CASE o = "done"
  <2> DEFINE d2 == Complete(worked, q, Reply(d, q, o))
  <2>1. Reply(d, q, o) = Entry(q, o, n)
    BY <1>1, <1>3 DEF Reply, Entry
  <2> HIDE DEF d2
  <2>2. /\ Sound(d2) /\ KeyApart(worked, d2, q)
        /\ d2.table[Slot(q)] = [digest |-> Digest(q), reply |-> Reply(d, q, o)]
    BY <1>1, <1>2, <1>3, <2>1, CompleteSound DEF d2
  <2>3. Run(d, q, o) = <<worked, d2>>
    BY <1>3 DEF Run, worked, d2
  <2>4. KeyApart(d, d2, q)
    BY <1>1, <2>2 DEF KeyApart
  <2> QED BY <1>1, <2>2, <2>3, <2>4
<1>4. CASE o = "refused"
  <2> DEFINE d2 == Complete(d, q, Reply(d, q, o))
  <2>1. Reply(d, q, o) = Entry(q, o, 0)
    BY <1>4 DEF Reply, Entry
  <2>2. /\ Sound(d2) /\ KeyApart(d, d2, q)
        /\ d2.table[Slot(q)] = [digest |-> Digest(q), reply |-> Reply(d, q, o)]
    BY <1>2, <1>4, <2>1, CompleteSound
  <2>3. Run(d, q, o) = <<d2>>
    BY <1>4 DEF Run, Final
  <2> HIDE DEF d2
  <2> QED BY <2>2, <2>3
<1>5. CASE o = "failed"
  <2>1. Sound(Release(d, q)) /\ KeyApart(d, Release(d, q), q) /\ Release(d, q).table[Slot(q)] = NoRow
    BY ReleaseSound
  <2>2. Run(d, q, o) = <<Release(d, q)>>
    BY <1>5 DEF Run, Final
  <2> QED BY <1>5, <2>1, <2>2
<1> QED BY <1>3, <1>4, <1>5 DEF Outcomes

\* The reply does not depend on the claim.
LEMMA SameReply ==
  ASSUME NEW d, NEW q, NEW o
  PROVE  Reply(Claim(d, q), q, o) = Reply(d, q, o)
BY DEF Reply, Claim

LEMMA HeldApart ==
  ASSUME NEW d, NEW d2, NEW m \in Handlers, Held(d, m), NEW q, KeyApart(d, d2, q),
         \A c \in Clients : m[c] # <<>> => Slot(m[c][1]) # Slot(q)
  PROVE  Held(d2, m)
BY DigestIsSome DEF Held, Fresh, KeyApart, Handlers

\* A key without a reply has told nobody anything.
LEMMA AgreesApart ==
  ASSUME NEW d, NEW d2, NEW told, Agrees(d, told), NEW q, KeyApart(d, d2, q),
         d.table[Slot(q)].reply = NoReply
  PROVE  Agrees(d2, told)
BY DEF Agrees, KeyApart

LEMMA ToldAgrees ==
  ASSUME NEW d, Sound(d), Agrees(d, answers), NEW q \in Requests, NEW reply,
         reply.code \in {"done", "refused"} =>
           d.table[Slot(q)].digest = Digest(q) /\ d.table[Slot(q)].reply = reply
  PROVE  Agrees(d, Told(q, reply))
<1>1. ASSUME reply.code \in {"done", "refused"}
      PROVE  /\ Slot(q) \in Slots /\ reply # NoReply /\ d.table[Slot(q)].reply = reply
             /\ Slot(q)[1] # "cancelRun" => reply.of = q.target
  BY <1>1, DigestIsSome, NoRowIsRow DEF Sound
<1>2. ASSUME NEW y \in Told(q, reply), y \notin answers
      PROVE  /\ reply.code \in {"done", "refused"}
             /\ y.slot = Slot(q) /\ y.target = q.target /\ y.reply = reply
  BY <1>2 DEF Told
<1>3. ASSUME NEW y \in Told(q, reply)
      PROVE  /\ y.slot \in Slots /\ y.reply # NoReply /\ d.table[y.slot].reply = y.reply
             /\ y.slot[1] # "cancelRun" => y.reply.of = y.target
  <2>1. CASE y \in answers
    BY <2>1 DEF Agrees
  <2>2. CASE y \notin answers
    BY <1>1, <1>2, <2>2
  <2> QED BY <2>1, <2>2
<1> QED BY <1>3 DEF Agrees

\* A kill counts, and leaves no handler.
LEMMA KilledWorkKeeps ==
  ASSUME Counters, Killed, sends' \in 0..MaxSends
  PROVE  Counters' /\ calls' \in Handlers /\ \A d : Held(d, calls')
<1>1. crashes' \in 0..MaxCrashes
  BY IdempotencyAssumption DEF Counters, Killed
<1>2. up' \in BOOLEAN
  BY DEF Killed
<1>3. calls' \in Handlers /\ \A d : Held(d, calls')
  BY DEF Killed, Idle, Handlers, Held
<1> QED BY <1>1, <1>2, <1>3 DEF Counters

LEMMA SectionKeeps ==
  ASSUME KeyInv, NEW q \in Requests, db.table[Slot(q)].reply = NoReply,
         NEW imgs, Len(imgs) \in Nat \ {0},
         \A i \in 1..Len(imgs) : Sound(imgs[i]) /\ KeyApart(db, imgs[i], q),
         NEW next \in Handlers, Held(imgs[Len(imgs)], next),
         NEW told, Agrees(imgs[Len(imgs)], told),
         Section(imgs, next, told), sends' \in 0..MaxSends
  PROVE  KeyInv'
<1>1. CASE db' = imgs[Len(imgs)] /\ calls' = next /\ answers' = told /\ UNCHANGED <<up, crashes>>
  BY <1>1 DEF KeyInv, Counters
<1>2. ASSUME NEW i \in 1..Len(imgs), db' = imgs[i], Killed, UNCHANGED answers
      PROVE  KeyInv'
  <2>1. Counters' /\ calls' \in Handlers /\ Held(db', calls')
    BY <1>2, KilledWorkKeeps DEF KeyInv
  <2>2. Agrees(db', answers')
    BY <1>2, AgreesApart DEF KeyInv
  <2> QED BY <1>2, <2>1, <2>2 DEF KeyInv
<1> QED BY <1>1, <1>2 DEF Section

---------------------------------------------------------------------------
(* Actions *)

\* A key without a row has no handler.
LEMMA FreeKey ==
  ASSUME KeyInv, NEW q \in Requests, db.table[Slot(q)] = NoRow
  PROVE  \A c \in Clients : calls[c] # <<>> => Slot(calls[c][1]) # Slot(q)
BY DigestIsSome, NoRowIsRow DEF KeyInv, Held, Fresh, Handlers

LEMMA SendKeeps ==
  ASSUME KeyInv, NEW c \in Clients, NEW q \in Requests, Send(c, q)
  PROVE  KeyInv'
<1> DEFINE row == db.table[Slot(q)]
           claimed == Claim(db, q)
<1>1. sends' \in 0..MaxSends
  BY IdempotencyAssumption DEF Send, KeyInv, Counters
<1>2. CASE UNCHANGED <<db, calls, answers, up, crashes>>
  BY <1>1, <1>2 DEF KeyInv, Counters
<1>3. CASE row.digest = Digest(q) /\ answers' = Told(q, row.reply) /\ UNCHANGED <<db, calls, up, crashes>>
  BY <1>1, <1>3, ToldAgrees DEF KeyInv, Counters
<1>4. ASSUME row = NoRow
      PROVE  /\ row.reply = NoReply /\ Sound(claimed) /\ Fresh(claimed, q) /\ KeyApart(db, claimed, q)
             /\ Held(claimed, calls) /\ Agrees(claimed, answers)
             /\ \A e \in Clients : calls[e] # <<>> => Slot(calls[e][1]) # Slot(q)
  <2>1. Sound(claimed) /\ Fresh(claimed, q) /\ KeyApart(db, claimed, q)
    BY <1>4, ClaimSound DEF KeyInv
  <2>2. \A e \in Clients : calls[e] # <<>> => Slot(calls[e][1]) # Slot(q)
    BY <1>4, FreeKey
  <2> HIDE DEF claimed
  <2> QED BY <1>4, <2>1, <2>2, NoRowIsRow, HeldApart, AgreesApart DEF KeyInv
<1>5. ASSUME row = NoRow, Section(<<claimed>>, [calls EXCEPT ![c] = <<q>>], answers)
      PROVE  KeyInv'
  <2> DEFINE next == [calls EXCEPT ![c] = <<q>>]
  <2> HIDE DEF claimed
  <2>1. next \in Handlers /\ next[c] = <<q>> /\ \A e \in Clients \ {c} : next[e] = calls[e]
    BY DEF KeyInv, Handlers
  <2>2. Held(claimed, next)
    <3> HIDE DEF next
    <3> QED BY <1>4, <1>5, <2>1 DEF Held
  <2> HIDE DEF next
  <2>3. Section(<<claimed>>, next, answers)
    BY <1>5 DEF next
  <2> QED BY <1>1, <1>4, <1>5, <2>1, <2>2, <2>3, SectionKeeps
<1>6. ASSUME row = NoRow, NEW o \in Outcomes,
             Section(<<claimed>> \o Run(claimed, q, o), calls, Told(q, Reply(db, q, o)))
      PROVE  KeyInv'
  <2> DEFINE run == Run(claimed, q, o)
             imgs == <<claimed>> \o run
             last == run[Len(run)]
  <2>1. Reply(claimed, q, o) = Reply(db, q, o)
    BY SameReply
  <2> HIDE DEF claimed
  <2>2. /\ Len(run) \in {1, 2} /\ \A i \in 1..Len(run) : Sound(run[i]) /\ KeyApart(claimed, run[i], q)
        /\ o # "failed" => /\ last.table[Slot(q)].digest = Digest(q)
                           /\ last.table[Slot(q)].reply = Reply(db, q, o)
    BY <1>4, <1>6, <2>1, RunSound
  <2>3. run \in {<<run[1]>>, <<run[1], run[2]>>}
    BY <2>2, NoRowIsRow DEF Run
  <2> HIDE DEF run
  <2>4. /\ Len(imgs) = Len(run) + 1 /\ imgs[1] = claimed /\ imgs[Len(imgs)] = last
        /\ \A i \in 2..Len(imgs) : imgs[i] = run[i - 1]
    BY <2>2, <2>3
  <2>5. \A i \in 1..Len(run) : KeyApart(db, run[i], q)
    BY <1>4, <1>6, <2>2 DEF KeyApart
  <2> HIDE DEF imgs
  <2>6. \A i \in 1..Len(imgs) : Sound(imgs[i]) /\ KeyApart(db, imgs[i], q)
    BY <1>4, <1>6, <2>2, <2>4, <2>5
  <2>7. Len(imgs) \in Nat \ {0} /\ Sound(last) /\ KeyApart(db, last, q)
    <3>1. Len(run) \in 1..Len(run)  BY <2>2
    <3>2. Sound(last) /\ KeyApart(db, last, q)  BY <2>2, <2>5, <3>1
    <3> QED BY <2>2, <2>4, <3>2
  <2> HIDE DEF last
  <2>8. Held(last, calls)
    BY <1>4, <1>6, <2>7, HeldApart DEF KeyInv
  <2>9. Agrees(last, answers)
    BY <1>4, <1>6, <2>7, AgreesApart DEF KeyInv
  <2>10. Agrees(last, Told(q, Reply(db, q, o)))
    BY <2>2, <2>7, <2>9, ToldAgrees DEF Reply
  <2>11. Section(imgs, calls, Told(q, Reply(db, q, o)))
    BY <1>6 DEF imgs, run
  <2> QED BY <1>1, <1>4, <1>6, <2>4, <2>6, <2>7, <2>8, <2>10, <2>11, SectionKeeps DEF KeyInv
<1> QED BY <1>2, <1>3, <1>5, <1>6 DEF Send

LEMMA ProceedKeeps ==
  ASSUME KeyInv, NEW c \in Clients, Proceed(c)
  PROVE  KeyInv'
<1> DEFINE q == calls[c][1]
           next == [calls EXCEPT ![c] = <<>>]
<1>1. PICK o \in Outcomes :
        Section(Run(db, q, o), next, Told(q, Reply(db, q, o)))
  BY DEF Proceed
<1>2. calls[c] # <<>> /\ sends' = sends
  BY DEF Proceed
<1>3. q \in Requests /\ Fresh(db, q) /\ Sound(db) /\ db.table[Slot(q)].reply = NoReply
  BY <1>2 DEF KeyInv, Handlers, Held, Fresh
<1> DEFINE run == Run(db, q, o)
           last == run[Len(run)]
<1>4. next \in Handlers /\ next[c] = <<>> /\ \A e \in Clients \ {c} : next[e] = calls[e]
  BY DEF KeyInv, Handlers
<1>5. \A e \in Clients : next[e] # <<>> => Slot(next[e][1]) # Slot(q)
  BY <1>2, <1>4 DEF KeyInv, Held
<1>6. Held(db, next)
  <2> HIDE DEF next
  <2> QED BY <1>4 DEF KeyInv, Held
<1> HIDE DEF next, q
<1>7. /\ Len(run) \in {1, 2} /\ \A i \in 1..Len(run) : Sound(run[i]) /\ KeyApart(db, run[i], q)
      /\ o # "failed" => /\ last.table[Slot(q)].digest = Digest(q)
                         /\ last.table[Slot(q)].reply = Reply(db, q, o)
  BY <1>1, <1>3, RunSound
<1>8. Section(run, next, Told(q, Reply(db, q, o)))
  BY <1>1
<1> HIDE DEF run
<1>9. Sound(last) /\ KeyApart(db, last, q) /\ Len(run) \in Nat \ {0}
  BY <1>7
<1> HIDE DEF last
<1>10. Held(last, next)
  BY <1>4, <1>5, <1>6, <1>9, HeldApart
<1>11. Agrees(last, answers)
  BY <1>3, <1>9, AgreesApart DEF KeyInv
<1>12. Agrees(last, Told(q, Reply(db, q, o)))
  BY <1>3, <1>7, <1>9, <1>11, ToldAgrees DEF Reply
<1>13. sends' \in 0..MaxSends
  BY <1>2 DEF KeyInv, Counters
<1> QED BY <1>3, <1>4, <1>7, <1>8, <1>9, <1>10, <1>13, <1>12, SectionKeeps DEF last

---------------------------------------------------------------------------
(* Theorems *)

LEMMA KeyInvHolds == Spec => []KeyInv
<1>1. Init => KeyInv
  <2> SUFFICES ASSUME Init PROVE KeyInv
    OBVIOUS
  <2>1. Sound(db)
    BY NoRowIsRow DEF Init, Sound, Dbs
  <2> QED BY <2>1, IdempotencyAssumption DEF Init, KeyInv, Counters, Idle, Handlers, Held, Agrees
<1>2. KeyInv /\ [Next]_vars => KeyInv'
  <2> SUFFICES ASSUME KeyInv, [Next]_vars PROVE KeyInv'
    OBVIOUS
  <2>1. ASSUME NEW c \in Clients, Proceed(c) PROVE KeyInv'
    BY <2>1, ProceedKeeps
  <2>2. ASSUME NEW c \in Clients, NEW q \in Requests, Send(c, q) PROVE KeyInv'
    BY <2>2, SendKeeps
  <2>3. CASE Crash
    <3>1. Counters' /\ calls' \in Handlers /\ Held(db', calls')
      BY <2>3, KilledWorkKeeps DEF Crash, KeyInv, Counters
    <3> QED BY <2>3, <3>1 DEF Crash, KeyInv
  <2>4. CASE Boot
    BY <2>4 DEF Boot, KeyInv, Counters
  <2>5. CASE UNCHANGED vars
    BY <2>5 DEF vars, KeyInv, Counters
  <2> QED BY <2>1, <2>2, <2>3, <2>4, <2>5 DEF Next
<1> QED BY <1>1, <1>2, PTL DEF Spec

\* The state is well typed and a handler that waits holds its key's claim alone.
THEOREM KeysTyped == Spec => []TypeOK
<1>1. KeyInv => TypeOK
  BY DigestIsSome, NoRowIsRow DEF KeyInv, Counters, Sound, Dbs, Handlers, Held, Fresh, TypeOK, InFlight
<1> QED BY <1>1, KeyInvHolds, PTL

\* An endpoint does its work once under a key, whatever is repeated or killed.
THEOREM KeyedWorkIsDoneOnce == Spec => []WorkedOnce
<1>1. KeyInv => WorkedOnce
  BY DEF KeyInv, Sound, WorkedOnce
<1> QED BY <1>1, KeyInvHolds, PTL

\* All final replies under a key are one reply.
THEOREM KeyedReplyIsOne == Spec => []OneReply
<1>1. KeyInv => OneReply
  BY DEF KeyInv, Agrees, OneReply
<1> QED BY <1>1, KeyInvHolds, PTL

\* A recorded success has its work on record, also after a kill between the two.
THEOREM KeyedRepliesStand == Spec => []RepliesStand
<1>1. KeyInv => RepliesStand
  BY DEF KeyInv, Sound, RepliesStand
<1> QED BY <1>1, KeyInvHolds, PTL

\* Where the digest tells the targets apart, a reply is about its request's own.
THEOREM KeyedRepliesAreOwn == Spec => []OtherRepliesAreOwn
<1>1. KeyInv => OtherRepliesAreOwn
  BY DEF KeyInv, Agrees, OtherRepliesAreOwn
<1> QED BY <1>1, KeyInvHolds, PTL

(***************************************************************************)
(* Chains.  A copy's prefix holds the number of its expansion, so no two     *)
(* expansions share an id; and what a chain, or who asks for it, names is    *)
(* one of its copies or a node the workflow had from the start.              *)
(***************************************************************************)

OwnId(name) == [prefix |-> <<>>, name |-> name]

(* Node n of the workflow came with it, or with expansion k of some chain. *)
Dated(n) == n.id.prefix = <<>> \/ \E chain, k : k \in 0 .. Len(spliced) - 1 /\ n.id.prefix = PrefixOf(chain, k)

ChainInv ==
  /\ \E T : spliced \in Seq(T)
  /\ \A n \in flow.nodes : Dated(n)
  /\ \A name \in ParentNodes : OwnId(name) \in Ids
  /\ NothingDangles

(* What one expansion brings: copies under one prefix, that name only each *)
(* other and the workflow's own nodes.                                     *)
Known(ref, copies) == IdOf(ref) \in {n.id : n \in copies} \cup {OwnId(name) : name \in ParentNodes}

Brings(fragment, prefix) ==
  /\ \A n \in fragment.nodes : n.id.prefix = prefix
  /\ \A m, n \in fragment.nodes : m.id = n.id => m = n
  /\ \A n \in fragment.nodes : \A part \in n.mapping.parts : part.kind = "ref" => Known(part, fragment.nodes)
  /\ \A e \in fragment.edges : Known(e.from, fragment.nodes) /\ Known(e.to, fragment.nodes)

LEMMA SpliceKeeps ==
  ASSUME NEW fragment, NEW policy, NEW q, NEW chain,
         ChainInv, Brings(fragment, PrefixOf(chain, Len(spliced))), Splice(fragment, policy, q)
  PROVE  ChainInv'
<1>n. PICK T : spliced \in Seq(T)  BY DEF ChainInv
<1>a. spliced' = Append(spliced, q) /\ spliced' \in Seq(T \cup {q}) /\ Len(spliced) \in Nat /\ Len(spliced') = Len(spliced) + 1
  <2>1. spliced \in Seq(T \cup {q}) /\ q \in T \cup {q}  BY <1>n
  <2>. HIDE <1>n
  <2>. QED  BY <2>1 DEF Splice
<1>f. flow'.nodes = flow.nodes \cup fragment.nodes /\ flow'.edges = flow.edges \cup fragment.edges  BY DEF Splice
<1>i. Ids' = Ids \cup {n.id : n \in fragment.nodes}  BY <1>f DEF Ids
<1>o. \A name \in ParentNodes : OwnId(name) \in Ids'  BY <1>i DEF ChainInv
<1>k. \A ref : Known(ref, fragment.nodes) => IdOf(ref) \in Ids'  BY <1>i, <1>o DEF Known
<1>1. \A n \in flow'.nodes : Dated(n)'
  <2>1. ASSUME NEW n \in flow.nodes  PROVE Dated(n)'
    BY <1>a DEF ChainInv, Dated
  <2>2. ASSUME NEW n \in fragment.nodes  PROVE Dated(n)'
    <3>1. n.id.prefix = PrefixOf(chain, Len(spliced))  BY DEF Brings
    <3>2. Len(spliced) \in 0 .. Len(spliced') - 1  BY <1>a
    <3>. QED  BY <3>1, <3>2 DEF Dated
  <2>. QED  BY <1>f, <2>1, <2>2
<1>2. NothingDangles'
  <2>1. \A e \in flow'.edges : {IdOf(e.from), IdOf(e.to)} \subseteq Ids'
    BY <1>f, <1>i, <1>k DEF ChainInv, NothingDangles, Brings
  <2>2. \A n \in flow'.nodes : \A part \in n.mapping.parts : part.kind = "ref" => IdOf(part) \in Ids'
    BY <1>f, <1>i, <1>k DEF ChainInv, NothingDangles, Brings
  <2>3. ASSUME NEW m \in flow.nodes, NEW n \in fragment.nodes  PROVE m.id # n.id
    <3>1. n.id.prefix = PrefixOf(chain, Len(spliced))  BY DEF Brings
    <3>2. n.id.prefix # <<>>  BY <3>1 DEF PrefixOf
    <3>3. ASSUME NEW c, NEW k \in 0 .. Len(spliced) - 1  PROVE PrefixOf(c, k) # PrefixOf(chain, Len(spliced))
      <4>1. PrefixOf(c, k)[2] = k /\ PrefixOf(chain, Len(spliced))[2] = Len(spliced)  BY DEF PrefixOf
      <4>. QED  BY <1>a, <4>1
    <3>4. Dated(m)  BY DEF ChainInv
    <3>. QED  BY <3>1, <3>2, <3>3, <3>4 DEF Dated
  <2>4. \A m, n \in flow'.nodes : m.id = n.id => m = n
    BY <1>f, <2>3 DEF ChainInv, NothingDangles, Brings
  <2>. QED  BY <2>1, <2>2, <2>4 DEF NothingDangles, Ids
<1>. QED  BY <1>a, <1>1, <1>2, <1>o DEF ChainInv

(* A value with its references resolved.                                   *)
Clear(value, chain) == "parts" \in DOMAIN value /\ \A part \in value.parts : part.kind = "ref" => NamesNode(part, chain)

LEMMA SubstituteClear ==
  ASSUME NEW q \in Asks, WellNamed(q), NEW i \in DOMAIN ChainOf(q).nodes
  PROVE  Clear(Substitute(ChainOf(q).nodes[i].mapping, q.params), ChainOf(q))
<1>. DEFINE parts == ChainOf(q).nodes[i].mapping
            params == q.params
            chain == ChainOf(q)
<1>1. \A name : Clear(Value(params, name), chain)
  BY ChainAssumption DEF Value, Nothing, Clear, WellNamed
<1>2. \A name : \A part \in AsText(Value(params, name)) : part.kind = "ref" => NamesNode(part, chain)
  <2>1. Text.kind # "ref"  BY DEF Text
  <2>. SUFFICES ASSUME NEW name, NEW part \in AsText(Value(params, name)), part.kind = "ref"
                PROVE  NamesNode(part, chain)
    OBVIOUS
  <2>2. part \in Value(params, name).parts  BY <2>1 DEF AsText
  <2>. QED  BY <1>1, <2>2 DEF Clear
<1>3. \A part \in parts : part.kind = "ref" => NamesNode(part, chain)  BY DEF WellNamed
<1>4. CASE \E part \in parts : part.kind = "param" /\ parts = {part}
  BY <1>1, <1>4 DEF Substitute
<1>5. CASE ~ \E part \in parts : part.kind = "param" /\ parts = {part}
  <2>. DEFINE text == UNION {IF part.kind = "param" THEN AsText(Value(params, part.name)) ELSE {part} : part \in parts}
  <2>1. Substitute(parts, params) = [structured |-> FALSE, parts |-> text]  BY <1>5 DEF Substitute
  <2>2. ASSUME NEW part \in text, part.kind = "ref"  PROVE NamesNode(part, chain)
    <3>1. PICK p \in parts : part \in (IF p.kind = "param" THEN AsText(Value(params, p.name)) ELSE {p})  OBVIOUS
    <3>. QED  BY <3>1, <1>2, <1>3, <2>2
  <2>. HIDE DEF text
  <2>. QED  BY <2>1, <2>2 DEF Clear
<1>. QED  BY <1>4, <1>5

LEMMA CopyShape ==
  ASSUME NEW node, NEW chain, NEW prefix, NEW params
  PROVE  /\ Copy(node, chain, prefix, params).id = [prefix |-> prefix, name |-> node.id]
         /\ Copy(node, chain, prefix, params).id.prefix = prefix
         /\ Copy(node, chain, prefix, params).id.name = node.id
         /\ Copy(node, chain, prefix, params).mapping
              = RewriteInputMapping(Substitute(node.mapping, params), chain, prefix)
BY DEF Copy

LEMMA CopiesAreNodes ==
  ASSUME NEW chain, NEW prefix, NEW params, NEW n \in Fragment(chain, prefix, params).nodes
  PROVE  "id" \in DOMAIN n /\ "mapping" \in DOMAIN n
<1>1. PICK i \in DOMAIN chain.nodes : n = Copy(chain.nodes[i], chain, prefix, params)  BY DEF Fragment
<1>. QED  BY <1>1 DEF Copy

LEMMA CopiesFit ==
  ASSUME NEW q \in Asks, WellNamed(q), NEW prefix
  PROVE  Brings(Fragment(ChainOf(q), prefix, q.params), prefix)
<1>. DEFINE chain == ChainOf(q)
            copy(i) == Copy(chain.nodes[i], chain, prefix, q.params)
            fragment == Fragment(chain, prefix, q.params)
            copies == {copy(i) : i \in DOMAIN chain.nodes}
<1>1. fragment.nodes = copies
      /\ fragment.edges = {[from |-> Rewritten(e.from, chain, prefix), to |-> Rewritten(e.to, chain, prefix), rule |-> e.rule] : e \in chain.edges}
  BY DEF Fragment
<1>2. \A i \in DOMAIN chain.nodes :
        /\ copy(i).id = [prefix |-> prefix, name |-> chain.nodes[i].id]
        /\ copy(i).id.prefix = prefix /\ copy(i).id.name = chain.nodes[i].id
        /\ copy(i).mapping = RewriteInputMapping(Substitute(chain.nodes[i].mapping, q.params), chain, prefix)
  BY CopyShape
<1>. HIDE DEF copy
<1>3. {n.id : n \in copies} = {[prefix |-> prefix, name |-> name] : name \in Names(chain)}
  <2>1. {n.id : n \in copies} = {copy(i).id : i \in DOMAIN chain.nodes}  OBVIOUS
  <2>. HIDE DEF copies
  <2>2. {copy(i).id : i \in DOMAIN chain.nodes} = {[prefix |-> prefix, name |-> chain.nodes[i].id] : i \in DOMAIN chain.nodes}
    <3>. DEFINE old(i) == copy(i).id
                new(i) == [prefix |-> prefix, name |-> chain.nodes[i].id]
    <3>1. \A i \in DOMAIN chain.nodes : old(i) = new(i)  BY <1>2
    <3>. HIDE DEF old, new
    <3>2. {old(i) : i \in DOMAIN chain.nodes} = {new(i) : i \in DOMAIN chain.nodes}  BY <3>1
    <3>. QED  BY <3>2 DEF old, new
  <2>3. {[prefix |-> prefix, name |-> chain.nodes[i].id] : i \in DOMAIN chain.nodes} = {[prefix |-> prefix, name |-> name] : name \in Names(chain)}
    BY DEF Names
  <2>. QED  BY <2>1, <2>2, <2>3
<1>4. ASSUME NEW ref, NamesNode(ref, chain)
      PROVE  /\ Known(Rewritten(ref, chain, prefix), copies)
             /\ Rewritten(ref, chain, prefix).kind = "ref"
  <2>1. PICK name \in Names(chain) \cup ParentNodes : ref = Ref(name)  BY <1>4 DEF NamesNode
  <2>2. CASE name \in Names(chain)
    <3>1. Rewritten(ref, chain, prefix) = [Ref(name) EXCEPT !.prefix = prefix]  BY <2>1, <2>2 DEF Rewritten, Ref
    <3>2. IdOf(Rewritten(ref, chain, prefix)) = [prefix |-> prefix, name |-> name]  BY <3>1 DEF IdOf, Ref
    <3>. QED  BY <1>3, <2>2, <3>1, <3>2 DEF Known, Ref
  <2>3. CASE name \notin Names(chain)
    <3>1. Rewritten(ref, chain, prefix) = Ref(name)  BY <2>1, <2>3 DEF Rewritten, Ref
    <3>2. IdOf(Rewritten(ref, chain, prefix)) = OwnId(name)  BY <3>1 DEF IdOf, Ref, OwnId
    <3>. QED  BY <2>1, <2>3, <3>1, <3>2 DEF Known, Ref
  <2>. QED  BY <2>2, <2>3
<1>5. ASSUME NEW value, Clear(value, chain), NEW part \in RewriteInputMapping(value, chain, prefix).parts, part.kind = "ref"
      PROVE  Known(part, copies)
  <2>1. PICK p \in value.parts : part = IF p.kind = "ref" THEN Rewritten(p, chain, prefix) ELSE p
    BY <1>5 DEF RewriteInputMapping, Clear
  <2>. QED  BY <1>4, <1>5, <2>1 DEF Clear
<1>6. \A i \in DOMAIN chain.nodes : \A part \in copy(i).mapping.parts : part.kind = "ref" => Known(part, copies)
  BY <1>2, <1>5, SubstituteClear
<1>7. \A e \in fragment.edges : Known(e.from, copies) /\ Known(e.to, copies)
  <2>. SUFFICES ASSUME NEW e \in fragment.edges  PROVE Known(e.from, copies) /\ Known(e.to, copies)
    OBVIOUS
  <2>1. PICK d \in chain.edges : e = [from |-> Rewritten(d.from, chain, prefix), to |-> Rewritten(d.to, chain, prefix), rule |-> d.rule]
    BY <1>1
  <2>2. e.from = Rewritten(d.from, chain, prefix) /\ e.to = Rewritten(d.to, chain, prefix)  BY <2>1
  <2>3. NamesNode(d.from, chain) /\ NamesNode(d.to, chain)  BY DEF WellNamed
  <2>. HIDE DEF copies
  <2>. QED  BY <1>4, <2>2, <2>3
<1>8. \A m, n \in copies : m.id = n.id => m = n
  <2>. SUFFICES ASSUME NEW i \in DOMAIN chain.nodes, NEW j \in DOMAIN chain.nodes, copy(i).id = copy(j).id
                PROVE  i = j
    OBVIOUS
  <2>1. copy(i).id.name = chain.nodes[i].id /\ copy(j).id.name = chain.nodes[j].id  BY <1>2
  <2>. QED  BY <2>1 DEF WellNamed
<1>9. \A n \in copies : n.id.prefix = prefix  BY <1>2
<1>10. \A n \in copies : \A part \in n.mapping.parts : part.kind = "ref" => Known(part, copies)  BY <1>6
<1>. HIDE DEF copies, fragment
<1>11. Brings(fragment, prefix)  BY <1>1, <1>7, <1>8, <1>9, <1>10 DEF Brings
<1>. QED  BY <1>11 DEF fragment

Bare(n) == [n EXCEPT !.irreversible = FALSE, !.inverse = "none", !.mapping = Nothing]

LEMMA BareShape ==
  ASSUME NEW n, "id" \in DOMAIN n, "mapping" \in DOMAIN n
  PROVE  Bare(n).id = n.id /\ Bare(n).mapping = Nothing
BY DEF Bare

(* What a chain says of compensation may be left out.                      *)
LEMMA BareCopiesFit ==
  ASSUME NEW fragment, NEW prefix, Brings(fragment, prefix), NEW bare, NEW result,
         \A n \in fragment.nodes : bare[n].id = n.id /\ bare[n].mapping = Nothing,
         result.nodes = {bare[n] : n \in fragment.nodes}, result.edges = fragment.edges
  PROVE  Brings(result, prefix)
<1>1. {n.id : n \in result.nodes} = {n.id : n \in fragment.nodes}  OBVIOUS
<1>2. \A n \in result.nodes : n.mapping.parts = {}  BY DEF Nothing
<1>. QED  BY <1>1, <1>2 DEF Brings, Known

(* Whatever chains are put into a workflow, and however often: every edge    *)
(* joins nodes of it, every reference of a compensation names one, and no     *)
(* two nodes have one id.                                                    *)
THEOREM ChainsFit == ChainSpec => []NothingDangles
<1>1. ChainInit => ChainInv
  <2>. SUFFICES ASSUME ChainInit PROVE ChainInv  OBVIOUS
  <2>1. spliced = <<>> /\ spliced \in Seq({}) /\ flow.edges = {}
    BY DEF ChainInit
  <2>. DEFINE own(name) == [id |-> [prefix |-> <<>>, name |-> name], type |-> "own", config |-> Nothing,
                             irreversible |-> FALSE, inverse |-> "none", mapping |-> Nothing]
  <2>2. /\ flow.nodes = {own(name) : name \in ParentNodes}
        /\ \A name : own(name).id = OwnId(name) /\ own(name).mapping = Nothing
    BY DEF ChainInit, OwnId
  <2>. HIDE DEF own
  <2>3. \A n \in flow.nodes : n.id.prefix = <<>> /\ n.mapping.parts = {}
    <3>1. (\A name : OwnId(name).prefix = <<>>) /\ Nothing.parts = {}  BY DEF OwnId, Nothing
    <3>. QED  BY <2>2, <3>1
  <2>4. \A m, n \in flow.nodes : m.id = n.id => m = n
    <3>1. \A name : OwnId(name).name = name  BY DEF OwnId
    <3>. QED  BY <2>2, <3>1
  <2>5. \A name \in ParentNodes : OwnId(name) \in Ids  BY <2>2 DEF Ids
  <2>. QED  BY <2>1, <2>3, <2>4, <2>5 DEF ChainInv, Dated, NothingDangles
<1>2. ChainInv /\ [ChainNext]_chainVars => ChainInv'
  <2>. SUFFICES ASSUME ChainInv, [ChainNext]_chainVars PROVE ChainInv'  OBVIOUS
  <2>1. ASSUME NEW q \in Asks, ExpandWithCompensation(q)  PROVE ChainInv'
    <3>1. WellNamed(q)  BY <2>1, ReferencesAssumption DEF ExpandWithCompensation
    <3>. QED  BY <2>1, <3>1, CopiesFit, SpliceKeeps DEF ExpandWithCompensation
  <2>2. ASSUME NEW q \in Asks, Expand(q)  PROVE ChainInv'
    <3>. DEFINE fragment == Fragment(ChainOf(q), PrefixOf(q.chain, Len(spliced)), q.params)
    <3>1. WellNamed(q)  BY <2>2, ReferencesAssumption DEF Expand
    <3>. DEFINE bare == [n \in fragment.nodes |-> Bare(n)]
                result == [fragment EXCEPT !.nodes = {Bare(n) : n \in fragment.nodes}]
    <3>2. \A n \in fragment.nodes : bare[n].id = n.id /\ bare[n].mapping = Nothing
      <4>1. \A n \in fragment.nodes : "id" \in DOMAIN n /\ "mapping" \in DOMAIN n  BY CopiesAreNodes
      <4>. HIDE DEF fragment
      <4>. QED  BY <4>1, BareShape
    <3>3. result.nodes = {bare[n] : n \in fragment.nodes} /\ result.edges = fragment.edges
      BY DEF Fragment
    <3>4. Brings(fragment, PrefixOf(q.chain, Len(spliced)))  BY <3>1, CopiesFit
    <3>5. Splice(result, flow.policy, [q EXCEPT !.chain = "none"])  BY <2>2 DEF Expand, Bare
    <3>. HIDE DEF fragment, bare, result
    <3>6. Brings(result, PrefixOf(q.chain, Len(spliced)))  BY <3>2, <3>3, <3>4, BareCopiesFit
    <3>. QED  BY <3>5, <3>6, SpliceKeeps
  <2>3. CASE UNCHANGED chainVars
    BY <2>3 DEF chainVars, ChainInv, Dated, Ids, NothingDangles
  <2>. QED  BY <2>1, <2>2, <2>3 DEF ChainNext
<1>. QED  BY <1>1, <1>2, PTL DEF ChainSpec, ChainInv
=============================================================================
