---------------------------- MODULE InMemoryHost ----------------------------
(***************************************************************************)
(* The in-memory host (in-memory/src/server.ts): runs, the idempotency cache *)
(* and one owner's workspace of versioned files.                             *)
(*                                                                           *)
(* Each turn of the event loop runs a handler, or a timer's callback with    *)
(* all that it resolves, without a break: a run only ever stops in a delay.  *)
(* A file's content is the number of the write that made it.                 *)
(***************************************************************************)
EXTENDS Integers, Sequences, FiniteSets

CONSTANTS Paths, IndexPath,       \* paths of files, and that of the memory index
          MaxFiles, MaxVersions,  \* WORKSPACE_MAX_FILES, WORKSPACE_MAX_VERSIONS
          Workflows,              \* workflow -> the kinds of its nodes
          Runs, Keys,             \* ids of runs, Idempotency-Keys
          MaxWrites               \* bound: writes of files

ASSUME InMemoryAssumption ==
  /\ IndexPath \in Paths /\ IsFiniteSet(Paths)
  /\ MaxFiles \in Nat /\ MaxVersions \in Nat \ {0} /\ MaxWrites \in Nat
  /\ \A w \in DOMAIN Workflows : Workflows[w] \in Seq({"noop", "delay", "wasm", "wasm fails", "unknown"})

VARIABLES files,   \* path -> its versions, oldest first
          writes,  \* how many there were
          seen,    \* path -> the etag the editor last read, by version and content
          edit,    \* history: whether the last write was conditional, and on what content
          runs, cache

memoryVars == <<files, writes, seen, edit, runs, cache>>

workspace == <<files, writes, seen, edit>>

---------------------------------------------------------------------------
(* Files *)

LastOf(history) == history[Len(history)]

\* workspaceLatestLive
IsLive(history) == history # <<>> /\ ~LastOf(history).deleted

LivePaths == {p \in Paths : IsLive(files[p])}

Version(n, content) == [version |-> n, content |-> content, deleted |-> FALSE]

Tombstone(n) == [version |-> n, content |-> 0, deleted |-> TRUE]

\* A history keeps its newest versions.
Kept(history) ==
  IF Len(history) > MaxVersions THEN SubSeq(history, Len(history) - MaxVersions + 1, Len(history)) ELSE history

\* The version after the last one the path had, a tombstone too.
NextVersion(p) == IF files[p] = <<>> THEN 1 ELSE LastOf(files[p]).version + 1

\* A path that is not live must fit in.
HasRoom(p) == IsLive(files[p]) \/ Cardinality(LivePaths) < MaxFiles

\* A wrong form: the etag of any version kept will do.
IfMatchKnown(p) == IsLive(files[p]) /\ \E i \in DOMAIN files[p] : files[p][i].version = seen[p].version

\* The etag read is that of the live version.
IfMatch(p) == IsLive(files[p]) /\ LastOf(files[p]).version = seen[p].version

\* workspacePutOp, with If-Match or without.
Put(p, conditional) ==
  /\ writes < MaxWrites
  /\ conditional => IfMatch(p)
  /\ HasRoom(p)
  /\ files' = [files EXCEPT ![p] = Kept(Append(@, Version(NextVersion(p), writes + 1)))]
  /\ writes' = writes + 1
  /\ edit' = [conditional |-> conditional, content |-> seen[p].content]
  /\ UNCHANGED <<seen, runs, cache>>

\* A wrong form: the path's history goes with it.
DeleteAll(p) ==
  /\ IsLive(files[p])
  /\ files' = [files EXCEPT ![p] = <<>>]
  /\ edit' = [conditional |-> FALSE, content |-> 0]
  /\ UNCHANGED <<writes, seen, runs, cache>>

\* workspaceDeleteOp
Delete(p) ==
  /\ IsLive(files[p])
  /\ files' = [files EXCEPT ![p] = Kept(Append(@, Tombstone(LastOf(@).version + 1)))]
  /\ edit' = [conditional |-> FALSE, content |-> 0]
  /\ UNCHANGED <<writes, seen, runs, cache>>

\* workspaceGetOp without a version: the editor keeps the etag.
Get(p) ==
  /\ IsLive(files[p])
  /\ seen' = [seen EXCEPT ![p] = [version |-> LastOf(files[p]).version, content |-> LastOf(files[p]).content]]
  /\ UNCHANGED <<files, writes, edit, runs, cache>>

\* workspaceGetOp with a version: the contents it may answer with.
GetVersion(p, n) == {files[p][i].content : i \in {j \in DOMAIN files[p] : files[p][j].version = n /\ ~files[p][j].deleted}}

\* handleMemoryDistill writes the index, whatever is there.
Distill == Put(IndexPath, FALSE)

\* workspaceSnapshotFor: the versions a run started with, and (for the
\* properties) what was in them.
Snapshot == [p \in LivePaths |-> [version |-> LastOf(files[p]).version, content |-> LastOf(files[p]).content]]

---------------------------------------------------------------------------
(* Runs *)

NoRun == [status |-> "none", flow |-> "none", at |-> 0, cancelRequested |-> FALSE, timedOut |-> FALSE,
          events |-> <<>>, snapshot |-> [p \in {} |-> 0]]

AppendEvents(run, types) == [run EXCEPT !.events = @ \o types]

Finish(run, status, types) == [AppendEvents(run, types) EXCEPT !.status = status]

\* failRunDuration
FailRunDuration(run) == Finish(run, "failed", <<"cap.breached", "run.failed">>)

\* executeNode, up to the delay: how the node comes out, and its events.
NodeEvents(kind) ==
  CASE kind \in {"noop", "wasm"} -> <<"node.started", "node.completed">>
    [] kind = "delay" -> <<"node.started">>
    [] OTHER -> <<"node.started", "node.failed">>

\* The nodes from n on at which a run stops: a delay, or one that fails.
StopsFrom(kinds, n) == {i \in n..Len(kinds) : kinds[i] \notin {"noop", "wasm"}}

LastFrom(kinds, n) ==
  IF StopsFrom(kinds, n) = {} THEN Len(kinds) ELSE CHOOSE i \in StopsFrom(kinds, n) : \A j \in StopsFrom(kinds, n) : i <= j

EventsFrom(kinds, n) ==
  LET events[i \in n - 1..Len(kinds)] == IF i = n - 1 THEN <<>> ELSE events[i - 1] \o NodeEvents(kinds[i])
  IN  events[LastFrom(kinds, n)]

\* runWorkflow from a node on: until a delay, a failure or the end.
RunFrom(run, n) ==
  LET kinds == Workflows[run.flow]
      ran == AppendEvents(run, EventsFrom(kinds, n))
  IN  IF StopsFrom(kinds, n) = {} THEN Finish(ran, "completed", <<"run.completed">>)
      ELSE IF kinds[LastFrom(kinds, n)] = "delay" THEN [ran EXCEPT !.at = LastFrom(kinds, n)]
      ELSE Finish(ran, "failed", <<"run.failed">>)

Asleep(r) == runs[r].status = "running" /\ runs[r].at > 0

\* handleCreateRun: the answer is kept under the key before the run goes.  With
\* a key that is kept the request is answered or refused, and changes nothing.
CreateRun(r, w, key) ==
  /\ runs[r].status = "none"
  /\ key \notin DOMAIN cache
  /\ runs' = [runs EXCEPT ![r] =
       RunFrom([NoRun EXCEPT !.status = "running", !.flow = w, !.events = <<"run.started">>, !.snapshot = Snapshot], 1)]
  /\ cache' = IF key = "none" THEN cache ELSE [k \in DOMAIN cache \cup {key} |-> IF k = key THEN [run |-> r, body |-> w] ELSE cache[k]]
  /\ UNCHANGED workspace

\* The delay is over: the run goes on after it.
Wake(r) ==
  /\ Asleep(r)
  /\ runs' = [runs EXCEPT ![r] = RunFrom(AppendEvents([@ EXCEPT !.at = 0], <<"node.completed">>), @.at + 1)]
  /\ UNCHANGED <<workspace, cache>>

\* The deadline's timer aborts the delay, and the run fails by it.
Deadline(r) ==
  /\ Asleep(r)
  /\ runs' = [runs EXCEPT ![r] = FailRunDuration(AppendEvents([@ EXCEPT !.timedOut = TRUE, !.at = 0], <<"node.failed">>))]
  /\ UNCHANGED <<workspace, cache>>

\* handleCancelRun aborts the delay, and the run ends cancelled.
CancelRun(r) ==
  /\ Asleep(r)
  /\ runs' = [runs EXCEPT ![r] =
       Finish([@ EXCEPT !.cancelRequested = TRUE, !.at = 0], "cancelled", <<"node.cancelled", "run.cancelled">>)]
  /\ UNCHANGED <<workspace, cache>>

\* pruneIdempotencyCache: a key is forgotten after a day.
Prune(key) ==
  /\ key \in DOMAIN cache
  /\ cache' = [k \in DOMAIN cache \ {key} |-> cache[k]]
  /\ UNCHANGED <<workspace, runs>>

---------------------------------------------------------------------------
MemoryInit ==
  /\ files = [p \in Paths |-> <<>>] /\ writes = 0
  /\ seen = [p \in Paths |-> [version |-> 0, content |-> 0]]
  /\ edit = [conditional |-> FALSE, content |-> 0]
  /\ runs = [r \in Runs |-> NoRun] /\ cache = [k \in {} |-> 0]

MemoryNext ==
  \/ \E p \in Paths : Put(p, TRUE) \/ Put(p, FALSE) \/ Delete(p) \/ Get(p)
  \/ Distill
  \/ \E r \in Runs : Wake(r) \/ Deadline(r) \/ CancelRun(r)
  \/ \E r \in Runs, w \in DOMAIN Workflows, key \in Keys \cup {"none"} : CreateRun(r, w, key)
  \/ \E key \in Keys : Prune(key)

MemorySpec == MemoryInit /\ [][MemoryNext]_memoryVars

---------------------------------------------------------------------------
(* What is promised *)

\* No lost update: a conditional write replaces exactly what the editor read,
\* whatever was written, deleted and made again since (server.ts:893-906).
NoLostUpdate ==
  [][\A p \in Paths : files'[p] # files[p] /\ edit'.conditional =>
       IsLive(files[p]) /\ LastOf(files[p]).content = edit'.content]_memoryVars

\* A run's snapshot stands: each version it names still has the content it had
\* when the run started, or none (server.ts:1089-1101, :1968-1973).
SnapshotStands ==
  \A r \in Runs : \A p \in DOMAIN runs[r].snapshot :
    GetVersion(p, runs[r].snapshot[p].version) \subseteq {runs[r].snapshot[p].content}
=============================================================================
