# A verification project for the OpenWOP example hosts

This directory holds TLA+ modules for the hosts of `openwop-examples`, the
configurations TLC checks them with, and proofs TLAPS checks. The main subject is
the v2 reference host, `src/examples/hosts/v2-reference` (11 000 lines of
TypeScript): one Node.js process over one SQLite file that accepts workflow
runs, executes them, suspends them on interrupts, resumes them, delivers their
events and survives being killed. The four other hosts follow: `postgres`
(several processes over one database), `sqlite` (its v1 predecessor),
`in-memory`, and `python` (threads). `PROJECT.json` lists components, runs,
hazards, findings and theorems, and maps every definition to the lines it
models.

## 1. Inventory

Paths are under `src/examples/hosts/v2-reference/src/`.

| component | state it keeps | operations | what is hard |
|---|---|---|---|
| scheduler (`executor.ts:45-208`) | none: it folds the event log | `orderNodes`, `fires`, `delivers`, `nextNode` | cycles, trigger rules read too early, laps of a loop overtaking each other |
| executor (`executor.ts:413-1057`) | the run's row, its event log, its interrupt rows (SQLite); `active`, `pausePolicy`, `cancelReasons` (memory) | `continueRun`, `requestCancel`, `requestPause`, `requestResume`, `resolveAndResume`, `sweepApprovalTimeouts`, the oauth callback | handlers, timers and loops interleave at every await; each statement commits on its own, so a kill falls between any two |
| run handlers (`runs.ts`) | none | create, cancel, bulk cancel, pause, resume, fork, resolve by run and by token, poll, stream | the run is loaded before the body is awaited |
| interrupts (`interrupts.ts`) | votes, tokens | `mintInterrupt`, `validateResolve`, `tallyVote` | one claim among racing resolvers, quorum votes |
| recovery (`durability.ts`) | none | `recoverInFlightRuns`; a seam that delivers one run twice | what a boot finds half written |
| effect ledger (`effects.ts`, `store.ts:566-609`) | effect rows; `inFlight` (memory) | `performHttpFetch`, `replayRecordedEffect`, `performConformanceSideEffect` | at most one request per attempt across retries, duplicates, crashes and runs that share a business key |
| idempotency keys (`router.ts:350-394`) | idempotency rows | `withIdempotency` | a claim whose holder died, a retry of what was done |
| webhooks (`webhooks.ts`) | subscriptions, deliveries | fan-out, attempt, backoff, dead letter, purge, secret rotation | at least once, across kills and overlapping ticks |
| event log and streams (`events.ts`) | the event rows; per connection `delivered`, `batch` | `appendEvent`, poll, `streamRun` | backlog against live, batches against reconnection |
| fork and replay (`replay.ts`) | the fork's prefix | `forkRun` | a prefix copied event by event, a source that is not over |
| budgets (`budget.ts`) | events | reserve, charge | reservation lost by a kill |
| audit log (`audit.ts`) | hash chain, checkpoints | append, checkpoint, verify | order of appends |
| A2A and MCP surfaces (`a2a-server.ts`, `a2a-push.ts`, `mcp-server.ts`) | task rows, recorded messages, spent requestStates, pages (SQLite); the push config, who owns a tool call (memory) | messages, task cancels, push configs, tool calls and their retries, task updates, pages, disconnects | an answer may come four ways, late or twice, for a run that has gone on; a push is projected from a row that lags behind the event |
| oauth, identity, discovery, seams | protocol façades | | mostly validation and wording |

How they interact: a handler runs to its first `await` and again to its end; it
reads and writes SQLite synchronously and calls the executor's functions in the
same stretch. The executor's loop runs in a `setImmediate` callback, one per
run (`scheduleRun`), and gives the thread away only where a node awaits. An
append emits the event on an in-process bus, on which streams and the webhook
fan-out listen synchronously. Timers sweep approval deadlines, tick deliveries
and purge. After a kill the boot re-enters the runs it finds in flight.

The other hosts, paths under `src/examples/hosts/`:

| host | state it keeps | operations | what is hard |
|---|---|---|---|
| `postgres` | runs, events, interrupts, votes, subscriptions, audit rows (tables); executors, abort controllers, the one connection and its transaction tail (memory, per process) | create, execute, cancel, pause, resume, resolve, sub-workflows and dispatches, claims by advisory lock, orphan recovery, shutdown, streams, polls, webhooks | every statement is awaited, so anything runs between two of them; several processes race for a run |
| `sqlite` | the same tables in a file, a lease (`claim_holder`, `claim_expires`) in a run's row | the same but pause; orphans are sought once at start | a crash after any statement; a lease outlives its process |
| `in-memory` | runs, idempotency cache, a workspace of versioned files | create, cancel, workspace get, put, delete, distil, snapshots, chain expansion | etags and version numbers of files that were deleted and made again; names rewritten in expanded chains |
| `python` | `Run` objects, a key cache with a lock per key | create, execute, cancel, pause, resume, stream | real threads over shared fields, of which only events are under a lock |
| audit logs (`v2-reference`, `sqlite`, `postgres`) | entries, checkpoints | append, checkpoint, verify a range | numbering and linking under concurrency, and what a re-walk must report |

## 2. Modules

| module | extends | what it is |
|---|---|---|
| `WorkflowGraph` | | the pure part of the scheduler: edges, order, rules, `NextNode` |
| `Scheduler` | `WorkflowGraph` | the scheduling loop alone, over a set of arbitrary graphs |
| `MCScheduler` | `Scheduler` | all graphs of two nodes, a family of those of three |
| `Executor` | `WorkflowGraph` | the run lifecycle: handlers, loop, interrupts, sweep, kill, boot |
| `ExecutorInvariant` | `Executor` | the inductive invariant `Consistent` |
| `MCExecutor` | `ExecutorInvariant` | six small workflows, one per thing a node can do |
| `ExecutorAuditProofs` | `ExecutorInvariant`, `AuditLog` | the theorems about the executor, after what one appended event, one statement and one sequence of statements preserve; of the audit log, that the chain holds, checkpoints keep up, tampering is seen, and the refinement of `AppendOnlyLog` |
| `EffectLedger` | | `performHttpFetch` under retries, double deliveries, shared business keys, kills |
| `NodeProofs` | `EffectLedger`, `Scheduler` | the theorems about the visiting order, stale inputs and the identity of an effect |
| `Idempotency` | | `withIdempotency` around any endpoint |
| `MCIdempotency` | `Idempotency` | requests that share a key and differ in what they can differ in |
| `EventStream` | | one run's SSE stream and a client that reconnects |
| `Webhooks` | | v2 fan-out, delivery worker, back-off, dead letters, forks |
| `MCWebhooks` | `Webhooks` | two subscriptions |
| `DeliveryProofs` | `Webhooks`, `HostStreams` | the theorems about deliveries and the v1 hosts' streams |
| `AppendOnlyLog` | | abstract: a log that only grows |
| `AuditChain` | | the pure part of the audit logs: hashes, checkpoints, what a re-walk reports |
| `AuditLog` | `AuditChain` | the writers of the three hosts, their locks, transactions, crashes; tampering |
| `MCAuditLog` | `AuditLog` | two processes with three handlers |
| `MCExecutorAudit` | `MCExecutor`, `MCAuditLog` | two parts without common state in one run |
| `HostStatements` | | what the statements of the two v1 database hosts have in common |
| `PostgresHost`, `MCPostgresHost` | `HostStatements` | the run lifecycle of the postgres host, nineteen workflows |
| `PostgresProofs` | `PostgresHost` | no run is executed by two processes, or cancelled unasked, and no child is made twice |
| `SqliteHost`, `MCSqliteHost` | `HostStatements` | that of the sqlite host, fourteen workflows |
| `SqliteProofs` | `SqliteHost` | no run is lost, no gate is passed that was not granted |
| `SqliteWaitProofs` | `SqliteProofs` | what waits can be answered |
| `PythonHost`, `MCPythonHost` | | the threads of the python host |
| `PythonProofs` | `PythonHost` | its ends and its streams |
| `HostStreams` | | streams, polls and webhook subscriptions of the v1 hosts |
| `InMemoryHost` | | workspace, runs and keys of the in-memory host |
| `AgentTasks` | | a caller's runs as A2A tasks, MCP tool calls and MCP tasks |
| `SurfaceProofs` | `InMemoryHost`, `AgentTasks`, `Idempotency`, `ChainExpansion` | no lost update, standing snapshots; answers that fit, ends that are pushed; work and replies under a key; chains that fit |
| `ChainExpansion` | | workflow chains put into a workflow |
| `MCParts` | `MCScheduler`, `MCIdempotency`, `AgentTasks` | three parts of the v2 host without common state in one run |
| `MCSurfaces` | `EventStream`, `HostStreams`, `InMemoryHost`, `ChainExpansion` | four parts without common state in one run |

The four systems `Scheduler`, `EffectLedger`, `Idempotency` and `EventStream`
touch `Executor` at one place each. The executor takes its next node from the
scheduler's `NextNode` (both extend `WorkflowGraph`). A node that fetches is,
for the executor, an await that ends well or badly; `EffectLedger` opens that
await and keeps of the executor what a fetch meets: a start, a re-delivery, the
check whether somebody ended the execution meanwhile, the end. `Idempotency`
wraps the handlers, of which it keeps that they do their work or refuse. The
stream follows the log, of which it keeps that the terminal event is the last.

### State of the executor

`file[r]` is what SQLite holds of run `r`: `status`, the two request flags, the
event log, the interrupt keys minted and those still open. `mem` is what the
process holds: for each run its loop (`off`, `queued` behind `setImmediate`,
`on` the thread, or in `await` of a node), its pause policy, and for each
connection a request whose handler has loaded the run and awaits the body. `up`
says whether the process lives. A kill resets `mem` and keeps `file`.

### Steps

JavaScript gives the thread away only at an await, so a handler, a tick or a
stretch of the loop is one step, a *section*. But its statements commit one by
one. A section is therefore the sequence of images its statements leave of the
run's rows, and it either leaves the last one or the process dies on an earlier
one (`Section`). This keeps the interleavings the program has and adds none: no
other handler sees the middle of a section, the next boot may.

A request may come with its body (`Call`) or have its body lag (`Arrive`, then
`Body`): the handlers of cancel, pause, resume and resolve load the run before
they await the body, and decide by what they loaded.

| action | code |
|---|---|
| `Create`, `Call`, `Arrive`, `Body` | `runs.ts` handlers |
| `RequestCancel`, `RequestPause`, `RequestResume`, `Resolve`, `RecordResolution` | the functions of those names, `executor.ts:887-976` |
| `GrantCompleted` | the oauth callback's handler, `executor.ts:1085` |
| `Sweep` | `sweepApprovalTimeouts` |
| `Enter`, `Turn` (`Dispatch`, `Execute`, `Reenter`, `Breach`, `Finish`) | `continueRun` up to an await |
| `WakeDone`, `WakeFailed`, `WakeSuspend`, `WakeCancelled`, `WakePaused` | `continueRun` after one |
| `Crash`, the second disjunct of every `Section`, `Boot` | SIGKILL, `recoverInFlightRuns` |

Data is cut to what decides: a node is one of eight kinds, an event carries its
type, node, decision and visit index, a quorum is one deciding vote, payloads
and messages are gone.

### The effect ledger

Durable: the runs' deliveries (`accepted`), the rows of `effects` (`rows`), and
how each execution of the node ended (`log`). Volatile: `loops`, one per
delivery of a run (the seam of `durability.ts` delivers one twice, below the
one-loop guard), and the `inFlight` map; loops that share its promise wait `on`
the loop that made it. A request is out while its loop is at `fire`; every
request a loop sends stands in a row it claimed before.

| action | code |
|---|---|
| `Accept` | acceptance of a run, or its second delivery |
| `Begin` (`Perform`, `Mirror`, `Fetch`, `Try`) | the top of the loop up to the await of the request, `effects.ts:161-231` |
| `Answer`, `Wake` | the request ends, its record, the waiters' turns, `effects.ts:232-257` |
| `Retry`, `Complete`, `Fail` | the next transport attempt, the node's end |
| `Crash`, `Boot` | SIGKILL, `recoverInFlightRuns` |

### Idempotency keys

Durable: `db.table`, one row per endpoint and key with its digest and reply;
`db.work`, what handlers did. Volatile: `calls`, the handlers that wait between
claim and work (an armed hold, an endpoint challenge). `Send` is
`withIdempotency` from its lookup to its first await or its end, `Proceed` the
rest of it. As in the executor a section is a sequence of images, and a kill
may stop it on any: after the claim, or between the work and the record of the
reply. What a handler does is one piece of work; that it is itself several
statements is `Executor`'s subject.

### Event streams

`log` is the run's events by what a stream tells apart, `conn` the host's end
of the connection (`delivered`, `batch`, its timer, the frames on their way),
`client` the last id it saw and the events it got. `Connect` is `streamRun` up
to its return: the backlog is written and the listener subscribed in one
stretch, without an await. `AppendEvent` delivers to the listener synchronously,
as the bus does. `Drop` loses the connection and everything on its way;
the client is the repository's own `streaming-client`.

### Webhook deliveries

Durable: the logs of a source run and its fork (`runs`), subscriptions (`subs`),
one row per subscription and event (`rows`). Volatile: POSTs under way
(`flight`), registrations that await the endpoint's answer (`verifying`).
`Produce` is an append with its synchronous fan-out, a kill between the two
included; `Tick` reads the due page and starts its POSTs; `Delivered` and
`Refused` are their outcomes; `ForkRun` copies a prefix event by event and may
die in the middle; `accepted` and `posts` are histories.

### The database hosts

`PostgresHost` and `SqliteHost` are written alike. An executor or a handler is a
*thread*, and what it has left to do is a sequence of statements; a step takes
the first one and, where the code branches, puts those the branch leads to in
its place. What a thread has read is part of its state, so that a stale row is
stale. The programs (`Enter`, `RunNode`, `Suspend`, `Resolve`, ...) are named
after the functions they model.

In the postgres host any thread of any process may take the next step, since
each statement is awaited; a claim is an advisory lock of the process's
connection: refused to another process, granted again to the same, gone with a
dead one. In the sqlite host statements are synchronous: the process has a
queue of threads, the first runs until it awaits, and only then does the event
loop take another event; a crash may come after any statement, and a lease in
the run's row lapses with time. Kinds of nodes stand for what the executor does
for them; the workflows of the MC modules hold one of each kind.

### The audit log

`entries` and `cps` are the tables; `lock`, `conn` and `handler` what the postgres
handlers hold, have open on a shared connection, and have read. The hosts are
three values of the variable `host`: in `v2` and `sqlite` an append is one
synchronous step, in `postgres` four statements under an advisory lock.
`Edit`, `Delete` and the like tamper with stored rows, after which `intact` is
false and `owed` holds the ranges over which a re-walk must report something.
`AuditLog` implements `AppendOnlyLog` under `INSTANCE AppendOnlyLog WITH` the
table as the abstract log, while nobody tampers with it.

### The python host

`run[r]` holds a run's shared fields; `Execute`, `Deadline`, `Call`/`Control`
(a cancel, pause or resume, test by test), `Create` and `Serve` are threads. A
step reads or writes shared state once.

### Streams of the v1 hosts

In the postgres host a stream is opened in three queries between which events
are committed and emitted; `queue` is the connection's first-in-first-out queue
of statements, `held` the run's row lock, `place` says whether this or another
process drives the run. In the sqlite and in-memory hosts the same is done in
one synchronous stretch. A poll reads the run's row and then its events. A
webhook subscription is looked up after the event was committed.

### The in-memory host and chains

`files[p]` is the version history of a path, deletions included; `seen` what an
editor last read of it; a content is the number of the write that made it. A
handler, or a timer's callback with all it resolves, is one step.
`ChainExpansion` keeps a string as the set of its parts (text, a parameter's
token, a reference to a node) and an id as a prefix and a name; the caller's
splice of the fragment into its workflow is the module's own.

### Agents' tasks

Durable: `store`, the runs with what was asked and who answered it, the message
ids recorded, the requestStates spent, the pages open. Volatile: `heap`, the
loops, the requests being served, the push config. `handed` are the
requestStates clients hold. A handler is one section once its body is there,
with images as in the executor; it may then wait for its run to settle, and the
run's own steps (`StartRun`, `Suspend`, `EndRun`, `LeaveRun`) are those of
`Executor` told in one. A push is a `setImmediate` after an event, which looks
at the row as it is by then (`Push`).

## 3. What is checked

Properties and their meaning are stated above each definition; here is what
each run asks, of one component at a time: `parts`, `surfaces` and
`executor_audit` gather parts that share no state. The executor's types are the first
conjunct of `Consistent`.

| run | asks | bounds |
|---|---|---|
| `executor` | what may still change a terminal run, cancels and runs settle | 6 workflows, 3 requests, any of whose bodies may lag, 1 kill, fairness |
| `executor_audit` | Executor: gates never bypassed, interrupts resolved once. Audit logs: the chain intact, tampering seen, checkpoints keep up, an append-only log is implemented | the same workflows, any request's body may lag, 3 requests, 1 kill; 3 hosts, 2 processes, 3 handlers, 3 entries, a checkpoint every 2 |
| `ledger` | one effect id per operation, deliveries end | 2 runs of one or two operations, 1 retry, 2 executions, 1 kill, fairness |
| `webhooks` | a row tells the truth about its delivery, a fork's history stays quiet, no event unheard, deliveries settle | 2 subscriptions, a run and its fork, 2 events, 2 attempts, pages of 1, 1 kill, fairness |
| `postgres` | claims exclude processes, nodes in order, gates honoured, one child per worker, cancelled only if asked, no run left behind | 2 processes, 19 workflows of up to 4 nodes, 3 threads, 1 or 2 requests, at most 1 crash or deadline, by workflow (`Bounds`) |
| `sqlite` | an idle process leaves no run but those of a dead one's lease, gates honoured, waits answerable | 14 workflows of up to 4 nodes, 4 threads, 2 to 4 requests, at most 2 faults and 1 shutdown, by workflow (`Bounds`); a gate asks for 2 votes, rejected by a majority |
| `python` | a run's end and its event are one, streams exact and closed, runs end | 2 creates with one key, 1 run, 2 callers, 1 stream, fairness |
| `parts` | Scheduler: the order is sound, no stale input. Keys: work once, one reply. Agents' tasks: an answer reaches the interrupt it was given to, the end of a task is pushed | all graphs of 2 nodes with up to 2 edges over five rules and conditions, graphs of 3 nodes with 2 or 3 edges, recursion limit 4; 7 requests of 4 endpoints under one key, 2 connections, 4 sends, 2 kills; 1 run, 2 interrupts of 3 kinds, 2 messages, 2 connections, 2 requestStates, 1 kill |
| `second_task` | a finding below | 2 runs, 1 message, 1 kill |
| `skipped_gate` | a finding below | the postgres host: a callback before a gate, 2 answers |
| `surfaces` | v2 stream: every event arrives. v1 streams, polls and subscriptions: nothing missed, the end arrives. Workspace: no lost update, snapshots stand. Chains: nothing dangles | all sets of modes, 3 events, 2 broken connections; 3 hosts, 3 events; 2 paths, 3 writes, 2 versions kept; 2 expansions, 5 chains, 4 packs; fairness |

Why the bounds are enough. *Executor*: its hazards are races of at most three
parties (a loop, a handler, a sweep or a second handler) around one transition,
with a kill between two statements; three requests are what the longest of those races needs (a wait, its
resolve, and a cancel or pause against it). Runs do not share state in the
executor, so one run is checked. *Ledger*: two runs are what sharing a business
key takes, two executions and one retry what a later execution or attempt
takes, and a kill re-delivers everything. *Idempotency*: a reply is told at
most by a first request, a request that met the claim, and one that comes
after; a fourth sends what a kill interrupted again. *Webhooks*: two deliveries
fill a page of one and leave one due; a subscription that comes or goes meets
one that was there; a second attempt is the last. *Postgres, sqlite*: a race is
for one run (and its child), between an executor, a second one the boot or an
answer starts, and a handler; a workflow has a node before and after the one
that waits. The postgres run bounds requests by workflow, since nineteen of them
under two requests each are out of reach. The sqlite gate is given a creation and
two votes and what is asked meanwhile; behind a supervisor (`reviewed`), which
leads back to it, four requests pass it and let it ask again. *Audit*: three entries are a
checkpoint's range and the start of the next; two handlers share a process and
a third has its own connection. *Python*: the executor, two control requests
and a stream are what shares a run. *Agents*: an answer is late when its run
has gone on to a second interrupt, and doubled when two requests carry it.
*Streams*: a batch, the event that flushes
it and the end are three events; a client that comes back twice has once
resumed from a resumed connection. *Workspace*: two versions are kept, so the
third write trims one. *Chains*: an expansion meets an earlier one of the same
chain.

`CHECK_DEADLOCK FALSE` is in every configuration: a run that is over, paused or
waiting owes no step, and neither does a stream that ended nor a host whose
callers are silent. That what must go on does go on is said by the liveness
properties.

**Fairness.** `setImmediate` callbacks and timers fire and an awaited call
answers or times out (`WF` of `Enter`, `Turn`, `Wake`, `Sweep`; of the ledger's
steps taken together, as `fetch` is given a `timeoutMs`; of `FlushTimer`). A supervisor restarts a dead
process (`WF` of `Boot`, the class `single-instance-restart` that
`durability.ts` declares). In `surfaces` a client that lost its connection comes
back and what was written to a living connection arrives (`WF` of `Connect`,
`Receive`): the sample client's loop. For the v1 streams the connection answers
every statement and a batch's timer fires; in `webhooks` the timer ticks, a POST
ends within its time-out and back-offs elapse; in `python` a thread that can go
on does, but no deadline is fair. Callers owe nothing else: no request is fair.
`postgres`, `sqlite`, `parts` and `executor_audit` check safety only.

Several properties are conditioned, because the code does not promise more; the
comment above each says so, and what lies outside is under "Seen while
modelling".

- `TerminalIsFinal`: names the two kinds of step that do change a terminal run: a
  cancel, pause or resume that decides on a row it read before the run ended
  (`DecidesOnOldRow`), where `runs.ts:360-364` promises 409 `run_terminal`, and
  what a loop writes that awaited its node when the run ended (`EndedUnderItsLoop`).
- `CancelSettles`: a cancel ends the run, is overtaken by a wait, or is put aside
  by a pause that read the row before it (`PausedOver`).
- `EveryEventArrives`: streams whose snapshots do not run ahead of a batch.
- `NoEventUnheard`: a process that is not killed.
- `AnswersFit`: its third part (a message sent again answers nothing more) while
  the process was not killed; the first two always.
- `NothingMissed`, `EndArrives`: events a process appends itself;
  another process's are never announced to it.
- `NodesInOrder`, `GateHonoured`: runs in which no callback was taken twice
  (`skipped_gate` shows what happens in the others).
- `OneChildPerWorker`: runs that no two executors were at work on at once.
- `NoneLeftBehind`: runs no client called, with every process up.
- `OrphansHaveOldClaims`: says which runs have no executor, not that all do.
- `WaitsAnswerable`: an interrupt to answer, until the first crash or deadline.
- `AnchorsKeepUp`: the two single-process hosts.
- `TamperSeen`: entries edited in a range that is walked; the tail may be cut.
- `SettledHonestly`: its count of POSTs allows one more for each kill, which
  forgets the attempt that was under way.
- `StreamsClose`: a stream of the python host closes; it may do so without having
  brought the end.
- `RunEnds`: runs nobody keeps paused, unless a pause shut the gate again that a
  racing resume or cancel had just opened.

### Findings

- `failed_fetch_completes` (v2): killed between the record of a failed attempt
  and `node.failed`, the re-delivered execution takes the error for an outcome
  and the node completes. `PROJECT.json` quotes the lines.
- `second_task` (v2): killed between the acceptance of a run and the record of
  the message that asked for it, the process comes back with a run it goes on
  with and a message it does not know; sent again, the message starts a second
  run.
- `skipped_gate` (postgres): two deliveries of a signed callback both find the
  event open. The first advances the run, which comes to wait at the approval
  gate behind; the second then reads the gate's place and goes past it, since
  its guard asks only whether the run waits. Nobody voted.

### Seen while modelling

These were met while writing the models or as counterexamples of the
unconditioned forms of the properties. They have no run of their own.

*v2 host.*

- A resume, pause or cancel decided on a row loaded before its body arrived
  changes a run that ended in between (`runs.ts:360`; `:383` guards the era only).
  A pause that read the row before a cancel puts `paused` over `cancelling`; killed
  before the loop sees the cancel, the run stays paused.
- Killed between the claim of an interrupt and the run's status, the run waits
  with nothing to resolve, and no boot re-enters it (`durability.ts:102`).
- A cancel accepted while the executing node suspends is overwritten by the
  wait (`executor.ts:847` against `:887`).
- Killed while a node suspends for want of a credential, the run is re-entered
  with the interrupt open and looks for the credential again. Rejected in the
  meantime, it fails, and then appends to its ended log what its search comes to:
  only a node that completed is held against the row (`executor.ts:853-862`
  against `:814`, `:846`).
- The digest of a cancel leaves out its run, so one key used for the cancels of
  two runs replays the first reply and cancels only the first (`router.ts:352`,
  `runs.ts:330`). A claim a kill left without a reply answers
  `idempotency_in_flight` for ever.
- In values mode with `bufferMs` a snapshot frame carries the id of an event
  that is still in the batch: a client that resumes from it misses the batch
  (`events.ts:144`). A stream in messages mode alone is never ended (`events.ts:136`).
- A kill between `run.completed` and the row's status makes the re-entered run
  append a second terminal event (`executor.ts:870-872`); one between an
  unrouted `node.failed` and `run.failed` makes it complete (`:1020-1024`).
- Two runs with one business key both perform attempt 1 of the one effect id:
  the claim's key includes the run (`store.ts:306`, its comment `:572-574`).
- An append and its fan-out are not one transaction: a kill between them, and a
  branch killed while its prefix is copied, leave events no subscriber hears of.

*Postgres host.*

- An answer accepted in a process while another executes the run finds the claim
  taken, and nobody continues the run (`server.ts:2580-2587`).
- A status is written without a condition on the one before. So a cancel is
  lost under a suspension or an end, a cancel that read `running` before a
  suspension leaves `cancelling` with no executor, a stale list of orphans
  executes a completed run again, a cancel of a mirroring parent appends
  `run.cancelled` twice, and 409 says "Cancel raced and won" though nobody
  cancelled.
- A claim is granted again to the process that holds it: after a pause and a
  quick resume two executors run one run, the aborted node cancels it, and a node
  gets two children (`server.ts:2406` says that an existing one is reused).
- Votes are read, counted and written in three statements: two cast in
  different processes at once lose one. Two creates with one key make two runs.
- A graceful shutdown aborts delays, and their runs end as cancelled.
- A crash while a parent mirrors its waiting child leaves a parent no boot
  recovers; one between an interrupt and its status fails the run on its
  primary key when it is executed again.
- A second lap over a dispatch takes the first lap's child for its own; a
  deadline while a child is polled leaves the poll spinning.
- A stream may write an event twice (between its insert and its commit it is in
  the backlog, then it is emitted), an event appended by another process is
  never written, and a client that leaves during the backlog query leaks its
  listener. A stream whose run ended in another process stays open
  (`server.ts:4939-4944`).
- One connection carries every handler's statements, so one that fails inside
  another's transaction makes its COMMIT a rollback, though the event was
  announced.
- `audit.ts:391` and `:387-388`: two handlers may checkpoint the same entries.

*Sqlite host.*

- A process that starts before the lease of a dead one lapsed never seeks that
  orphan again (`server.ts:3794-3803`).
- A run whose deadline passes while it waits for a child polls on
  (`server.ts:1222`, `:1553`, against `:1703-1712`).
- A crash between an interrupt's resolution and the run's status leaves a wait
  nobody can answer; one between the run and its key makes a retried create a
  second run; one while a parent mirrors its child leaves the parent behind.
- The boot turns a `cancelling` orphan into a running one. A parent cancelled
  while it mirrors is set running again by its child's resumption.

*Python host.*

- A run that is cancelled during a pause may stay parked: the pause shuts the
  gate the cancel opened (`runs.py:242-243`, `:273`).
- A stream may close without the terminal event, if it looks at the status
  between the status and the event. A cancel may be acknowledged for a run that
  completes. A deadline is not looked at while parked. A second pause after a
  resume answers `already_paused`.
- The replies of pause, resume and bulk cancel are looked up and stored without
  the lock of their key.

*In-memory host and chains.*

- A deadline is not looked at after the last node. A distillation reports an
  index it was refused. The versions a snapshot names may be evicted.
- The rewriting of a chain matches `nodes.<id>.` only, where its comment promises a
  bare `<id>.<port>` too, and it matches in substituted parameter values as well.
  `a.b` and `a_b` have one prefix. Sixteen random bits name an expansion; the
  model takes them to be fresh.

*Audit logs.* A truncated tail is not reported. An operation succeeds before its
entry is appended; a crash between an append and its checkpoint is made up for
at the next boot.

## 4. What is proved

### The executor

For every set of runs, clients and workflows and every bound, with lagging
bodies and kills between any two statements:

- `ExecutorConsistent`: `Spec => []Consistent`;
- `ExecutorTyped`: `Spec => []TypeOK`;
- `GatesHold`: `Spec => []GateNeverBypassed`;
- `InterruptsResolveOnce`: `Spec => []ResolvedOnce`;
- `EndsAreWitnessed`: `Spec => []TerminalWitnessed`.

The only assumption is `ExecutorAssumption` (the bounds are naturals).

The argument. `GateNeverBypassed` is not inductive: a gate completes in
`Reenter` because the log says it resumed, so one must know that what resumed
was granted (`ResumedIsGranted`); it resumes because an open interrupt was
claimed, so one must know that an open interrupt of a gate belongs to its
current visit and that no decision of this visit is pending (`OpenIsCurrent`);
and the claim removes the key for good, so the decisions on the log are of keys
that are minted and closed (`DecisionsClosed`), each once (`DecidedOnce`).
`Consistent` is the conjunction, per run, with the types and with `Witnessed`.

It is preserved by every single *statement*, not only by every section: that is
what makes it survive a kill between two of them, and why the proof is organised
by images. `ExecutorAuditProofs` first says what appending one event does to the
folds (`Visit`, `Resumed`, `Resolved`, `GrantedBefore`), then lifts this to the
statements (`Emit`, `Mint`, `Claim`, ...) and to the sequences (`FailNode`,
`Apply`, `Suspend`, ...): all images of a sequence that starts in a good row are
good rows. One lemma per action follows: its sections leave good images, hence
`Consistent` holds after it, killed or not.

### The scheduling loop

For any definitions, cyclic ones included, any values and bounds: `OrderIsSound`,
`SchedulerSpec => []OrderSound`, and `NoInputIsStale`,
`SchedulerSpec => NoStaleInput`. `WorkflowsAssumption` says that a definition
gives each of its nodes an id of its own and that its edges are between its
nodes. `links()` (`executor.ts:51-62`) drops other edges. That ids are distinct is
checked nowhere in the code, whose maps are keyed by them: a definition with two
nodes of one id is outside the theorems, as it is outside the runs.

The order. The claim kept by every step of Kahn's algorithm is `Sane`: what is
ordered comes after all it has an edge from, and the nodes that are ordered or
ready are *exactly* those all of whose edges come from ordered nodes (`Due`).
The direction "no more" makes forward edges go forward; the direction "no less"
is what the in-degrees are for, and it gives completeness: of what is left when
nothing is ready, every node has a source that is left too. In an acyclic
definition the one of least rank would have none, so nothing is left; in any
other the rest is appended in definition order, once each. That as many rounds
as there are nodes are enough is counting (`DistinctLength`). The model counts
no in-degree down: the last edge that enters a node is the one that frees it
(`Freed`), which is the same, and can be reasoned about without a fold.
Inductions over rounds and positions are made by the least counterexample
(`LeastNatural`), and the recursive function has its equation by
`OrderingExists`.

Stale inputs. `nextNode` answers a node that owes an evaluation while none of its
forward sources does (`StartedIsNext`). A source that owes nothing was decided,
and none of *its* forward sources was decided later, or it would owe. Not at the
same event either: an event is of one node, and an edge from a node to itself is
a back edge whatever the order, which is where the soundness of the order comes
in again.

### The ledger

`OperationHasOneIdentity`: `Spec => []OneIdentity`, for any runs, operations and
bounds. Its invariant
`IdentityInv` adds that a row stands for its run's operation (`RowsOfRuns`) and
that a loop in the middle of a fetch presents an id its run has a row of
(`Presented`): a retry may then claim under the id its loop carries, however
long ago it was looked up.

### Idempotency keys

For any requests, connections, repetitions and kills between any two
statements, from `IdempotencyAssumption` (the shape of requests, natural
bounds): `KeysTyped`, `KeyedWorkIsDoneOnce`, `KeyedReplyIsOne`,
`KeyedRepliesStand`, `KeyedRepliesAreOwn`, which are `Spec => []P` for `TypeOK`,
`WorkedOnce`, `OneReply`, `RepliesStand`, `OtherRepliesAreOwn`.

The invariant is `KeyInv`. Work once needs that a handler about to work holds a
claim under which nothing was done (`Fresh`), alone (`Held`), and that work
leaves a row behind, so that a key without a row is one without work (`Sound`).
A release is safe because only a `Fresh` claim is released. That replies agree
needs that what clients were told is what the table says (`Agrees`): a reply in
the table is never changed, since a section changes only the key whose claim it
holds (`KeyApart`) and that key has no reply yet. As with the executor, every
image of a section is shown to be `Sound`, which is what a kill leaves.

### The audit log

For any processes, threads, contents and bounds: `ChainHolds`,
`Spec => []ChainIntact`, and `RefinesAppendOnly`, `Spec => LogIsAppendOnly`: as
long as nobody edits its rows the table is an append-only log whatever the
interleaving of the handlers, their rollbacks and crashes.

That each entry's predecessor hash is the hash of the entry before says nothing
of how an inserted row came by its hash: the postgres host allocates a number,
reads the row before it and inserts in three statements, between which other
handlers run. The invariant says what a handler knows at each of them: whoever
is in a transaction owns the connection of its process (`TxOwned`) and, once it
allocated, the lock of the counter's row (`LockHeld`); what it allocated is the
number after the last row of the table, inserted rows included (`Pending`,
`Inserted`); what it read is still the last row (`ReadsHold`); `Shapes` types the
rest. A rollback gives the number back with the lock, which is why numbers have
no gap. The refinement maps the table to the sequence of its contents; an
insert maps to `Grow` at its commit, an edit to `Tamper`, every other step to a
stutter.

`AnchorsKeepUpHolds`, `Spec => []AnchorsKeepUp`, is about the two hosts that are
one process: an entry and the checkpoint it may be due are two writes, so that a
kill between them leaves the host a checkpoint short. While it is down nothing is
claimed; the boot writes what is missing before anything else is appended, so
gaps never add up. The invariant adds that the newest checkpoint is well defined
(`Stored`).

`TamperingIsSeen`, `Spec => []TamperSeen`, is about rows and checkpoints that
others wrote into. The invariant `Tampered` says what an edit or a deletion of
row `s` leaves behind: either a `Broken` link, a row `s + 1` that does not name
the hash of row `s`, or that has no row `s` before it; or a `Rooted` checkpoint,
the first with its number, whose root is that of rows which read otherwise.
Neither is mended by anything written later, because numbers only grow
(`Ordered`, `Numbered`). The lemmas behind the second case are about Merkle
roots: two lists of the same length with the same root are the same
(`SameRootSameLeaves`), and lists of any lengths with the same root begin alike
(`SameRootSameFirst`). The second is needed because a stalled postgres handler
may insert an older checkpoint after a newer one, which moves the range that the
newer one is taken to cover. They are inductions over the levels of the tree,
made by taking the least level at which the claim would fail.

### Webhook deliveries

For any subscriptions, event types and bounds, from `WebhooksAssumption`
(finitely many subscriptions, natural bounds): `RowsAreHonest`,
`ForksStayQuiet`, `EveryEventGoesOut`, which are `Spec => []P` for
`SettledHonestly`, `HistoryStaysQuiet`, `NoEventUnheard`.

An invariant, `IInv`, carries all three, with `Counts` for the number of POSTs. That a delivery given up was posted
often enough needs that a POST is counted before its outcome is
(`QueueSound`, `RowsSound`): the worker writes `attempts` after the answer, a
kill in between forgets it, so the row may count less than was sent and never
more. That no delivery is posted beside its own attempt is the other direction
(`Counts`): what was posted is at most what the row counts, the attempt in
flight, and one for each kill. That a fork stays quiet and loses nothing are two sides of where fan-out
begins; both need how a fork's log relates to its source's, a copy cut short by
a kill included (`LogsSound`): without a kill the copy is whole before the
branch's first own event, and only then does "everything after the copied part"
coincide with "everything after the fork point". The due page is built by a
recursive function over a sequence; what it keeps and drops is proved from its
equation, which a small lemma on recurrences provides.

### The streams of the v1 hosts

For any of the three hosts, any cursors and any number of events, from
`HostStreamsAssumption` (a cursor is an event's place or none):
`WhatIsFollowedIsHeard`, `HostSpec => []NothingMissed`.

A stream starts from a row and a backlog that it reads in statements of its own,
listens from then on, and looks once more when the row said that the run ended;
in the postgres host these statements wait on one connection among those of a
writer, a poll and the fan-out. `StreamInv` says which events are announced
(`Told`: all but the one whose `COMMIT` is still queued), that whoever listens
has all of them, its batch included (`Reaches`), and has nothing that leaves out
an event before it (`Gapless`). A backlog asked for while a `COMMIT` is queued is
answered after it (`Orderly`): otherwise the event would fall between the backlog
and the listener. A queued statement carries what its asker knew when it asked
(`OfStream`, `OfWriter`, `OfHook`), and each event since a subscription is posted,
unwanted, or about to be looked up for it (`HookFits`). Requests and answers are
handled apart: lemmas say what issuing a statement and taking the first one leave
of the queue's part of the invariant, and each handler cites them.

### The python host

For any workflows, requests, callers and streams: `EndIsInTheLog`,
`Spec => []EndsWithItsEvent`, and `StreamsAreExact`, `Spec => []StreamExact`.
`NoneAssumption` keeps the value for "no run" apart from records.

Status and terminal event are set under one lock, but tested outside it. The
invariant ties a run's record to its executor's program counter (`Sound`): the
record is terminal exactly when the executor is done. So whoever writes a
status from another thread (a pause, a resume, a cancel that found the run
still alive) can never write over an end, provided its test and its write are
where the code has them. A control request concerns a run that was created
(`CallersSound`), and no run is created twice (`RunsSound`), which is the key's
lock. Logs only grow (`LogsGrow`), so that what a stream owed up to its
position never changes (`GrowthKeepsStream`).

### Agents' tasks

For any messages, connections, kinds and bounds: `TasksHold`,
`AgentSpec => []TasksInv`; `EveryAnswerFits`, `AgentSpec => []AnswersFit`;
`EndsArePushed`, `AgentSpec => []EndIsPushed`. `AgentAssumption` says that no
message has the name of another way to answer.

An interrupt is answered once since what is open has no answer yet and what is
over has nothing open (`Fits`), which every image of a section keeps, hence
also a kill. That a message answers once needs that it is recorded by the time
another request may run (`Once`), which a kill between the two statements
breaks: the finding `second_task`. A push config of a living run has a push
ahead of it whenever the run has ended (`Pushed`); that covers a cancel, which
sets the status before its event, and a resume that fails the run.

### The workspace of the in-memory host

For any paths, contents, workflows and keys: `UpdatesHold`,
`MemorySpec => NoLostUpdate`, and `SnapshotsHold`,
`MemorySpec => []SnapshotStands`. Both rest on `MemoryHolds`: the versions a file
keeps increase, a deletion leaves a tombstone that has a number too, and
retention drops only the oldest, so the last number never goes back. Hence a
note of a version (`Marks`: an editor's etag, an entry of a run's snapshot) is
true for good: the version it names has the content noted or is gone, and is
not a later one's. That the etag is made of path and number alone is enough.

### The postgres host: claims, cancellations, children

For any processes, workflows, voters and bounds, from `PostgresAssumption`:
`ClaimsExclude`, `CancelsAreAsked` and `ChildrenAreReused`, which are
`Spec => []P` for `ClaimExclusive`, `CancelledIfAsked` and `OneChildPerWorker`.

The advisory lock is re-entrant: its holder gets it once more, so that a free
lock is not the same as one nobody counts on. The invariant `ClaimInv` says that
a process holds a run's lock exactly as often as it has threads executing the
run (`LocksCounted`) and that no two processes hold it (`LocksApart`). Only
`TryClaim`, `Leave` and the death of a process change what is held; all other
thirty-odd actions are shown `Quiet`: no thread begins or ceases to execute, or
moves to another run or process.

A deadline wakes a node exactly as a cancel does, through the same abort signal,
and what the node then does is decided statements later. `HostInv` therefore
says of everything any thread still has to do (`ThreadsFine`, `Fine`) that while
nobody asked it stops no run, except that a node may be abandoned by a thread
whose deadline is past, which the loop then takes for a breach and not for a
cancellation. It also says that a statement concerns runs that exist, that only
executors have executors' statements, that whoever is on record to be woken
executes the run (`AbortersKnown`), and that before anybody asked no row and no
log shows a stop (`Calm`). Each step puts fine statements in the place of those
it takes; the lemmas about programs (`OnwardNode`, `OnwardAgents`, `OnwardBody`)
say so once for the programs of all kinds of nodes.

A child is found or inserted in two statements. `KinInv` adds to `HostInv` that
a run no two executors were at work on at once has one thread at work (`Sole`),
and that a thread about to insert still finds nothing (`InsertsFresh`). Every
other step gives nobody work who had none and leaves the children's parents
alone (`Plain`, `KidsKept`). Across processes `Sole` is the claim's doing; within
one process the code relies on nobody claiming twice, which is why the property
is conditioned.

### No run of the sqlite host is lost

For any runs, workflows, approvers and bounds, from `SqliteAssumption` (finitely
many runs, at least one thread): `NoRunIsLost`, `Spec => []OrphansHaveOldClaims`.

A run is driven by one executor, which some handler, timer or boot must launch.
Between the statement that makes a run one that is to run and the launch there
are others, of which some go on in another turn of the event loop, where
anything may intervene: a cancel, a second answer, the end of the parent, a
crash. The property looks at moments when nothing is queued, and is far from
inductive. The invariant `Inv` says at every moment, for each run that is to
run, that it has an executor, or a dead process's claim, or a queued thread that
still has a launch of it to do (`Covered`), and that a claim of the living
process belongs to an executor (`Held`).

This is kept because of what the programs look like (`Programs`): a statement
that makes a run go on has its launch further down (`Fits`), an executor gives
its claim up as its last statement and directly after it stopped its run
(`EndsWell`), and what a thread found in the table is still so when it acts on it
(`Sees`), since the statements that depend on it follow in the same turn
(`Urgent`). A launch that finds the run claimed is lost for good, so one must
also know that whoever holds the claim has not left its loop yet. The proof goes
statement by statement: `Covered` of the run whose row it writes, and, of the
thread's new program, the same shape again. A crash needs none of it: it turns
every claim into a dead process's, and the boot takes over what has lapsed.

### The gates of the sqlite host

For the same constants: `GatesAreHonoured`, `Spec => []GateHonoured`. A gate is
granted by a list of votes, in which a voter's new vote replaces the old one;
what the property counts (`cast`) is the voters who voted last to accept since
the gate last asked. It speaks of the row and of the executor's own position; an
answer moves the row on without an executor, which is launched statements later.

The inductive invariant is `Inv /\ Gates`: the first one is needed for the claim
of a run, which keeps a second executor out. `Gates` says of the stored tables
(`Stored`, `Position`) that every gate before a run's next node was granted, that
only the next node's interrupt may be open, and that its list has one vote for
each voter and no acceptance of somebody who is not in `cast` (`Tallied`), so that
counting votes counts voters; of each thread (`Placed`) that an
executor is where its row says, and what kind of node each statement it has left
is about; of all of them that a run has one executor
or one launch of it ahead (`OneEach`), and that a handler that moves a run on is
alone in the queue, found the votes and has no executor to meet (`Ahead` in
`InOrder`). The last is what makes an answer to a gate and a resumed orphan, a
second answer or a cancel exclude each other: between the tally and the launch no
other thread gets a turn, and a crash there leaves a row that still waits.

A supervisor sends a run back, behind gates that were granted. These ask again
when the run comes by, and then forget the votes they had: the invariant keeps
the count only for the gates before the row's next node, and an executor at a
gate does not leave it but by suspending.

### Waits of the sqlite host can be answered

For the same constants: `WaitsAreAnswerable`, `Spec => []WaitsAnswerable`. A run
that waits is served by one row of the interrupts table. The row is opened by one
statement and the run set waiting by another, turns of the event loop later; it
is closed by an answer or a cancellation, which end the wait by statements of
their own. The property looks at moments when nothing is queued.

The inductive invariant is `Inv /\ Gates /\ Waits`. Its main part (`Asked`) says
at every moment that a run waiting at a gate has its interrupt or a thread that
still has to make it stop waiting (`Mends`); such a thread is always queued
(`Behind`), so with an empty queue only the first case is left. Four things keep
it. An executor suspends its run only behind the statement that opens the
interrupt, which replaces a row that was answered before (`Bides`, its third
conjunct). Interrupts are invalidated in a program that then ends the run, by the
thread whose turn it is, and not of a run whose executor is about to suspend: a
cancel invalidates only what already waits, and a run that waits has no executor
on the way to a gate. An answer is recorded by a program that moves the run on or
ends it (`Cures`), a vote that decides nothing leaves the row open, and a token
that came too late leaves it expired. And a parent that mirrors the status of its
child, which makes it wait as well, is at a `core.subWorkflow` node, from which it
goes on polling or ends; it reaches no other node before it is set running again.

A crash between the record of an answer and the move leaves a run that waits with
nothing to answer; so does a deadline, which fails the executor that resumed
before. Hence the condition, which `Asked` carries. A shutdown does not: it is
taken when nothing is queued, that is, when nobody has anything to mend.

### Chains put into a workflow

For any registry, any requests and any parent workflow: `ChainsFit`,
`ChainSpec => []NothingDangles`. `ReferencesAssumption` says what the expansion
itself never looks at: that a chain that can be found, and the parameters it is
asked for with, name nodes of the chain or of the parent, and that the nodes of
one chain have different names.

A reference is rewritten or stays, by whether the chain has a node of that name
(`CopiesFit`), after parameters that may hold references themselves were put in
(`SubstituteClear`). That copies stay apart rests on the prefix, which holds the
number of the expansion: the invariant says that every node came with the
workflow or under the prefix of an expansion made so far (`Dated`).

### Only model-checked

- Everything temporal (`CancelSettles`, `RunSettles`, `EveryDeliveryReturns`,
  `EveryDeliverySettles`, `EveryEventArrives`, `StreamsClose`, `RunEnds`): the
  prover does neither liveness nor ENABLED.
- `TerminalIsFinal` of the executor: it speaks of what handlers have read and
  loops await, and needs what `NextNode` answers when a run
  was killed between its last two statements, that is, facts about the
  scheduler's fold.
- Of the postgres host the order of nodes, the gates and the recovery
  (`NodesInOrder`, `GateHonoured`, `NoneLeftBehind`): these speak of what a
  thread of any of several processes has read several statements ago, and gates
  of how many votes a list holds, whose filter (`SelectSeq`) the provers do not
  see into. The sqlite model keeps a gate's votes as a set, one for each voter,
  which is why its gates could be proved.

## 5. What is not modelled

In the executor: a workflow that is no longer registered, an interrupt payload
that fails validation when minted, quorum votes that decide nothing, the budget
events, the era-2 pin, the replay branches of the loop, the wording of reasons
and messages. `Boot` writes its `workflow.restored` events in one step: a kill
in the middle of a boot leaves what a kill after it and a second boot would,
one event fewer. A node whose function awaits nothing stays in its section,
although JavaScript runs a microtask there: no callback can intervene.

In the ledger: replay forks and `replayRecordedEffect`, the conformance side
effect, compensation plans. Around keys: requests without a key, the grammar of
a key, more than one tenant, the seam that arms a hold (any handler may wait),
headers and `raw` replies. In streams: the long poll of the v2 host, host events.

In the A2A and MCP surfaces: cards and tool lists, protocol versions and
headers, listings, the two read-only streams, what becomes of a push on its way,
more than one push config, the clients. A principal sees only its own tasks, so
one caller's runs are modelled.

In the webhooks: secret rotation, host events, tag filters. POSTs of the v1
hosts are neither ordered nor tried again, and the model says of them only that
each event is looked up for each subscription.

In the postgres and sqlite hosts: anonymous voters, agents' memory, the
`ask-user` and unsupported kinds of a decision, artifacts, annotations, the
debug bundle, multi-region replication. The data of an agent's decision is cut
to the kind of step it asks for.

In the audit logs: key files that several processes create at first boot, and
exports.

In the python host: a thread per webhook, the expiry of keys, `bufferMs`. A pause
is two steps, between which the run may park and wake any number of times;
`MaxParks` bounds it. The test and the set of `pause_requested` are one step,
which with one pauser at a time is what happens.

In the in-memory host: the heartbeat, attestation of sub-runs, tool hooks, the
guarded fetch, artifact types, annotations, the debug bundle, WebAssembly. Other
owners' workspaces are the same code under another key.

Not modelled at all: the v2 host's quorum votes, budgets, oauth and identity
lanes, discovery, configuration, OpenAPI, cryptography, wire projections, the
client samples and the packs. `PROJECT.json` has the reason of each.

## 6. Plan

Done: `WorkflowGraph`, `Scheduler` with their proofs; `Executor` with its proofs; `EffectLedger` with
the proof of its identity; `Idempotency` with its proofs; `EventStream`;
`Webhooks` with forks; `AuditLog` with its proofs and its refinement;
`PostgresHost` with its proofs, `SqliteHost`, `PythonHost`,
`HostStreams`, `InMemoryHost` with the proofs of its workspace, `ChainExpansion`,
`AgentTasks` with its proofs, the proofs of `Webhooks`, `HostStreams`, `PythonHost`,
`SqliteHost` with its gates and waits, `ChainExpansion`. To do, in order of importance:

1. `RunLifecycle`: the abstract run (accepted, running, parked, waiting, ended),
   with `Executor` shown to implement it, checked and proved as step simulation.
2. Proofs: `NodesInOrder` of `PostgresHost`; one maker per attempt of the ledger.
3. The v2 host's quorum: its tally with re-votes, veto and majority, and the
   race with the sweep.
4. Budgets, and the execution of a replay from recorded facts.
