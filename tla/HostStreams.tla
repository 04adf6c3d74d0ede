----------------------------- MODULE HostStreams -----------------------------
(***************************************************************************)
(* One run's events as the v1 hosts hand them out (postgres/src/server.ts    *)
(* sqlite and in-memory the same: appendEvent, handleEventsSse,              *)
(* handleEventsPoll; webhooks.ts).  A stream sends the backlog, then         *)
(* listens; a client that polls asks for what comes after the last sequence  *)
(* it has, until it is told that was all; a webhook subscription is posted   *)
(* what is appended while it is registered.                                  *)
(*                                                                           *)
(* The Postgres host has one connection and serves the statements of all its *)
(* requests in the order they were issued, so a handler is resumed once per  *)
(* statement and others run in between; the other two run each handler       *)
(* without a break.  A Postgres run may be driven here or by another process *)
(* on the same database, whose appends no listener of this one hears.        *)
(*                                                                           *)
(* A sequence is an event's index from 0.                                    *)
(***************************************************************************)
EXTENDS Integers, Sequences, FiniteSets

CONSTANTS Hosts,      \* of "postgres", "sqlite" and "memory", those looked at
          Cursors,    \* the Last-Event-ID a stream may come with
          HostEvents   \* bound: events the executor appends

ASSUME HostStreamsAssumption ==
  Hosts \subseteq {"postgres", "sqlite", "memory"} /\ Cursors \subseteq Nat \cup {-1} /\ HostEvents \in Nat

VARIABLES host, place, \* which host, and where the run is driven: here or there
          table,       \* the events inserted so far, by kind
          ended,       \* the run's status is terminal
          queue,       \* statements issued on the connection, oldest first
          line,        \* who waits for the transaction lock, its holder first
          held,        \* the run's row is locked by the transaction in progress
          job,         \* what each writer is appending
          handled,     \* the handler has had its turn
          reader,      \* who follows the run, a stream, a client that polls or a
                       \* subscription: they meet the writers, not each other
          stream, poller, hook

hostStreamVars == <<host, place, table, ended, queue, line, held, job, handled, reader, stream, poller, hook>>

database == <<host, place, reader, table, ended>>
writing == <<line, held, job, handled>>

Writers == {"executor", "handler"}

\* Where the terminal event is.
EndAt == {i \in DOMAIN table : table[i] = "end"}

---------------------------------------------------------------------------
(* A stream *)

Off == [at |-> "off", from |-> -1, said |-> FALSE, last |-> -1, listening |-> FALSE,
        buffered |-> FALSE, buffer |-> <<>>, sent |-> <<>>]

FlushBatch(st) == [st EXCEPT !.sent = @ \o st.buffer, !.buffer = <<>>]

\* writeEvent: at once, or into the batch, which the terminal event flushes.
WriteEvent(st, s, kind) ==
  IF st.at = "closed" THEN st
  ELSE IF ~st.buffered THEN [st EXCEPT !.sent = Append(@, s)]
  ELSE LET gathered == [st EXCEPT !.buffer = Append(@, s)]
       IN  IF kind = "end" THEN FlushBatch(gathered) ELSE gathered

\* The rows after a sequence, written in order: a batch goes out with the
\* terminal event.
WriteAfter(st, from) ==
  LET new == [i \in 1..Len(table) - 1 - from |-> from + i]
      gathered == st.buffer \o new
      ends == {i \in DOMAIN new : new[i] + 1 \in EndAt}
      out == IF ends = {} THEN 0 ELSE Len(st.buffer) + CHOOSE i \in ends : TRUE
  IN  IF st.at = "closed" THEN st
      ELSE IF ~st.buffered THEN [st EXCEPT !.sent = @ \o new]
      ELSE [st EXCEPT !.sent = @ \o SubSeq(gathered, 1, out), !.buffer = SubSeq(gathered, out + 1, Len(gathered))]

CloseStream(st) == [FlushBatch(st) EXCEPT !.at = "closed", !.listening = FALSE]

\* A wrong form: a live event goes out ahead of the batch.
OnEventAhead(st, s, kind) ==
  IF ~st.listening THEN st
  ELSE IF kind = "end" THEN CloseStream(WriteEvent(st, s, kind))
  ELSE [st EXCEPT !.sent = Append(@, s)]

\* A wrong form: a stream listens for one event and no more.
OnEventOnce(st, s, kind) ==
  IF ~st.listening THEN st
  ELSE IF kind = "end" THEN CloseStream(WriteEvent(st, s, kind))
  ELSE [WriteEvent(st, s, kind) EXCEPT !.listening = FALSE]

\* onEvent: a listener is told of one event, and leaves with the terminal one.
OnEvent(st, s, kind) ==
  IF ~st.listening THEN st
  ELSE IF kind = "end" THEN CloseStream(WriteEvent(st, s, kind))
  ELSE WriteEvent(st, s, kind)

Asked(from, buffered) == [Off EXCEPT !.at = "open", !.from = from, !.buffered = buffered]

---------------------------------------------------------------------------
(* Postgres: a statement is executed and its handler resumed, to issue the   *)
(* next one behind all that wait.                                            *)

Query(op, by) == [op |-> op, by |-> by]

Executed(op) == queue # <<>> /\ Head(queue).op = op

Issue(statements) == queue' = Tail(queue) \o statements

\* A subscription before it is registered.
Unknown == [at |-> "none", types |-> {}, since |-> 0, until |-> 0, posted |-> <<>>]

HostInit ==
  /\ host \in Hosts /\ place \in {"here", "there"} /\ (host # "postgres" => place = "here")
  /\ reader \in {"stream", "poller", "hook"} /\ (reader = "hook" => place = "here" /\ host # "memory")
  /\ table = <<>> /\ ended = FALSE
  /\ queue = <<>> /\ line = <<>> /\ held = FALSE
  /\ job = [w \in Writers |-> "none"] /\ handled = FALSE
  /\ stream = Off /\ poller = [at |-> "idle", said |-> FALSE, last |-> -1, done |-> FALSE]
  /\ hook = Unknown

\* Who may append: the executor until its terminal event, and the handler of one
\* request that found the run going.
MayAppend(w, kind) ==
  /\ job[w] = "none"
  /\ CASE w = "executor" -> /\ place = "here" /\ EndAt = {}
                            /\ kind = "end" \/ Len(table) < HostEvents
       [] w = "handler" -> kind = "step" /\ ~handled /\ ~ended

\* appendEvent asks for the transaction lock.
AskLock(w, kind) ==
  /\ host = "postgres" /\ MayAppend(w, kind)
  /\ job' = [job EXCEPT ![w] = kind] /\ handled' = (handled \/ w = "handler")
  /\ line' = Append(line, w)
  /\ queue' = IF line = <<>> THEN Append(queue, Query("begin", w)) ELSE queue
  /\ UNCHANGED <<database, held, stream, poller, hook>>

Begin ==
  /\ Executed("begin") /\ Issue(<<Query("seq", Head(queue).by)>>)
  /\ UNCHANGED <<database, writing, stream, poller, hook>>

\* The next sequence is taken, and with it the lock on the run's row.
AllocateSeq ==
  /\ Executed("seq") /\ Issue(<<Query("insert", Head(queue).by)>>)
  /\ held' = TRUE
  /\ UNCHANGED <<database, line, job, handled, stream, poller, hook>>

\* The event is there for every statement on this connection.
InsertEvent ==
  /\ Executed("insert") /\ Issue(<<Query("commit", Head(queue).by)>>)
  /\ table' = Append(table, job[Head(queue).by])
  /\ UNCHANGED <<host, place, reader, ended, writing, stream, poller, hook>>

\* The next in line begins, listeners are told, subscriptions looked up, and
\* after its terminal event the executor goes on to the run's status.
Commit ==
  /\ Executed("commit")
  /\ LET w == Head(queue).by
         waiting == IF Len(line) > 1 THEN <<Query("begin", line[2])>> ELSE <<>>
         after == IF job[w] = "end" THEN <<Query("load", w)>> ELSE <<>>
     IN  /\ Issue(waiting \o <<Query("subscriptions", Len(table) - 1)>> \o after)
         /\ stream' = OnEvent(stream, Len(table) - 1, job[w])
         /\ job' = IF job[w] = "end" THEN job ELSE [job EXCEPT ![w] = "none"]
  /\ line' = Tail(line) /\ held' = FALSE
  /\ UNCHANGED <<database, handled, poller, hook>>

\* setRunTerminal reads the run's row, then writes its status.
LoadEnding ==
  /\ Executed("load") /\ Issue(<<Query("status", Head(queue).by)>>)
  /\ UNCHANGED <<database, writing, stream, poller, hook>>

SetRunTerminal ==
  /\ Executed("status") /\ Issue(<<>>)
  /\ ended' = TRUE /\ job' = [job EXCEPT ![Head(queue).by] = "none"]
  /\ UNCHANGED <<host, place, reader, table, line, held, handled, stream, poller, hook>>

\* The other process appends, and later ends the run, on its own connection.
AppendThere(kind) ==
  /\ place = "there" /\ ~held
  /\ EndAt = {}
  /\ kind = "end" \/ Len(table) < HostEvents
  /\ table' = Append(table, kind)
  /\ UNCHANGED <<host, place, reader, ended, queue, writing, stream, poller, hook>>

EndThere ==
  /\ place = "there" /\ ~ended /\ ~held
  /\ EndAt # {}
  /\ ended' = TRUE
  /\ UNCHANGED <<host, place, reader, table, queue, writing, stream, poller, hook>>

---------------------------------------------------------------------------
(* Postgres: handleEventsSse and handleEventsPoll *)

OpenStream(from, buffered) ==
  /\ host = "postgres" /\ reader = "stream" /\ stream.at = "off" /\ from < Len(table)
  /\ stream' = Asked(from, buffered)
  /\ queue' = Append(queue, Query("row", "stream"))
  /\ UNCHANGED <<database, writing, poller, hook>>

LoadRow ==
  /\ Executed("row") /\ Issue(<<Query("backlog", "stream")>>)
  /\ stream' = [stream EXCEPT !.said = ended]
  /\ UNCHANGED <<database, writing, poller, hook>>

\* The backlog is written; the stream of a run over when its row was read ends
\* there, any other one listens before it looks again.
Backlog ==
  /\ Executed("backlog")
  /\ LET written == WriteAfter(stream, stream.from)
     IN  IF stream.said
         THEN stream' = CloseStream(written) /\ Issue(<<>>)
         ELSE /\ stream' = [written EXCEPT !.last = IF Len(table) - 1 > stream.from THEN Len(table) - 1 ELSE stream.from,
                                           !.listening = TRUE]
              /\ Issue(<<Query("recheck", "stream")>>)
  /\ UNCHANGED <<database, writing, poller, hook>>

\* The run is looked at again, for one that ended before the stream listened.
Recheck ==
  /\ Executed("recheck")
  /\ Issue(IF ended THEN <<Query("missed", "stream")>> ELSE <<>>)
  /\ stream' = IF ended \/ stream.at = "closed" THEN stream ELSE [stream EXCEPT !.at = "live"]
  /\ UNCHANGED <<database, writing, poller, hook>>

Missed ==
  /\ Executed("missed") /\ Issue(<<>>)
  /\ stream' = CloseStream(WriteAfter(stream, stream.last))
  /\ UNCHANGED <<database, writing, poller, hook>>

\* bufferMs is over.
BatchTimer ==
  /\ stream.at \notin {"off", "closed"} /\ stream.buffer # <<>>
  /\ stream' = FlushBatch(stream)
  /\ UNCHANGED <<database, queue, writing, poller, hook>>

\* A wrong form: the events are read before the status.
EventsFirst == <<"poll events", "poll row">>

\* The order of the two statements of a poll.
PollStatements == <<"poll row", "poll events">>

Poll ==
  /\ host = "postgres" /\ reader = "poller" /\ poller.at = "idle" /\ ~poller.done
  /\ poller' = [poller EXCEPT !.at = "asked"]
  /\ queue' = Append(queue, Query(PollStatements[1], "poller"))
  /\ UNCHANGED <<database, writing, stream, hook>>

\* One of them; after the second the answer says whether the run was over.
PollStatement(i) ==
  /\ Executed(PollStatements[i])
  /\ Issue(IF i = 1 THEN <<Query(PollStatements[2], "poller")>> ELSE <<>>)
  /\ LET read == IF PollStatements[i] = "poll row" THEN [poller EXCEPT !.said = ended]
                 ELSE [poller EXCEPT !.last = IF Len(table) - 1 > @ THEN Len(table) - 1 ELSE @]
     IN  poller' = IF i = 1 THEN read ELSE [read EXCEPT !.at = "idle", !.done = read.said]
  /\ UNCHANGED <<database, writing, stream, hook>>

---------------------------------------------------------------------------
(* Webhook subscriptions (webhooks.ts) *)

\* A wrong form: a subscription to no type in particular gets none.
WantsListed(types, kind) == kind \in types

\* A subscription to no type in particular gets them all.
Wants(types, kind) == types = {} \/ kind \in types

\* fanOutEvent: one POST, sent off and never repeated.
Posted(s, kind) ==
  IF hook.at \in {"on", "leaving"} /\ Wants(hook.types, kind) THEN [hook EXCEPT !.posted = Append(@, s)] ELSE hook

Registered(types) == [Unknown EXCEPT !.at = "on", !.types = types, !.since = Len(table)]

Unregistered == [hook EXCEPT !.at = "off", !.until = Len(table)]

EventTypes == {{}, {"step"}, {"end"}}

AskRegister(types) ==
  /\ host = "postgres" /\ reader = "hook" /\ hook.at = "none"
  /\ hook' = [Unknown EXCEPT !.at = "coming", !.types = types]
  /\ queue' = Append(queue, Query("register", "hook"))
  /\ UNCHANGED <<database, writing, stream, poller>>

RegisterHook ==
  /\ Executed("register") /\ Issue(<<>>)
  /\ hook' = Registered(hook.types)
  /\ UNCHANGED <<database, writing, stream, poller>>

AskUnregister ==
  /\ host = "postgres" /\ hook.at = "on"
  /\ hook' = [hook EXCEPT !.at = "leaving"]
  /\ queue' = Append(queue, Query("unregister", "hook"))
  /\ UNCHANGED <<database, writing, stream, poller>>

UnregisterHook ==
  /\ Executed("unregister") /\ Issue(<<>>)
  /\ hook' = Unregistered
  /\ UNCHANGED <<database, writing, stream, poller>>

\* The subscriptions of one event are looked up after it was committed.
LookUp ==
  /\ Executed("subscriptions") /\ Issue(<<>>)
  /\ LET s == Head(queue).by IN hook' = Posted(s, table[s + 1])
  /\ UNCHANGED <<database, writing, stream, poller>>

---------------------------------------------------------------------------
(* SQLite and in-memory: every handler runs without a break *)

\* appendEvent, with setRunTerminal right after a terminal event.
AppendNow(w, kind) ==
  /\ MayAppend(w, kind)
  /\ table' = Append(table, kind) /\ ended' = (kind = "end" \/ ended)
  /\ handled' = (handled \/ w = "handler")
  /\ stream' = OnEvent(stream, Len(table), kind)
  /\ UNCHANGED <<host, place, reader, queue, line, held, job, poller>>

AppendSqlite(w, kind) == host = "sqlite" /\ AppendNow(w, kind) /\ hook' = Posted(Len(table), kind)

AppendMemory(kind) == host = "memory" /\ AppendNow("executor", kind) /\ UNCHANGED hook

OpenNow(from, buffered) ==
  /\ reader = "stream" /\ stream.at = "off" /\ from < Len(table)
  /\ LET written == WriteAfter(Asked(from, buffered), from)
     IN  stream' = IF ended THEN CloseStream(written) ELSE [written EXCEPT !.at = "live", !.listening = TRUE]
  /\ UNCHANGED <<database, queue, writing, poller, hook>>

OpenSqlite(from, buffered) == host = "sqlite" /\ OpenNow(from, buffered)

\* The in-memory host knows no batches.
OpenMemory(from) == host = "memory" /\ OpenNow(from, FALSE)

PollNow ==
  /\ reader = "poller" /\ ~poller.done
  /\ poller' = [poller EXCEPT !.last = IF Len(table) - 1 > @ THEN Len(table) - 1 ELSE @, !.done = ended]
  /\ UNCHANGED <<database, queue, writing, stream, hook>>

PollSqlite == host = "sqlite" /\ PollNow

PollMemory == host = "memory" /\ PollNow

RegisterSqlite(types) ==
  /\ host = "sqlite" /\ reader = "hook" /\ hook.at = "none"
  /\ hook' = Registered(types)
  /\ UNCHANGED <<database, queue, writing, stream, poller>>

UnregisterSqlite ==
  /\ host = "sqlite" /\ hook.at = "on"
  /\ hook' = Unregistered
  /\ UNCHANGED <<database, queue, writing, stream, poller>>

---------------------------------------------------------------------------
Statement ==
  \/ Begin \/ AllocateSeq \/ InsertEvent \/ Commit \/ LoadEnding \/ SetRunTerminal
  \/ LoadRow \/ Backlog \/ Recheck \/ Missed
  \/ \E i \in 1..2 : PollStatement(i)
  \/ RegisterHook \/ UnregisterHook \/ LookUp

HostNext ==
  \/ \E w \in Writers, kind \in {"step", "end"} : AskLock(w, kind) \/ AppendSqlite(w, kind)
  \/ \E kind \in {"step", "end"} : AppendThere(kind) \/ AppendMemory(kind)
  \/ EndThere
  \/ \E from \in Cursors, buffered \in BOOLEAN : OpenStream(from, buffered) \/ OpenSqlite(from, buffered)
  \/ \E from \in Cursors : OpenMemory(from)
  \/ Statement \/ BatchTimer \/ Poll \/ PollSqlite \/ PollMemory
  \/ \E types \in EventTypes : AskRegister(types) \/ RegisterSqlite(types)
  \/ AskUnregister \/ UnregisterSqlite

HostSpec == HostInit /\ [][HostNext]_hostStreamVars

---------------------------------------------------------------------------
(* What is promised *)

\* No loss between the backlog and the listener (postgres/src/server.ts:4895-4897):
\* a stream of a run driven here skips nothing: whatever it sends for the first
\* time comes right after all it sent before.
NothingSkipped ==
  place = "here" =>
    \A i \in DOMAIN stream.sent :
      \/ stream.sent[i] = stream.from + 1
      \/ \E j \in 1..i - 1 : stream.sent[j] >= stream.sent[i] - 1

\* A stream the host closed, and a poll that was told the run is over, brought
\* the terminal event and all before it, wherever the run is driven.
ToldAllHasAll ==
  /\ stream.at = "closed" =>
       \E i \in EndAt : \A s \in stream.from + 1..i - 1 : \E j \in DOMAIN stream.sent : stream.sent[j] = s
  /\ poller.done => \E i \in EndAt : i - 1 <= poller.last

\* The terminal event of a run driven here reaches every open stream.
\* (the terminal re-check, postgres/src/server.ts:4939-4944)
EndArrives ==
  place = "here" /\ EndAt # {} /\ stream.at # "off"
    ~> \E i \in EndAt : i - 1 <= stream.from \/ \E j \in DOMAIN stream.sent : stream.sent[j] = i - 1

\* The event was committed and its subscriptions were looked up.
Settled(s) ==
  ~(held /\ s = Len(table) - 1) /\ \A i \in DOMAIN queue : queue[i].op = "subscriptions" => queue[i].by # s

\* A subscription hears of every event it asked for that was appended while it
\* was registered, once each, and of none appended after it was removed
\* (postgres/src/webhooks.ts:320-341, sqlite the same).
HeardInFull ==
  /\ \A s \in hook.since..Len(table) - 1 :
       hook.at = "on" /\ (hook.types = {} \/ table[s + 1] \in hook.types) /\ Settled(s)
         => \E j \in DOMAIN hook.posted : hook.posted[j] = s
  /\ \A i, j \in DOMAIN hook.posted : i # j => hook.posted[i] # hook.posted[j]
  /\ hook.at = "off" => \A j \in DOMAIN hook.posted : hook.posted[j] < hook.until

\* Whoever follows a run hears of all of it: a stream, a poll, a subscription.
NothingMissed == NothingSkipped /\ ToldAllHasAll /\ HeardInFull
=============================================================================
