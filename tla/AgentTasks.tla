----------------------------- MODULE AgentTasks -----------------------------
(***************************************************************************)
(* The runs of the v2 reference host as other agents meet them: as A2A tasks *)
(* (a2a-server.ts sendMessage, cancelTask), with a push to whoever asked to   *)
(* be told (a2a-push.ts), and as MCP tool calls and tasks (mcp-server.ts).     *)
(* One caller's runs: what nobody else may see is left out, and so is a       *)
(* refusal, which changes nothing.                                            *)
(*                                                                           *)
(* A handler runs without a break once it has the request's body, and its     *)
(* statements are committed one by one.  It may then wait for the run to      *)
(* settle.  An interrupt is its number in the run.  A run's own steps are     *)
(* those of the Executor, told in one.                                        *)
(***************************************************************************)
EXTENDS Integers, Sequences, FiniteSets

CONSTANTS Messages,      \* the ids of messages
          Callers,       \* connections
          Kinds,         \* how an interrupt is put to a client: a form, a page, a credential
          MaxRuns,       \* bound: runs
          MaxInterrupts, \* bound: interrupts of a run
          MaxTokens,     \* bound: requestStates handed out
          MaxKills       \* bound: times the process is killed

ASSUME AgentAssumption ==
  /\ Kinds \subseteq {"form", "page", "credential"}
  /\ Messages \cap {"token", "key", "page"} = {}  \* who else answers
  /\ {MaxRuns, MaxInterrupts, MaxTokens, MaxKills} \subseteq Nat

VARIABLES store,  \* durable: runs, messages recorded, requestStates spent, pages
          heap,   \* volatile: loops, the requests being served, the push config
          handed, \* the requestStates clients were handed
          kills

agentVars == <<store, heap, handed, kills>>

Ends == {"completed", "failed", "cancelled"}

---------------------------------------------------------------------------
(* The database *)

\* A run, the history of its A2A task, its last interrupt, and which interrupts
\* were answered by whom: by the number the answer named, if it named one.
Accepted == [status |-> "pending", task |-> FALSE, history |-> <<>>,
             opened |-> 0, kind |-> "none", open |-> FALSE, claimed |-> FALSE, answers |-> <<>>]

Accept(s) == [s EXCEPT !.runs = Append(@, Accepted)]

\* setA2AHistory: nothing for a run that came another way and has no task row.
AppendHistory(s, r, m) == IF s.runs[r].task THEN [s EXCEPT !.runs[r].history = Append(@, m)] ELSE s

\* recordA2AMessage
Record(s, r, m) == [s EXCEPT !.recorded[m] = r]

\* resolveAndResume: the claim, then what it does to the run, which goes on or is
\* failed by a rejection; a vote that decides nothing leaves all as it is.
Resolve(s, r, named, by, to) ==
  LET claimed == [s EXCEPT !.runs[r].open = FALSE, !.runs[r].claimed = TRUE,
                           !.runs[r].answers = Append(@, [interrupt |-> s.runs[r].opened, named |-> named, by |-> by])]
  IN  IF to = "undecided" THEN <<s>>
      ELSE <<claimed, [claimed EXCEPT !.runs[r].claimed = FALSE, !.runs[r].status = to]>>

\* A run's end invalidates its interrupt.
End(s, r, status) ==
  <<[s EXCEPT !.runs[r].open = FALSE], [s EXCEPT !.runs[r].open = FALSE, !.runs[r].status = status]>>

LastImage(images) == images[Len(images)]

Results == {"running", "failed", "undecided"}

\* A run waits for an answer that can still be given.
Asking(r) == store.runs[r].status = "waiting" /\ store.runs[r].open

---------------------------------------------------------------------------
(* The process *)

Free == [at |-> "free", run |-> 0, interrupt |-> 0, owns |-> FALSE]

NoConfig == [run |-> 0, held |-> FALSE, last |-> "none"]

\* recoverInFlightRuns; nothing else of a process is left.
Restarted(s) ==
  [loops |-> {r \in DOMAIN s.runs : s.runs[r].status \in {"pending", "running", "cancelling"}},
   calls |-> [c \in Callers |-> Free], config |-> NoConfig, told |-> FALSE]

Schedule(h, r) == [h EXCEPT !.loops = @ \cup {r}]

\* An event of a run with a push config: a setImmediate is waiting to push.
Tell(h, r) == [h EXCEPT !.told = @ \/ (h.config.run = r /\ h.config.held)]

Resumed(h, r, to) ==
  CASE to = "running" -> Schedule(Tell(h, r), r)
    [] to = "failed" -> Tell(h, r)
    [] OTHER -> h

Blocked(h, c, call) == [h EXCEPT !.calls[c] = call]

\* A request that waits for its run to settle; an MCP one owns the run.
Waits(at, r) == [Free EXCEPT !.at = at, !.run = r, !.owns = at # "a2a"]

\* mintState
RequestState(n, r) == [n |-> n, run |-> r, interrupt |-> store.runs[r].opened, good |-> TRUE]

\* A kill loses the secret of requestStates, unless one was configured.
KilledAt(s) ==
  /\ kills < MaxKills /\ kills' = kills + 1
  /\ store' = s /\ heap' = Restarted(s) /\ handed' \in {handed, {[token EXCEPT !.good = FALSE] : token \in handed}}

\* A handler leaves the last of its images and the heap h, or the process is
\* killed after one of its statements.
Serve(images, h) ==
  \/ store' = LastImage(images) /\ heap' = h /\ UNCHANGED <<handed, kills>>
  \/ \E i \in 1..Len(images) - 1 : KilledAt(images[i])

\* requestCancel: at once, or left to the run's loop.
AtOnce(r) == store.runs[r].status \in {"pending", "waiting"} \/ r \notin heap.loops

Cancel(s, r) == IF AtOnce(r) THEN End(s, r, "cancelled") ELSE <<[s EXCEPT !.runs[r].status = "cancelling"]>>

\* A wrong form: a cancel at once tells nobody.
CancelUntold(h, r) == h

Cancelled(h, r) == IF AtOnce(r) THEN Tell(h, r) ELSE h

Ready(c) == heap.calls[c].at = "free"

---------------------------------------------------------------------------
(* A2A *)

\* sendMessage that names no task, of an id that is not recorded.
StartTask(c, m) ==
  /\ Ready(c) /\ store.recorded[m] = 0 /\ Len(store.runs) < MaxRuns
  /\ LET r == Len(store.runs) + 1
         accepted == Accept(store)
         task == [accepted EXCEPT !.runs[r].task = TRUE]
         written == AppendHistory(task, r, m)
     IN  Serve(<<accepted, task, written, Record(written, r, m)>>, Blocked(Schedule(heap, r), c, Waits("a2a", r)))

\* One that names a task that waits for an answer.
AnswerTask(c, m, r, to) ==
  /\ Ready(c) /\ store.recorded[m] = 0 /\ Asking(r)
  /\ LET resolved == Resolve(store, r, 0, m, to)
         written == AppendHistory(LastImage(resolved), r, m)
     IN  Serve(resolved \o <<written, Record(written, r, m)>>, Blocked(Resumed(heap, r, to), c, Waits("a2a", r)))

\* One whose id is recorded: the task it reached.
RepeatMessage(c, m) ==
  /\ Ready(c) /\ store.recorded[m] # 0
  /\ Serve(<<store>>, Blocked(heap, c, Waits("a2a", store.recorded[m])))

\* cancelTask, and tasks/cancel.
CancelTask(r) ==
  /\ store.runs[r].status \notin Ends
  /\ Serve(Cancel(store, r), Cancelled(heap, r))

\* TASK_STATE, as taskOf overrides it.
TaskState(run) ==
  CASE run.status = "pending" -> "submitted"
    [] run.status \in {"running", "cancelling"} -> "working"
    [] run.status = "waiting" -> IF run.open /\ run.kind = "credential" THEN "auth required" ELSE "input required"
    [] OTHER -> run.status

CreatePushConfig(r) ==
  /\ heap.config.run = 0 /\ store.runs[r].status \notin Ends
  /\ Serve(<<store>>, [heap EXCEPT !.config = [run |-> r, held |-> TRUE, last |-> TaskState(store.runs[r])]])

DeletePushConfig ==
  /\ heap.config.held
  /\ Serve(<<store>>, [heap EXCEPT !.config = NoConfig, !.told = FALSE])

\* The setImmediate: the row as it is now is pushed if it shows another state,
\* and the config dropped with the run's end.
Push ==
  /\ heap.told
  /\ LET run == store.runs[heap.config.run]
     IN  Serve(<<store>>, [heap EXCEPT !.told = FALSE, !.config.last = TaskState(run), !.config.held = run.status \notin Ends])

---------------------------------------------------------------------------
(* MCP *)

\* toolsCall without a requestState; one that declares tasks is answered with the
\* task and waits for nothing.
CallTool(c, tasked) ==
  /\ Ready(c) /\ Len(store.runs) < MaxRuns
  /\ LET r == Len(store.runs) + 1
     IN  Serve(<<Accept(store)>>, Blocked(Schedule(heap, r), c, Waits(IF tasked THEN "task" ELSE "tool", r)))

\* A wrong form: the state is good for whatever the run asks now.
StillOpenOnRun(token) == Asking(token.run)

\* The interrupt a requestState names is open.
StillOpen(token) == store.runs[token.run].open /\ store.runs[token.run].opened = token.interrupt

\* toolsCall with one: it is spent before anything else, and the run, if it goes
\* on, belongs to this request.  The answer may be left to a page or to the one who
\* grants the credential.
Retry(c, token, action, to) ==
  /\ Ready(c) /\ token.good /\ token.n \notin store.spent
  /\ LET r == token.run
         run == store.runs[r]
         spent == [store EXCEPT !.spent = @ \cup {token.n}]
         waits == Waits("tool", r)
     IN  \/ /\ run.status \in Ends
            /\ Serve(<<spent>>, heap)
         \/ /\ run.status \notin Ends /\ action = "cancel"
            /\ Serve(<<spent>> \o Cancel(spent, r), Blocked(Cancelled(heap, r), c, waits))
         \/ /\ run.status \notin Ends /\ action # "cancel" /\ ~StillOpen(token)
            /\ Serve(<<spent>>, Blocked(heap, c, [waits EXCEPT !.at = "task"]))
         \/ /\ run.status \notin Ends /\ action = "answer" /\ StillOpen(token)
            /\ Serve(<<spent>> \o Resolve(spent, r, token.interrupt, "token", to), Blocked(Resumed(heap, r, to), c, waits))
         \/ /\ run.status \notin Ends /\ action = "elsewhere" /\ StillOpen(token) /\ run.kind # "form"
            /\ Serve(<<spent>>, Blocked(heap, c, waits))

\* elicitationFor: a form, or a place to go to if the request knows of such.
Elicits(kind, url) == url \/ kind = "form"

\* The host answers: the run settled, or the request waited long enough.  One that
\* a tool asks for input is handed a requestState, and a page if it takes one.
Answer(c, url) ==
  LET call == heap.calls[c]
      run == store.runs[call.run]
      asks == call.at = "tool" /\ Asking(call.run) /\ Elicits(run.kind, url)
  IN  /\ call.at \in {"a2a", "tool", "task"}
      /\ asks => Cardinality(handed) < MaxTokens
      /\ handed' = IF asks THEN handed \cup {RequestState(Cardinality(handed) + 1, call.run)} ELSE handed
      /\ store' = IF asks /\ run.kind = "page" THEN [store EXCEPT !.pages = @ \cup {call.run}] ELSE store
      /\ heap' = Blocked(heap, c, Free)
      /\ UNCHANGED kills

\* The connection closes before that: the run goes with the request that owns it.
Disconnect(c) ==
  LET call == heap.calls[c]
      r == call.run
      gone == Blocked(heap, c, Free)
  IN  /\ ~Ready(c)
      /\ IF call.owns /\ store.runs[r].status \notin Ends
         THEN Serve(Cancel(store, r), Cancelled(gone, r)) ELSE Serve(<<store>>, gone)

\* tasks/get shows a page for what no form may carry.
GetTask(r) ==
  /\ Asking(r) /\ store.runs[r].kind = "page"
  /\ Serve(<<[store EXCEPT !.pages = @ \cup {r}]>>, heap)

\* tasks/update: one answer, by the interrupt it is for.
UpdateTask(r, interrupt, action, to) ==
  /\ Asking(r) /\ store.runs[r].opened = interrupt
  /\ IF action = "cancel" THEN Serve(Cancel(store, r), Cancelled(heap, r))
     ELSE Serve(Resolve(store, r, interrupt, "key", to), Resumed(heap, r, to))

\* pagePost: the page's interrupt is looked up, then the body awaited.
PostPage(c, r) ==
  /\ Ready(c) /\ r \in store.pages /\ store.runs[r].open
  /\ Serve(<<store>>, Blocked(heap, c, [Free EXCEPT !.at = "page", !.run = r, !.interrupt = store.runs[r].opened]))

PageBody(c, to) ==
  LET call == heap.calls[c]
      r == call.run
      freed == Blocked(heap, c, Free)
  IN  /\ call.at = "page"
      /\ IF store.runs[r].open /\ store.runs[r].opened = call.interrupt
         THEN Serve(Resolve(store, r, call.interrupt, "page", to), Resumed(freed, r, to))
         ELSE Serve(<<store>>, freed)

---------------------------------------------------------------------------
(* The run (executor.ts continueRun) *)

Leave(h, r) == [h EXCEPT !.loops = @ \ {r}]

StartRun(r) ==
  /\ r \in heap.loops /\ store.runs[r].status = "pending"
  /\ Serve(<<[store EXCEPT !.runs[r].status = "running"]>>, Tell(heap, r))

\* An interrupt minted before a kill is found again, open or claimed.
Suspend(r, kind) ==
  /\ r \in heap.loops /\ store.runs[r].status = "running"
  /\ LET run == store.runs[r]
         found == run.open \/ run.claimed
         minted == IF found THEN store
                   ELSE [store EXCEPT !.runs[r].opened = @ + 1, !.runs[r].kind = kind, !.runs[r].open = TRUE]
     IN  /\ IF found THEN kind = run.kind ELSE run.opened < MaxInterrupts
         /\ Serve(<<minted, [minted EXCEPT !.runs[r].status = "waiting"]>>, Tell(Leave(heap, r), r))

EndRun(r, status) ==
  /\ r \in heap.loops
  /\ store.runs[r].status = IF status = "cancelled" THEN "cancelling" ELSE "running"
  /\ Serve(End(store, r, status), Tell(Leave(heap, r), r))

\* A loop that finds its run over.
LeaveRun(r) ==
  /\ r \in heap.loops /\ store.runs[r].status \in Ends
  /\ Serve(<<store>>, Leave(heap, r))

---------------------------------------------------------------------------
AgentInit ==
  /\ store = [runs |-> <<>>, recorded |-> [m \in Messages |-> 0], spent |-> {}, pages |-> {}]
  /\ heap = Restarted(store)
  /\ handed = {} /\ kills = 0

AgentNext ==
  \/ \E c \in Callers, m \in Messages : StartTask(c, m) \/ RepeatMessage(c, m)
  \/ \E c \in Callers, m \in Messages, r \in DOMAIN store.runs, to \in Results : AnswerTask(c, m, r, to)
  \/ \E c \in Callers, token \in handed, action \in {"answer", "elsewhere", "cancel"}, to \in Results : Retry(c, token, action, to)
  \/ \E c \in Callers, b \in BOOLEAN : CallTool(c, b) \/ Answer(c, b)
  \/ \E c \in Callers, r \in DOMAIN store.runs : PostPage(c, r)
  \/ \E c \in Callers, to \in Results : PageBody(c, to)
  \/ \E c \in Callers : Disconnect(c)
  \/ \E r \in DOMAIN store.runs :
       \/ CancelTask(r) \/ GetTask(r) \/ CreatePushConfig(r) \/ StartRun(r) \/ LeaveRun(r)
       \/ \E status \in Ends : EndRun(r, status)
       \/ \E kind \in Kinds : Suspend(r, kind)
       \/ \E i \in 1..MaxInterrupts, action \in {"answer", "cancel"}, to \in Results : UpdateTask(r, i, action, to)
  \/ DeletePushConfig \/ Push
  \/ KilledAt(store)

AgentSpec == AgentInit /\ [][AgentNext]_agentVars

---------------------------------------------------------------------------
(* What is promised *)

\* An answer reaches the question it was given to: whichever way it comes, an
\* interrupt is answered once; an answer that names one answers no later one; and
\* while the process lives, a message sent again answers nothing a second time
\* (mcp-server.ts:324-325, a2a-server.ts:289).
AnswersFit ==
  \A r, s \in DOMAIN store.runs :
    \A i \in DOMAIN store.runs[r].answers, j \in DOMAIN store.runs[s].answers :
      LET a == store.runs[r].answers[i]
          b == store.runs[s].answers[j]
      IN  /\ a.named \in {0, a.interrupt}
          /\ <<r, i>> # <<s, j>> => /\ r = s => a.interrupt # b.interrupt
                                    /\ kills = 0 /\ a.by \in Messages => a.by # b.by

\* Whoever asked to be told of a task is told of its end: a config of a run that
\* is over is about to be looked at, or was dropped after a push of that state.
\* (the status is set after the event, a2a-push.ts:159)
EndIsPushed ==
  LET c == heap.config
  IN  c.run # 0 /\ store.runs[c.run].status \in Ends =>
        IF c.held THEN heap.told ELSE c.last = TaskState(store.runs[c.run])

\* "a repeat from the same principal answers the task it already reached"
\* (a2a-server.ts:289): a message is in one task's history, once.
OneTaskPerMessage ==
  \A r, s \in DOMAIN store.runs :
    \A i \in DOMAIN store.runs[r].history, j \in DOMAIN store.runs[s].history :
      store.runs[r].history[i] = store.runs[s].history[j] => r = s /\ i = j
=============================================================================
