------------------------------ MODULE Webhooks ------------------------------
(***************************************************************************)
(* Webhook delivery of the v2 reference host (webhooks.ts), over the event  *)
(* log it feeds on (events.ts appendEvent) and the forks whose inherited    *)
(* history must not be delivered a second time (replay.ts).                 *)
(*                                                                          *)
(* Appending an event and inserting one delivery row per subscription are    *)
(* statements of one synchronous section, each committed on its own: a kill   *)
(* falls between any two.  A timer reads the due rows and starts a POST for   *)
(* each that has none under way; what has one is known to memory only.  The   *)
(* subscriber is external: it may take a request and its answer be lost.      *)
(***************************************************************************)
EXTENDS Naturals, FiniteSets, Sequences, SequencesExt

CONSTANTS Subs,          \* webhook ids
          Early,         \* those registered from the start
          Types,         \* event types
          Wanted,        \* the types each subscription names
          Source, Fork,  \* run ids: a run, and the run forked off it
          MaxEvents,     \* bound: events produced, inherited ones apart
          MaxRows,       \* bound: delivery rows
          MaxAttempts,   \* OPENWOP_WEBHOOK_MAX_ATTEMPTS
          Batch,         \* rows a tick reads (20)
          MaxCrashes     \* bound: kills

ASSUME WebhooksAssumption ==
  /\ IsFiniteSet(Subs) /\ Early \subseteq Subs /\ Wanted \in [Subs -> SUBSET Types] /\ Source # Fork
  /\ MaxEvents \in Nat /\ MaxRows \in Nat /\ MaxAttempts \in Nat \ {0} /\ Batch \in Nat \ {0} /\ MaxCrashes \in Nat

VARIABLES runs,      \* durable: each run's fork mode, fork point and log
          subs,      \* durable: each subscription not yet registered, live or gone
          rows,      \* durable: the delivery rows
          due,       \* the keys of the due rows, by next_at
          verifying, \* volatile: registrations awaiting their endpoint's consent
          flight,    \* volatile: deliveries with a POST under way, and the attempts their row counted
          up, produced, crashes,
          posts,     \* history: POSTs started for each delivery
          accepted   \* history: deliveries their subscriber took

vars == <<runs, subs, rows, due, verifying, flight, up, produced, crashes, posts, accepted>>

---------------------------------------------------------------------------
(* Values *)

Runs == {Source, Fork}

\* A delivery is for one subscription and one event of a run's log.
Keys == Subs \X Runs \X (1..MaxEvents)

NoRow == [state |-> "none", attempts |-> 0]

NewRow == [state |-> "pending", attempts |-> 0]

\* mode: "none" is no run yet, "own" a run that is no fork; copied: how much
\* of the log was inherited.
NoRun == [mode |-> "none", from |-> 0, copied |-> 0, log |-> <<>>]

Without(s, gone) ==
  LET kept[i \in 0..Len(s)] ==
        IF i = 0 THEN <<>> ELSE IF s[i] \in gone THEN kept[i - 1] ELSE Append(kept[i - 1], s[i])
  IN  kept[Len(s)]

Live == {s \in Subs : subs[s] = "live"}

---------------------------------------------------------------------------
(* Fan-out *)

\* A wrong form: a replay is a run like another.
FansOutReplays(run, position) == run.mode = "branch" => position > run.from

\* A wrong form: the event at the fork point is history.
FansOutAfter(run, position) == run.mode # "replay" /\ (run.mode = "branch" => position > run.from + 1)

\* No event of a replay goes out, and none of a branch before its fork point.
\* Sequence numbers count from 0, positions in the log from 1.
FansOut(run, position) == run.mode # "replay" /\ (run.mode = "branch" => position > run.from)

\* The subscriptions an event of this type goes out to, in some order.
Audience(run, position, type) ==
  IF FansOut(run, position) THEN {s \in Live : type \in Wanted[s]} ELSE {}

\* Memory dies with the process.
Killed ==
  /\ crashes < MaxCrashes /\ crashes' = crashes + 1
  /\ up' = FALSE /\ flight' = {} /\ verifying' = {}

Lives == UNCHANGED <<up, crashes, flight, verifying>>

\* appendEvent of a live event, and one insertDelivery per subscription; or the
\* process dies with some of them inserted.
Produce(r, type) ==
  LET at == Len(runs[r].log) + 1
      audience == Audience(runs[r], at, type)
      keys(told) == {<<s, r, at>> : s \in told}
  IN  /\ up /\ runs[r].mode # "none" /\ produced < MaxEvents
      /\ Cardinality({k \in Keys : rows[k] # NoRow}) + Cardinality(audience) <= MaxRows
      /\ runs' = [runs EXCEPT ![r].log = Append(@, type)]
      /\ produced' = produced + 1
      /\ \E told \in SUBSET audience :
           /\ (told = audience /\ Lives) \/ Killed
           /\ rows' = [k \in Keys |-> IF k \in keys(told) THEN NewRow ELSE rows[k]]
           /\ \E queue \in SetToSeqs(keys(told)) : due' = due \o queue
      /\ UNCHANGED <<subs, posts, accepted>>

\* forkRun: the child's row, then its inherited events one by one; none of them
\* is fanned out.  Killed on the way, the child is left with less of them.
ForkRun(mode, from) ==
  LET prefix(n) == SubSeq(runs[Source].log, 1, n)
      child(n) == [mode |-> mode, from |-> from, copied |-> n, log |-> prefix(n)]
  IN  /\ up /\ runs[Fork].mode = "none" /\ from <= Len(runs[Source].log)
      /\ \E n \in 0..from :
           /\ (n = from /\ Lives) \/ Killed
           /\ runs' = [runs EXCEPT ![Fork] = child(n)]
      /\ UNCHANGED <<subs, rows, due, produced, posts, accepted>>

---------------------------------------------------------------------------
(* Subscriptions *)

\* registerWebhook, without the opt-in to endpoint verification.
Register(s) ==
  /\ up /\ subs[s] = "new" /\ s \notin verifying
  /\ subs' = [subs EXCEPT ![s] = "live"]
  /\ UNCHANGED <<runs, rows, due, verifying, flight, up, produced, crashes, posts, accepted>>

\* registerWebhook of an opted-in subscription awaits its endpoint.
AskConsent(s) ==
  /\ up /\ subs[s] = "new" /\ s \notin verifying
  /\ verifying' = verifying \cup {s}
  /\ UNCHANGED <<runs, subs, rows, due, flight, up, produced, crashes, posts, accepted>>

\* The endpoint consents, or refuses and nothing is persisted.
Consent(s) ==
  /\ up /\ s \in verifying
  /\ verifying' = verifying \ {s}
  /\ subs' \in {subs, [subs EXCEPT ![s] = "live"]}
  /\ UNCHANGED <<runs, rows, due, flight, up, produced, crashes, posts, accepted>>

\* unregisterWebhook: the row only; its deliveries stay, and so does a POST under way.
Unregister(s) ==
  /\ up /\ subs[s] = "live"
  /\ subs' = [subs EXCEPT ![s] = "gone"]
  /\ UNCHANGED <<runs, rows, due, verifying, flight, up, produced, crashes, posts, accepted>>

---------------------------------------------------------------------------
(* Delivery *)

InFlight == {f.key : f \in flight}

\* dueDeliveries
DuePage == SubSeq(due, 1, IF Len(due) < Batch THEN Len(due) ELSE Batch)

\* A wrong form: what is under way is taken up again.
StartsDue == Range(DuePage)

\* The due rows a tick takes up: a page of them, less what is under way.
ToStart == Range(DuePage) \ InFlight

\* One tick of the delivery worker.  Each attempt runs up to its request at
\* once; a row whose subscription is gone is dead-lettered there.
Tick ==
  LET orphans == {k \in ToStart : k[1] \notin Live}
      started == ToStart \ orphans
  IN  /\ up /\ ToStart # {}
      /\ \E buried \in SUBSET orphans :
           /\ \/ /\ buried = orphans
                 /\ flight' = flight \cup {[key |-> k, attempts |-> rows[k].attempts] : k \in started}
                 /\ UNCHANGED <<up, crashes, verifying>>
              \/ Killed
           /\ rows' = [k \in Keys |-> IF k \in buried THEN [rows[k] EXCEPT !.state = "dead-lettered"] ELSE rows[k]]
           /\ due' = Without(due, buried)
      /\ posts' = [k \in Keys |-> posts[k] + IF k \in started THEN 1 ELSE 0]
      /\ UNCHANGED <<runs, subs, produced, accepted>>

\* A wrong form: only a delivered row is forgotten by the worker.
LandedLeaky(f) == flight' = IF rows'[f.key].state = "delivered" THEN flight \ {f} ELSE flight

\* The POST of f is over; the worker forgets it once its row is updated.
Landed(f) == flight' = flight \ {f}

\* A 2xx answer.
Delivered(f) ==
  /\ up /\ f \in flight
  /\ rows' = [rows EXCEPT ![f.key] = [state |-> "delivered", attempts |-> f.attempts + 1]]
  /\ due' = Without(due, {f.key})
  /\ accepted' = accepted \cup {f.key}
  /\ Landed(f)
  /\ UNCHANGED <<runs, subs, verifying, up, produced, crashes, posts>>

\* This attempt was the last one allowed.
Exhausted(f) == f.attempts + 1 >= MaxAttempts

\* Any other end of the POST, the loss of the answer to a taken request included:
\* the row backs off, or is dead-lettered.
Refused(f) ==
  /\ up /\ f \in flight
  /\ accepted' \in {accepted, accepted \cup {f.key}}
  /\ rows' = [rows EXCEPT ![f.key] =
                [state |-> IF Exhausted(f) THEN "dead-lettered" ELSE "pending", attempts |-> f.attempts + 1]]
  /\ due' = Without(due, {f.key})
  /\ Landed(f)
  /\ UNCHANGED <<runs, subs, verifying, up, produced, crashes, posts>>

\* The back-off of a row has elapsed.
Ripen(k) ==
  /\ rows[k].state = "pending" /\ k \notin Range(due)
  /\ due' = Append(due, k)
  /\ UNCHANGED <<runs, subs, rows, verifying, flight, up, produced, crashes, posts, accepted>>

\* purgeDeadLetters, of what is past its retention.
Purge(k) ==
  /\ up /\ rows[k].state = "dead-lettered"
  /\ rows' = [rows EXCEPT ![k].state = "purged"]
  /\ UNCHANGED <<runs, subs, due, verifying, flight, up, produced, crashes, posts, accepted>>

---------------------------------------------------------------------------
(* Death and restart *)

\* A kill while the thread is idle.  A request under way may have been taken.
Crash ==
  /\ up /\ Killed
  /\ \E taken \in SUBSET InFlight : accepted' = accepted \cup taken
  /\ UNCHANGED <<runs, subs, rows, due, produced, posts>>

Boot ==
  /\ ~up /\ up' = TRUE
  /\ UNCHANGED <<runs, subs, rows, due, verifying, flight, produced, crashes, posts, accepted>>

---------------------------------------------------------------------------
Init ==
  /\ runs = [r \in Runs |-> IF r = Source THEN [NoRun EXCEPT !.mode = "own"] ELSE NoRun]
  /\ subs = [s \in Subs |-> IF s \in Early THEN "live" ELSE "new"] /\ rows = [k \in Keys |-> NoRow] /\ due = <<>>
  /\ verifying = {} /\ flight = {} /\ up = TRUE /\ produced = 0 /\ crashes = 0
  /\ posts = [k \in Keys |-> 0] /\ accepted = {}

Next ==
  \/ \E r \in Runs, type \in Types : Produce(r, type)
  \/ \E mode \in {"replay", "branch"}, from \in 0..MaxEvents : ForkRun(mode, from)
  \/ \E s \in Subs : Register(s) \/ AskConsent(s) \/ Consent(s) \/ Unregister(s)
  \/ Tick
  \/ \E f \in flight : Delivered(f) \/ Refused(f)
  \/ \E k \in Keys : Ripen(k) \/ Purge(k)
  \/ Crash \/ Boot

Spec == Init /\ [][Next]_vars

\* The timer ticks, a POST ends within its time-out, back-offs elapse and the
\* supervisor restarts a dead process.
FairSpec ==
  /\ Spec /\ WF_vars(Tick) /\ WF_vars(Boot)
  /\ WF_vars(\E k \in Keys : Ripen(k))
  /\ WF_vars(\E f \in flight : Delivered(f) \/ Refused(f))

---------------------------------------------------------------------------
(* Properties *)

\* What the row says happened: a delivered event was taken by its subscriber,
\* and one is given up only after every attempt or with its subscription.
RowsTell ==
  \A k \in Keys :
    /\ rows[k].state = "delivered" => k \in accepted
    /\ rows[k].state \in {"dead-lettered", "purged"} => posts[k] >= MaxAttempts \/ k[1] \notin Live

\* No POST but those the row counts, the one under way and one lost to each kill:
\* a delivery that is due is not posted again beside its own attempt.
PostsCounted ==
  \A k \in Keys : posts[k] <= rows[k].attempts + crashes + IF k \in InFlight THEN 1 ELSE 0

\* A row is an honest account of its delivery: of what came of it, and of how
\* often it was posted (attempt and the inFlight set of startDeliveryWorker).
SettledHonestly == RowsTell /\ PostsCounted

\* A subscriber hears of an event once: a fork delivers nothing its source run
\* went through, however little of it the fork had copied when it was killed.
HistoryStaysQuiet ==
  \A k \in Keys : rows[k].state # "none" =>
    LET run == runs[k[2]] IN
    run.mode \in {"own", "branch"} /\ k[3] \in run.copied + 1..Len(run.log) /\ k[3] > run.from

\* As long as the process is not killed, every event of a run or a branch has
\* its delivery to each subscription that named its type all along.
NoEventUnheard ==
  crashes = 0 => \A k \in Keys :
    LET run == runs[k[2]] IN
    /\ k[1] \in Early \cap Live
    /\ run.mode \in {"own", "branch"} /\ k[3] \in run.copied + 1..Len(run.log)
    /\ run.log[k[3]] \in Wanted[k[1]]
    => rows[k].state # "none"

\* Every delivery is settled: taken by its subscriber, or given up - a dead
\* subscriber at the head of the queue, kills and lost answers notwithstanding.
EveryDeliverySettles == \A k \in Keys : rows[k].state = "pending" ~> rows[k].state # "pending"
=============================================================================
