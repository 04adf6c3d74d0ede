----------------------------- MODULE Idempotency -----------------------------
(***************************************************************************)
(* The Layer-1 idempotency keys of the v2 reference host (router.ts          *)
(* withIdempotency, the idempotency table of store.ts): clients that retry   *)
(* and share keys, handlers that wait between their claim and their work,    *)
(* and a kill between any two statements.                                    *)
(*                                                                           *)
(* One tenant.  A request without a key goes straight to its handler and is  *)
(* left out.                                                                 *)
(***************************************************************************)
EXTENDS Integers, Sequences, FiniteSets

CONSTANTS Requests,  \* [op, key, target, body]
          Clients,   \* connections
          MaxSends,  \* bound: requests sent
          MaxCrashes \* bound: times the process is killed

\* The endpoints that take a key.
Ops == {"createRun", "registerWebhook", "rotateWebhookSecret",
        "cancelRun", "forkRun", "resolveInterruptByRun"}

ASSUME IdempotencyAssumption ==
  /\ \A q \in Requests : q.op \in Ops /\ {"op", "key", "target", "body"} = DOMAIN q
  /\ MaxSends \in Nat /\ MaxCrashes \in Nat

VARIABLES db,      \* durable: the idempotency table, and the work that was done
          calls,   \* volatile: the request each connection's handler is in
          answers, \* the final replies that reached a client
          up, sends, crashes

vars == <<db, calls, answers, up, sends, crashes>>

---------------------------------------------------------------------------
(* Keys and digests *)

\* A reply is stored per endpoint and key.
Slot(q) == <<q.op, q.key>>

Slots == {Slot(q) : q \in Requests}

\* What a handler takes the digest of: a cancel its body, a resolve its run and
\* node too; the others have no target.
Digest(q) == IF q.op = "cancelRun" THEN <<q.body>> ELSE <<q.target, q.body>>

\* The reply of outcome o to q on d: a success tells which piece of work it is.
Reply(d, q, o) == [code |-> o, of |-> q.target, work |-> IF o = "done" THEN Len(d.work) + 1 ELSE 0]

NoReply == [code |-> "none", of |-> "none", work |-> 0]

NoRow == [digest |-> <<>>, reply |-> NoReply]

InFlight(slot) == db.table[slot] # NoRow /\ db.table[slot].reply = NoReply

---------------------------------------------------------------------------
(* Statements *)

Claim(d, q) == [d EXCEPT !.table[Slot(q)] = [digest |-> Digest(q), reply |-> NoReply]]

Complete(d, q, reply) == [d EXCEPT !.table[Slot(q)].reply = reply]

Release(d, q) == [d EXCEPT !.table[Slot(q)] = NoRow]

\* The handler's own work: the run, the subscription, the cancellation.
Work(d, q) == [d EXCEPT !.work = Append(@, Slot(q))]

---------------------------------------------------------------------------
(* Sections: the images of the database their statements leave *)

Outcomes == {"done", "refused", "failed"}

\* A wrong form: only a success is kept.
FinalSuccess(o) == o = "done"

\* 404, 409, an endpoint that fails its challenge are final; 400, 401, 403, 429
\* and 5xx are not.
Final(o) == o \in {"done", "refused"}

\* The handler under a claim of d: its work, then the reply is recorded; a
\* refusal changes nothing before it is recorded or the claim is given back.
Run(d, q, o) ==
  LET reply == Reply(d, q, o)
  IN  IF o = "done" THEN <<Work(d, q), Complete(Work(d, q), q, reply)>>
      ELSE IF Final(o) THEN <<Complete(d, q, reply)>> ELSE <<Release(d, q)>>

\* The client that sent q is told reply; a success and a refusal it may rely on.
Told(q, reply) ==
  answers \cup (IF reply.code \in {"done", "refused"}
                THEN {[slot |-> Slot(q), target |-> q.target, reply |-> reply]} ELSE {})

Idle == [c \in Clients |-> <<>>]

Killed == crashes < MaxCrashes /\ crashes' = crashes + 1 /\ up' = FALSE /\ calls' = Idle

\* A section leaves its last image and goes on to next, with what q's client is
\* told; or the process is killed after one of its statements.
Section(imgs, next, told) ==
  \/ db' = imgs[Len(imgs)] /\ calls' = next /\ answers' = told /\ UNCHANGED <<up, crashes>>
  \/ \E i \in 1..Len(imgs) : db' = imgs[i] /\ Killed /\ UNCHANGED answers

\* withIdempotency, from the lookup on.
Send(c, q) ==
  LET row == db.table[Slot(q)]
      claimed == Claim(db, q)
  IN  /\ up /\ calls[c] = <<>> /\ sends < MaxSends /\ sends' = sends + 1
      /\ \/ /\ row # NoRow /\ row.digest # Digest(q)  \* idempotency_key_mismatch
            /\ UNCHANGED <<db, calls, answers, up, crashes>>
         \/ /\ row # NoRow /\ row.digest = Digest(q)  \* the recorded reply, or in flight
            /\ answers' = Told(q, row.reply)
            /\ UNCHANGED <<db, calls, up, crashes>>
         \/ /\ row = NoRow  \* a hold is armed for the key, or an endpoint is challenged
            /\ Section(<<claimed>>, [calls EXCEPT ![c] = <<q>>], answers)
         \/ /\ row = NoRow
            /\ \E o \in Outcomes :
                 Section(<<claimed>> \o Run(claimed, q, o), calls, Told(q, Reply(db, q, o)))

\* A handler that waited does its work.
Proceed(c) ==
  /\ up /\ calls[c] # <<>>
  /\ \E o \in Outcomes :
       LET q == calls[c][1]
       IN  Section(Run(db, q, o), [calls EXCEPT ![c] = <<>>], Told(q, Reply(db, q, o)))
  /\ UNCHANGED sends

Crash == up /\ Killed /\ UNCHANGED <<db, answers, sends>>

\* A wrong form: claims nobody completed are dropped.
BootForgets ==
  /\ ~up /\ up' = TRUE
  /\ db' = [db EXCEPT !.table = [s \in Slots |-> IF InFlight(s) THEN NoRow ELSE @[s]]]
  /\ UNCHANGED <<calls, answers, sends, crashes>>

\* The boot leaves the table as it is.
Boot == ~up /\ up' = TRUE /\ UNCHANGED <<db, calls, answers, sends, crashes>>

Init ==
  /\ db = [table |-> [s \in Slots |-> NoRow], work |-> <<>>]
  /\ calls = Idle /\ answers = {}
  /\ up = TRUE /\ sends = 0 /\ crashes = 0

Next ==
  \/ \E c \in Clients : Proceed(c) \/ \E q \in Requests : Send(c, q)
  \/ Crash \/ Boot

Spec == Init /\ [][Next]_vars

---------------------------------------------------------------------------
(* What is promised *)

Rows == [digest : {<<>>} \cup {Digest(q) : q \in Requests},
         reply : [code : Outcomes \cup {"none"}, of : {q.target : q \in Requests} \cup {"none"}, work : Nat]]

\* The state is well typed, and a handler that waits holds its key's claim alone.
TypeOK ==
  /\ db \in [table : [Slots -> Rows], work : Seq(Slots)]
  /\ calls \in [Clients -> {<<>>} \cup {<<q>> : q \in Requests}]
  /\ \A c, e \in Clients : calls[c] # <<>> =>
       /\ InFlight(Slot(calls[c][1]))
       /\ calls[e] # <<>> /\ Slot(calls[c][1]) = Slot(calls[e][1]) => c = e
  /\ up \in BOOLEAN /\ sends \in 0..MaxSends /\ crashes \in 0..MaxCrashes

\* Under one key an endpoint does its work once, however often the request is
\* repeated, by whom, and wherever the process is killed (router.ts:348-353).
WorkedOnce == \A i, j \in DOMAIN db.work : db.work[i] = db.work[j] => i = j

\* Every final reply under one key is the same one (router.ts:350-351).
OneReply == \A x, y \in answers : x.slot = y.slot => x.reply = y.reply

\* A success that is told stands on work that is done, also after a kill.
RepliesStand ==
  \A s \in Slots : db.table[s].reply.code = "done" =>
    LET i == db.table[s].reply.work IN i \in DOMAIN db.work /\ db.work[i] = s

\* It is, of every operation whose digest tells its targets apart.
OtherRepliesAreOwn == \A x \in answers : x.slot[1] # "cancelRun" => x.reply.of = x.target

=============================================================================
