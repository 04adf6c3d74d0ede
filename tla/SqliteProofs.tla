----------------------------- MODULE SqliteProofs -----------------------------
(***************************************************************************)
(* No run of the SQLite host is lost, and none gets past a gate that was   *)
(* not granted: for any runs, workflows and bounds, whatever crashes       *)
(* between two statements and whatever is cancelled, answered or shut      *)
(* down.                                                                   *)
(*                                                                         *)
(* The first argument: whoever makes a run one that is to run has a launch *)
(* of it further down in its program, and stays in the queue until it got  *)
(* there; an executor ends only after it made its run one that is not to   *)
(* run; and a claim of the living process belongs to an executor.          *)
(*                                                                         *)
(* The second, on the first's invariant: a run has at most one executor,   *)
(* which is where its row says.  A node that asks is passed by a handler   *)
(* alone, which found its interrupt open with nothing else in the queue;   *)
(* the interrupt is of the run's next node, so no executor is there, and   *)
(* until the handler has moved the run on and launched it nothing else     *)
(* runs.                                                                   *)
(***************************************************************************)
EXTENDS SqliteHost, FiniteSetTheorems, WellFoundedInduction, TLAPS

Live == {"pending", "running", "cancelling"}
Statuses == Live \cup Waiting \cup Terminal

RunFields == {"status", "next", "flow", "parent", "holder", "fresh"}

(* What the program of an executor, or of a handler, ends in while what    *)
(* follows is not known.                                                   *)
Going == {"next", "out", "poll", "nap", "sleep", "find", "dispatch"}
Answers == {"tally", "answer"}
Verdicts == {"completed", "failed", "cancelled", "loopback", "suspended"}

Gives(p, r) == \E i \in DOMAIN p : p[i] = Of("launch", r)
GivesAfter(p, i, r) == \E j \in DOMAIN p : j > i /\ p[j] = Of("launch", r)

(* The statements that stop a run and those it began.                      *)
Stops(s) ==
  \/ s.op \in {"cascade", "request", "abort", "invalidate", "append", "release"}
  \/ s.op = "set" /\ s.status \in Terminal

(* What the i-th statement of a program demands of the others: a run that  *)
(* is made to run is launched later on, or has this thread for executor.   *)
Fits(x, i) ==
  LET s == x.todo[i] IN
  /\ s.op \in Going => i = Len(x.todo) /\ x.kind = "exec"
  /\ s.op = "out" => s.outcome \in Verdicts
  /\ s.op \in Answers \cup {"cancel"} => i = Len(x.todo) /\ x.kind = "call"
  /\ s.op = "body" => i = 1 /\ Len(x.todo) = 2 /\ x.todo[2].op \in Answers
  /\ s.op = "set" =>
       /\ s.status \in Statuses
       /\ s.status \in Live => (x.kind = "exec" /\ s.run = x.run) \/ GivesAfter(x.todo, i, s.run)
  /\ s.op \in {"insert run", "advance"} => GivesAfter(x.todo, i, x.run)
  /\ s.op = "insert" => x.child \in Runs /\ GivesAfter(x.todo, i, x.child)
  /\ s.op = "request" => \A j \in 1 .. i - 1 : Stops(x.todo[j])

(* An executor gives up its claim last, and only once its run is over.     *)
EndsWell(r, p) ==
  /\ p # <<>>
  /\ \/ p[Len(p)].op \in Going
     \/ /\ p[Len(p)] = Of("release", r)
        /\ Len(p) > 1 => \E status \in Terminal : p[Len(p) - 1] = Set(r, status)

Program(x) ==
  /\ DOMAIN x = DOMAIN Idle
  /\ \E S : x.todo \in Seq(S)
  /\ \A i \in DOMAIN x.todo : Fits(x, i)
  /\ x.kind = "exec" => EndsWell(x.run, x.todo)

Proper(x) ==
  /\ Program(x)
  /\ x.kind \in {"free", "call", "exec"}
  /\ x.kind = "free" <=> x.todo = <<>>

(* What a thread has found in the table still holds of it.                 *)
Releases(x) == x.kind = "exec" /\ x.todo = <<Of("release", x.run)>>

Known(r, table) == r \in Runs /\ table[r].status # "none"

Sees(x, table) ==
  /\ \A i \in DOMAIN x.todo :
       LET s == x.todo[i] IN
       /\ s.op = "request" => Known(s.run, table) /\ table[s.run].status \notin Waiting
       /\ s.op = "cascade" => Known(s.run, table)
       /\ s.op = "cancel" => Known(x.run, table)
       /\ s.op \in {"poll", "nap"} =>
            \/ Known(x.child, table)
            \/ \E j \in DOMAIN x.todo : x.todo[j].op = "insert"
  /\ Releases(x) /\ x.run \in Runs => table[x.run].status \notin Live

(* These statements follow on what was found without anything in between.  *)
Urgent(x) == Releases(x) \/ \E i \in DOMAIN x.todo : x.todo[i].op = "request"

Current(t) == queue # <<>> /\ Head(queue) = t
Within(q, t) == \E k \in DOMAIN q : q[k] = t
Queued(t) == Within(queue, t)

Tabled(table) ==
  /\ DOMAIN table = Runs
  /\ \A r \in Runs : DOMAIN table[r] = RunFields /\ table[r].holder \in Nat /\ table[r].status \in Statuses \cup {"none"}

Typed ==
  /\ Tabled(runs)
  /\ life \in Nat \ {0} /\ \A r \in Runs : runs[r].holder <= life
  /\ queue \in Seq(Slots)
  /\ DOMAIN th = Slots
  /\ ~up => queue = <<>> /\ \A t \in Slots : th[t] = Idle

Programs ==
  \A t \in Slots : Proper(th[t]) /\ Sees(th[t], runs) /\ (Urgent(th[t]) => Current(t))

Awaited(r) == \E t \in Slots : Queued(t) /\ Gives(th[t].todo, r)

(* A run that is to run is not lost.                                       *)
Covered(r) ==
  runs[r].status \in Live => Executors(r) # {} \/ runs[r].holder \notin {0, life} \/ Awaited(r)

Held(r) == runs[r].holder = life => Executors(r) # {}

Inv == Typed /\ Programs /\ (up => \A r \in Runs : Covered(r) /\ Held(r))

-----------------------------------------------------------------------------
(* Sequences                                                               *)

LEMMA Slots1 ==
  ASSUME NEW S, NEW p \in Seq(S)
  PROVE  /\ Len(p) \in Nat /\ DOMAIN p = 1 .. Len(p) /\ (p = <<>> <=> Len(p) = 0)
         /\ p # <<>> => /\ Head(p) = p[1] /\ Tail(p) \in Seq(S) /\ Len(Tail(p)) = Len(p) - 1
                        /\ DOMAIN Tail(p) = 1 .. Len(p) - 1
                        /\ \A i \in 1 .. Len(p) - 1 : Tail(p)[i] = p[i + 1]
  OBVIOUS

LEMMA Joined ==
  ASSUME NEW S, NEW p \in Seq(S), NEW q \in Seq(S)
  PROVE  /\ p \o q \in Seq(S) /\ Len(p \o q) = Len(p) + Len(q)
         /\ \A i \in 1 .. Len(p) : (p \o q)[i] = p[i]
         /\ \A i \in 1 .. Len(q) : (p \o q)[Len(p) + i] = q[i]
         /\ p \o <<>> = p /\ <<>> \o p = p
  OBVIOUS

(* A statement put in front of a program.                                  *)
LEMMA Put ==
  ASSUME NEW e, NEW p, \E S : p \in Seq(S)
  PROVE  /\ \E S : <<e>> \o p \in Seq(S)
         /\ Len(p) \in Nat /\ DOMAIN p = 1 .. Len(p)
         /\ Len(<<e>> \o p) = Len(p) + 1 /\ DOMAIN (<<e>> \o p) = 1 .. Len(p) + 1
         /\ (<<e>> \o p)[1] = e
         /\ \A i \in 1 .. Len(p) : (<<e>> \o p)[i + 1] = p[i]
<1>1. PICK S : p \in Seq(S)
  OBVIOUS
<1>2. p \in Seq(S \cup {e}) /\ <<e>> \in Seq(S \cup {e})
  BY <1>1
<1> QED BY <1>2

LEMMA Two ==
  ASSUME NEW a, NEW b
  PROVE  <<a, b>> = <<a>> \o <<b>>
<1> DEFINE p == <<a>> \o <<b>>
<1>1. /\ \E S : p \in Seq(S)
      /\ DOMAIN p = 1 .. 2 /\ p[1] = a /\ p[2] = b
  <2> DEFINE q == <<b>>
  <2>1. q \in Seq({b}) /\ Len(q) = 1 /\ q[1] = b
    OBVIOUS
  <2> HIDE DEF q
  <2> HIDE DEF p
  <2>2. \E S : q \in Seq(S)
    BY <2>1
  <2>3. p = <<a>> \o q
    BY DEF p, q
  <2>4. /\ \E S : p \in Seq(S)
        /\ DOMAIN p = 1 .. Len(q) + 1 /\ p[1] = a
        /\ \A i \in 1 .. Len(q) : p[i + 1] = q[i]
    BY <2>2, <2>3, Put
  <2>5. p[1 + 1] = q[1]
    BY <2>1, <2>4
  <2> QED BY <2>1, <2>4, <2>5
<1> HIDE DEF p
<1>2. p = [i \in 1 .. 2 |-> IF i = 1 THEN a ELSE b]
  BY <1>1
<1> QED BY <1>2 DEF p

LEMMA Three ==
  ASSUME NEW a, NEW b, NEW c
  PROVE  <<a, b, c>> = <<a>> \o <<b, c>>
  OBVIOUS

LEMMA FourLong ==
  ASSUME NEW a, NEW b, NEW c, NEW d, NEW p, p = <<a, b, c, d>>
  PROVE  p # <<>> /\ Len(p) = 4 /\ DOMAIN p = 1 .. 4 /\ \E S : p \in Seq(S)
<1>1. p \in Seq({a, b, c, d}) /\ Len(p) = 4 /\ DOMAIN p = 1 .. 4
  OBVIOUS
<1>2. p # <<>>
  BY <1>1, Slots1
<1> QED BY <1>1, <1>2

-----------------------------------------------------------------------------
(* The queue                                                               *)

(* A program that is not at its end has no thread waiting.                 *)
LEMMA Started ==
  ASSUME NEW x, Program(x), x.todo # <<>>
  PROVE  /\ Head(x.todo) = x.todo[1]
         /\ Len(x.todo) \in Nat \ {0} /\ DOMAIN x.todo = 1 .. Len(x.todo)
         /\ Head(x.todo).op \in Going \cup Answers \cup {"cancel"} => Len(x.todo) = 1
         /\ Head(x.todo).op = "body" => Len(x.todo) = 2 /\ x.todo[2].op \in Answers
         /\ \A r : Gives(x.todo, r) => ~Parks(x) /\ Head(x.todo).op \notin {"out", "sleep", "nap"}
         /\ Urgent(x) => ~Parks(x) /\ Head(x.todo).op \notin {"out", "sleep", "nap"}
<1>1. PICK S : x.todo \in Seq(S)
  BY DEF Program
<1>2. Len(x.todo) \in Nat \ {0} /\ DOMAIN x.todo = 1 .. Len(x.todo) /\ Head(x.todo) = x.todo[1]
  BY <1>1, Slots1
<1>3. 1 \in DOMAIN x.todo /\ Fits(x, 1)
  BY <1>2 DEF Program
<1>4. /\ Head(x.todo).op \in Going \cup Answers \cup {"cancel"} => Len(x.todo) = 1
      /\ Head(x.todo).op = "body" => Len(x.todo) = 2 /\ x.todo[2].op \in Answers
  BY <1>2, <1>3 DEF Fits
<1>5. ASSUME NEW i \in DOMAIN x.todo, x.todo[i].op \in {"launch", "request", "release"}
      PROVE  Head(x.todo).op \notin {"body", "out", "sleep", "nap"}
  BY <1>2, <1>4, <1>5 DEF Going, Answers
<1>6. Head(x.todo).op \notin {"body", "out", "sleep", "nap"} => ~Parks(x)
  BY DEF Parks
<1>7. ASSUME NEW r, Gives(x.todo, r) PROVE \E i \in DOMAIN x.todo : x.todo[i].op = "launch"
  BY <1>7 DEF Gives, Of
<1>8. ASSUME Urgent(x) PROVE \E i \in DOMAIN x.todo : x.todo[i].op \in {"request", "release"}
  <2>1. CASE Releases(x)
    <3>1. x.todo[1].op = "release"
      BY <2>1 DEF Releases, Of
    <3> QED BY <1>3, <3>1
  <2> QED BY <1>8, <2>1 DEF Urgent
<1> QED BY <1>2, <1>4, <1>5, <1>6, <1>7, <1>8

LEMMA AfterKeeps ==
  ASSUME queue \in Seq(Slots), NEW t \in Slots, Current(t), NEW x, Program(x)
  PROVE  /\ After(x) \in Seq(Slots)
         /\ \A u \in Slots \ {t} : Queued(u) => Within(After(x), u)
         /\ \A r : Gives(x.todo, r) => Within(After(x), t)
         /\ Urgent(x) => After(x) = queue
<1> DEFINE q == After(x)
<1> SUFFICES /\ q \in Seq(Slots)
             /\ \A u \in Slots \ {t} : Queued(u) => Within(q, u)
             /\ \A r : Gives(x.todo, r) => Within(q, t)
             /\ Urgent(x) => q = queue
  OBVIOUS
<1>1. /\ Len(queue) \in Nat \ {0} /\ DOMAIN queue = 1 .. Len(queue) /\ queue[1] = t /\ Head(queue) = t
      /\ Tail(queue) \in Seq(Slots) /\ Len(Tail(queue)) = Len(queue) - 1
      /\ \A i \in 1 .. Len(queue) - 1 : Tail(queue)[i] = queue[i + 1]
  BY Slots1 DEF Current
<1>2. ASSUME NEW u \in Slots \ {t}, Queued(u)
      PROVE  \E k \in 1 .. Len(queue) - 1 : Tail(queue)[k] = u
  <2>1. PICK k \in 1 .. Len(queue) : queue[k] = u
    BY <1>1, <1>2 DEF Queued, Within
  <2>2. k - 1 \in 1 .. Len(queue) - 1 /\ Tail(queue)[k - 1] = u
    BY <1>1, <2>1
  <2> QED BY <2>2
<1> HIDE DEF q
<1>3. CASE q = Tail(queue) /\ (x.todo = <<>> \/ Parks(x))
  <2>1. \A r : ~Gives(x.todo, r) /\ ~Urgent(x)
    <3>1. CASE x.todo = <<>>
      BY <3>1, Slots1 DEF Gives, Urgent, Releases
    <3> QED BY <1>3, <3>1, Started
  <2>2. DOMAIN Tail(queue) = 1 .. Len(queue) - 1
    BY <1>1
  <2> QED BY <1>1, <1>2, <1>3, <2>1, <2>2 DEF Within
<1>4. CASE q = Append(Tail(queue), Head(queue)) /\ x.todo # <<>> /\ Head(x.todo).op \in {"out", "sleep", "nap"}
  <2>1. /\ q \in Seq(Slots) /\ DOMAIN q = 1 .. Len(queue) /\ q[Len(queue)] = t
        /\ \A k \in 1 .. Len(queue) - 1 : q[k] = Tail(queue)[k]
    BY <1>1, <1>4
  <2>2. ASSUME NEW u \in Slots \ {t}, Queued(u) PROVE Within(q, u)
    <3>1. PICK k \in 1 .. Len(queue) - 1 : Tail(queue)[k] = u
      BY <1>2, <2>2
    <3>2. k \in DOMAIN q /\ q[k] = u
      BY <1>1, <2>1, <3>1
    <3> QED BY <3>2 DEF Within
  <2>3. Within(q, t)
    BY <1>1, <2>1 DEF Within
  <2> QED BY <1>1, <1>4, <2>1, <2>2, <2>3, Started
<1>5. CASE q = queue
  BY <1>1, <1>5 DEF Queued, Within
<1>6. \/ q = Tail(queue) /\ (x.todo = <<>> \/ Parks(x))
      \/ q = Append(Tail(queue), Head(queue)) /\ x.todo # <<>> /\ Head(x.todo).op \in {"out", "sleep", "nap"}
      \/ q = queue
  BY DEF After, q
<1> QED BY <1>3, <1>4, <1>5, <1>6

-----------------------------------------------------------------------------
(* What a step must show                                                   *)

(* Statuses change: no run goes, and a run that is to run was to, or is    *)
(* executed or launched by this thread.                                    *)
Answerable(x, table) ==
  /\ Tabled(table)
  /\ \A r \in Runs :
       /\ table[r].holder = runs[r].holder
       /\ runs[r].status # "none" => table[r].status # "none"
       /\ table[r].status \in Live =>
            runs[r].status \in Live \/ (x.kind = "exec" /\ x.run = r) \/ Gives(x.todo, r)

LEMMA IdleProper == Proper(Idle) /\ Idle.kind = "free" /\ Idle.todo = <<>> /\ ~Urgent(Idle)
<1>1. Idle.todo \in Seq({})
  BY DEF Idle
<1>2. DOMAIN Idle.todo = {} /\ Idle.kind = "free" /\ Idle.todo = <<>>
  BY <1>1 DEF Idle
<1> QED BY <1>1, <1>2 DEF Proper, Program, Urgent, Releases

LEMMA IdleSees == \A table : Sees(Idle, table)
<1>1. DOMAIN Idle.todo = {} /\ Idle.kind = "free"
  BY DEF Idle
<1> QED BY <1>1 DEF Sees, Releases

(* The program of a thread that is not first is not urgent, so that what   *)
(* others find in the table does not matter to it.                         *)
LEMMA OthersSee ==
  ASSUME NEW x, NEW old, Sees(x, old), ~Urgent(x), NEW table,
         \A r \in Runs : old[r].status # "none" => table[r].status # "none"
  PROVE  Sees(x, table)
<1>1. \A r : Known(r, old) => Known(r, table)
  BY DEF Known
<1>2. ~Releases(x) /\ \A i \in DOMAIN x.todo : x.todo[i].op # "request"
  BY DEF Urgent
<1> QED BY <1>1, <1>2 DEF Sees

(* A thread that was woken, and one that was not, differ in nothing else.  *)
Alike(x, y) == DOMAIN x = DOMAIN y /\ x.kind = y.kind /\ x.run = y.run /\ x.child = y.child /\ x.todo = y.todo

LEMMA AlikeSame ==
  ASSUME NEW x, NEW y, Alike(x, y)
  PROVE  /\ Proper(x) => Proper(y)
         /\ \A table : Sees(x, table) => Sees(y, table)
         /\ Urgent(x) <=> Urgent(y)
         /\ \A r : Gives(x.todo, r) <=> Gives(y.todo, r)
<1>1. ASSUME NEW i, Fits(x, i) PROVE Fits(y, i)
  <2>1. y.kind = x.kind /\ y.run = x.run /\ y.child = x.child /\ y.todo = x.todo
    BY DEF Alike
  <2> DEFINE p == x.todo
             q == y.todo
  <2>2. p = q
    BY <2>1
  <2> QED BY <1>1, <2>1, <2>2 DEF Fits
<1>2. Releases(x) <=> Releases(y)
  BY DEF Alike, Releases
<1> QED BY <1>1, <1>2 DEF Alike, Proper, Program, Sees, Urgent

(* The first thread of the queue takes a step on its way, and may wake     *)
(* others.                                                                 *)
LEMMA TurnWakes ==
  ASSUME Inv, NEW t \in Slots, Current(t), th[t].todo # <<>>, NEW x, Program(x),
         x.kind = th[t].kind, x.run = th[t].run, Answerable(x, runs'), Sees(x, runs'),
         \A r \in Runs : Gives(th[t].todo, r) => Gives(x.todo, r),
         UNCHANGED Process,
         DOMAIN th' = Slots, th'[t] = (IF x.todo = <<>> THEN Idle ELSE x),
         \A u \in Slots \ {t} : Alike(th[u], th'[u]),
         NEW woken \in Seq(Slots), queue' = After(x) \o woken
  PROVE  Inv'
<1> DEFINE y == IF x.todo = <<>> THEN Idle ELSE x
           q == After(x)
<1>1. life' = life /\ up' = up /\ queue' = q \o woken /\ th'[t] = y
  BY DEF Process
<1>2. up /\ queue \in Seq(Slots)
  BY DEF Inv, Typed, Current
<1> HIDE DEF q
<1>3. /\ q \in Seq(Slots)
      /\ \A u \in Slots \ {t} : Queued(u) => Within(q, u)
      /\ \A r : Gives(x.todo, r) => Within(q, t)
      /\ Urgent(x) => q = queue
  <2>1. /\ After(x) \in Seq(Slots)
        /\ \A u \in Slots \ {t} : Queued(u) => Within(After(x), u)
        /\ \A r : Gives(x.todo, r) => Within(After(x), t)
        /\ Urgent(x) => After(x) = queue
    BY <1>2, AfterKeeps
  <2> QED BY <2>1 DEF q
<1>4. queue' \in Seq(Slots) /\ \A u : Within(q, u) => Queued(u)'
  <2>1. /\ queue' \in Seq(Slots) /\ Len(q) \in Nat /\ Len(woken) \in Nat /\ DOMAIN q = 1 .. Len(q)
        /\ DOMAIN queue' = 1 .. Len(q) + Len(woken)
        /\ \A i \in 1 .. Len(q) : queue'[i] = q[i]
    BY <1>1, <1>3, Joined, Slots1
  <2>2. \A i \in DOMAIN q : i \in DOMAIN queue' /\ queue'[i] = q[i]
    BY <2>1
  <2> QED BY <2>1, <2>2 DEF Queued, Within
<1>5. Urgent(x) => Current(t)'
  <2> SUFFICES ASSUME Urgent(x) PROVE Current(t)'
    OBVIOUS
  <2>1. q = queue /\ queue # <<>> /\ Head(queue) = t
    BY <1>3 DEF Current
  <2>2. queue' \in Seq(Slots) /\ Len(queue) \in Nat \ {0} /\ queue[1] = t
        /\ queue'[1] = queue[1] /\ Len(queue') = Len(queue) + Len(woken) /\ Len(woken) \in Nat
    BY <1>1, <1>2, <2>1, Joined, Slots1
  <2>3. Len(queue') # 0
    BY <2>2
  <2> QED BY <2>2, <2>3, Slots1 DEF Current
<1>6. Proper(th[t]) /\ \A u \in Slots \ {t} : Proper(th[u]) /\ Sees(th[u], runs) /\ ~Urgent(th[u])
  BY DEF Inv, Programs, Current
<1>7. x.kind \in {"call", "exec"}
  BY <1>6 DEF Proper
<1>8. (x.todo # <<>> => Proper(x)) /\ (x.kind = "exec" => x.todo # <<>>)
  BY <1>7 DEF Proper, Program, EndsWell
<1>9. Typed'
  BY <1>1, <1>2, <1>4 DEF Inv, Typed, Answerable
<1>10. Programs'
  <2>1. Proper(y) /\ Sees(y, runs') /\ (Urgent(y) => Urgent(x))
    BY <1>8, IdleProper, IdleSees
  <2>2. ASSUME NEW u \in Slots \ {t} PROVE Proper(th'[u]) /\ Sees(th'[u], runs') /\ ~Urgent(th'[u])
    <3>1. \A r \in Runs : runs[r].status # "none" => runs'[r].status # "none"
      BY DEF Answerable
    <3>2. Sees(th[u], runs')
      BY <1>6, <3>1, OthersSee
    <3> QED BY <1>6, <3>2, AlikeSame
  <2> QED BY <1>1, <1>5, <2>1, <2>2 DEF Programs
<1>11. ASSUME NEW r \in Runs PROVE Executors(r)' = Executors(r)
  <2>1. y.kind = "exec" <=> th[t].kind = "exec"
    BY <1>8, IdleProper
  <2>2. y.kind = "exec" => y.run = th[t].run
    BY <1>8, <2>1, IdleProper
  <2> QED BY <1>1, <2>1, <2>2 DEF Executors, Alike
<1>12. ASSUME NEW r \in Runs, Gives(x.todo, r) PROVE Awaited(r)'
  <2>1. x.todo # <<>>
    BY <1>12, Slots1 DEF Gives
  <2> QED BY <1>1, <1>3, <1>4, <1>12, <2>1 DEF Awaited
<1>13. ASSUME NEW r \in Runs, Awaited(r) PROVE Awaited(r)'
  <2>1. PICK u \in Slots : Queued(u) /\ Gives(th[u].todo, r)
    BY <1>13 DEF Awaited
  <2>2. CASE u # t
    BY <1>3, <1>4, <2>1, <2>2, AlikeSame DEF Awaited
  <2> QED BY <1>12, <2>1, <2>2
<1>14. ASSUME NEW r \in Runs PROVE Covered(r)' /\ Held(r)'
  <2>1. Covered(r) /\ Held(r) /\ runs'[r].holder = runs[r].holder
    BY <1>2 DEF Inv, Answerable
  <2>2. ASSUME x.kind = "exec", x.run = r PROVE Executors(r) # {}
    BY <2>2 DEF Executors
  <2>3. runs'[r].status \in Live => runs[r].status \in Live \/ (x.kind = "exec" /\ x.run = r) \/ Gives(x.todo, r)
    BY DEF Answerable
  <2> QED BY <1>1, <1>11, <1>12, <1>13, <2>1, <2>2, <2>3 DEF Covered, Held
<1> QED BY <1>9, <1>10, <1>14 DEF Inv

LEMMA TurnKeeps ==
  ASSUME Inv, NEW t \in Slots, Current(t), th[t].todo # <<>>, NEW x, Becomes(t, x), Program(x),
         x.kind = th[t].kind, x.run = th[t].run, Answerable(x, runs'), Sees(x, runs'),
         \A r \in Runs : Gives(th[t].todo, r) => Gives(x.todo, r),
         UNCHANGED Process
  PROVE  Inv'
<1>1. /\ DOMAIN th' = Slots /\ th'[t] = (IF x.todo = <<>> THEN Idle ELSE x)
      /\ \A u \in Slots \ {t} : th'[u] = th[u]
      /\ queue' = After(x)
  BY DEF Becomes, Inv, Typed
<1>2. \A u \in Slots \ {t} : Alike(th[u], th'[u])
  BY <1>1 DEF Alike
<1>3. After(x) \in Seq(Slots)
  BY AfterKeeps DEF Inv, Typed
<1>4. <<>> \in Seq(Slots) /\ queue' = After(x) \o <<>>
  BY <1>1, <1>3, Joined
<1> QED BY <1>1, <1>2, <1>4, TurnWakes

(* The event loop, with nothing queued, takes up a thread: one there is,   *)
(* or a new one in a free slot.                                            *)
LEMMA TakeKeeps ==
  ASSUME Inv, NEW t \in Slots, NEW x, Takes(t, x), Proper(x), x.kind # "free", Sees(x, runs),
         \/ th[t].kind = "free" /\ x.kind = "call"
         \/ th[t].kind = x.kind /\ th[t].run = x.run,
         UNCHANGED <<runs, Process>>
  PROVE  Inv'
<1>1. /\ DOMAIN th' = Slots /\ th'[t] = x /\ \A u \in Slots \ {t} : th'[u] = th[u]
      /\ queue = <<>> /\ queue' = <<t>> /\ runs' = runs /\ life' = life /\ up' = up /\ up
  BY DEF Takes, Inv, Typed, Process
<1>2. Current(t)'
  BY <1>1 DEF Current
<1>3. \A u \in Slots : Proper(th[u]) /\ Sees(th[u], runs) /\ ~Urgent(th[u])
  BY <1>1 DEF Inv, Programs, Current
<1>4. Typed'
  <2>1. queue' \in Seq(Slots)
    BY <1>1
  <2> QED BY <1>1, <2>1 DEF Inv, Typed
<1>5. Programs'
  BY <1>1, <1>2, <1>3 DEF Programs
<1>6. ASSUME NEW r \in Runs PROVE Executors(r)' = Executors(r)
  BY <1>1 DEF Executors
<1>7. ASSUME NEW r \in Runs PROVE ~Awaited(r)
  <2>1. \A u \in Slots : ~Queued(u)
    BY <1>1 DEF Queued, Within
  <2> QED BY <2>1 DEF Awaited
<1>8. ASSUME NEW r \in Runs PROVE Covered(r)' /\ Held(r)'
  BY <1>1, <1>6, <1>7 DEF Inv, Covered, Held
<1> QED BY <1>4, <1>5, <1>8 DEF Inv

-----------------------------------------------------------------------------
(* The programs of executors                                               *)

(* What an executor goes on with once it knows what follows.               *)
Ready(r, p) ==
  /\ \E S : p \in Seq(S)
  /\ EndsWell(r, p) /\ p # <<Of("release", r)>>
  /\ \A i \in DOMAIN p :
       /\ p[i].op \in Going => i = Len(p)
       /\ p[i].op \in Going \cup {"append", "mint", "set", "release", "cascade"}
       /\ p[i].op = "set" => p[i].run = r /\ p[i].status \in Statuses
       /\ p[i].op = "out" => p[i].outcome \in Verdicts

(* It asks nothing of a child.                                             *)
Alone(p) == \A i \in DOMAIN p : p[i].op \notin {"cascade", "poll", "nap"}

LEMMA ReadyOne ==
  ASSUME NEW r, NEW e, e.op \in Going, e.op = "out" => e.outcome \in Verdicts
  PROVE  Ready(r, <<e>>) /\ (e.op \notin {"poll", "nap"} => Alone(<<e>>))
<1> DEFINE p == <<e>>
<1>1. p \in Seq({e}) /\ Len(p) = 1 /\ DOMAIN p = {1} /\ p[1] = e
  OBVIOUS
<1> HIDE DEF p
<1>2. p # <<>> /\ p # <<Of("release", r)>>
  <2>1. CASE p = <<Of("release", r)>>
    BY <1>1, <2>1 DEF Of, Going
  <2> QED BY <1>1, <2>1
<1>3. EndsWell(r, p)
  BY <1>1, <1>2 DEF EndsWell
<1>4. Ready(r, p)
  <2>1. \A i \in DOMAIN p : p[i] = e /\ i = Len(p)
    BY <1>1
  <2>2. e.op # "set"
    BY DEF Going
  <2>3. \A i \in DOMAIN p :
          /\ p[i].op \in Going => i = Len(p)
          /\ p[i].op \in Going \cup {"append", "mint", "set", "release", "cascade"}
          /\ p[i].op = "set" => p[i].run = r /\ p[i].status \in Statuses
          /\ p[i].op = "out" => p[i].outcome \in Verdicts
    BY <2>1, <2>2
  <2> QED BY <1>1, <1>2, <1>3, <2>3 DEF Ready
<1>5. e.op \notin {"poll", "nap"} => Alone(p)
  BY <1>1 DEF Alone, Going
<1> QED BY <1>4, <1>5 DEF p

LEMMA ReadyEnds ==
  ASSUME NEW r, NEW status \in Terminal
  PROVE  /\ Ready(r, <<Set(r, status), Of("release", r)>>)
         /\ Alone(<<Set(r, status), Of("release", r)>>)
<1> DEFINE p == <<Set(r, status), Of("release", r)>>
<1>1. /\ p \in Seq({Set(r, status), Of("release", r)}) /\ Len(p) = 2 /\ DOMAIN p = 1 .. 2
      /\ p[1] = Set(r, status) /\ p[2] = Of("release", r)
  OBVIOUS
<1> HIDE DEF p
<1>2. EndsWell(r, p)
  BY <1>1 DEF EndsWell
<1>3. p # <<Of("release", r)>>
  BY <1>1
<1>4. \A i \in DOMAIN p : p[i].op \in {"set", "release"} /\ (p[i].op = "set" => p[i] = Set(r, status))
  BY <1>1 DEF Of, Set
<1>5. Set(r, status).run = r /\ Set(r, status).status \in Statuses
  BY DEF Set, Statuses
<1>6. \A i \in DOMAIN p : p[i].op \notin Going \cup {"cascade"}
  BY <1>4 DEF Going
<1>7. Ready(r, p)
  BY <1>1, <1>2, <1>3, <1>4, <1>5, <1>6 DEF Ready
<1>8. Alone(p)
  BY <1>4 DEF Alone
<1> QED BY <1>7, <1>8 DEF p

LEMMA ReadyPut ==
  ASSUME NEW r, NEW p, Ready(r, p), NEW e,
         \/ e.op \in {"append", "mint", "cascade"}
         \/ e.op = "set" /\ e.run = r /\ e.status \in Statuses
  PROVE  Ready(r, <<e>> \o p) /\ (Alone(p) /\ e.op # "cascade" => Alone(<<e>> \o p))
<1> DEFINE q == <<e>> \o p
<1>1. /\ \E S : q \in Seq(S)
      /\ Len(p) \in Nat /\ DOMAIN p = 1 .. Len(p) /\ Len(q) = Len(p) + 1 /\ DOMAIN q = 1 .. Len(p) + 1
      /\ q[1] = e /\ \A i \in 1 .. Len(p) : q[i + 1] = p[i]
  BY Put DEF Ready
<1> HIDE DEF q
<1>2. Len(p) > 0
  BY <1>1, Slots1 DEF Ready, EndsWell
<1>3. \A i \in DOMAIN q : (i = 1 /\ q[i] = e) \/ (i - 1 \in DOMAIN p /\ q[i] = p[i - 1])
  BY <1>1
<1>4. e.op \notin Going
  BY DEF Going
<1>5. EndsWell(r, q)
  <2>1. q # <<>> /\ q[Len(q)] = p[Len(p)]
    BY <1>1, <1>2
  <2>2. CASE p[Len(p)].op \in Going
    BY <2>1, <2>2 DEF EndsWell
  <2>3. CASE p[Len(p)] = Of("release", r)
    <3>1. Len(p) # 1
      <4>1. ASSUME Len(p) = 1 PROVE p = <<Of("release", r)>>
        BY <1>1, <2>3, <4>1 DEF Ready
      <4> QED BY <4>1 DEF Ready
    <3>2. Len(p) > 1 /\ q[Len(q) - 1] = p[Len(p) - 1]
      BY <1>1, <1>2, <3>1
    <3>3. \E status \in Terminal : p[Len(p) - 1] = Set(r, status)
      <4>1. Of("release", r).op \notin Going
        BY DEF Of, Going
      <4> QED BY <2>3, <3>2, <4>1 DEF Ready, EndsWell
    <3> QED BY <2>1, <2>3, <3>2, <3>3 DEF EndsWell
  <2> QED BY <2>2, <2>3 DEF Ready, EndsWell
<1>6. q # <<Of("release", r)>>
  BY <1>1, <1>2
<1>7. \A i \in DOMAIN q :
        /\ q[i].op \in Going => i = Len(q)
        /\ q[i].op \in Going \cup {"append", "mint", "set", "release", "cascade"}
        /\ q[i].op = "set" => q[i].run = r /\ q[i].status \in Statuses
        /\ q[i].op = "out" => q[i].outcome \in Verdicts
  BY <1>1, <1>3, <1>4 DEF Ready
<1>8. Ready(r, q)
  BY <1>1, <1>5, <1>6, <1>7 DEF Ready
<1>9. Alone(p) /\ e.op # "cascade" => Alone(q)
  BY <1>3 DEF Alone
<1> QED BY <1>8, <1>9 DEF q

LEMMA ReadyFits ==
  ASSUME NEW x, DOMAIN x = DOMAIN Idle, x.kind = "exec", Ready(x.run, x.todo), NEW table,
         Alone(x.todo) \/ (Known(x.child, table) /\ \A i \in DOMAIN x.todo :
                             x.todo[i].op = "cascade" => Known(x.todo[i].run, table))
  PROVE  Program(x) /\ Sees(x, table)
<1>1. \A i \in DOMAIN x.todo :
        /\ x.todo[i].op \in Going => i = Len(x.todo)
        /\ x.todo[i].op \in Going \cup {"append", "mint", "set", "release", "cascade"}
        /\ x.todo[i].op = "set" => x.todo[i].run = x.run /\ x.todo[i].status \in Statuses
        /\ x.todo[i].op = "out" => x.todo[i].outcome \in Verdicts
  BY DEF Ready
<1>2. \A i \in DOMAIN x.todo : x.todo[i].op \notin Answers \cup
        {"cancel", "body", "insert run", "advance", "insert", "request"}
  BY <1>1 DEF Going, Answers
<1>3. \A i \in DOMAIN x.todo : Fits(x, i)
  BY <1>1, <1>2 DEF Fits
<1>4. Program(x)
  BY <1>3 DEF Program, Ready
<1>5. ~Releases(x)
  BY DEF Releases, Ready
<1>6. Sees(x, table)
  BY <1>2, <1>5 DEF Sees, Alone
<1> QED BY <1>4, <1>6

LEMMA SameTable == Inv => \A x : Answerable(x, runs)
  BY DEF Inv, Typed, Answerable

(* An executor that comes to know what follows goes on with that.          *)
LEMMA ExecutorGoes ==
  ASSUME Inv, NEW t \in Slots, NEW op \in Going, At(t, op), NEW x, Becomes(t, x),
         DOMAIN x = DOMAIN Idle, x.kind = th[t].kind, x.run = th[t].run, Ready(x.run, x.todo),
         Alone(x.todo) \/ (Known(x.child, runs') /\ \A i \in DOMAIN x.todo :
                             x.todo[i].op = "cascade" => Known(x.todo[i].run, runs')),
         Answerable(x, runs'), UNCHANGED Process
  PROVE  Inv'
<1>1. Current(t) /\ th[t].todo # <<>> /\ Head(th[t].todo).op = op /\ Program(th[t])
  BY DEF At, Current, Inv, Programs, Proper
<1>2. Len(th[t].todo) = 1 /\ DOMAIN th[t].todo = {1} /\ th[t].todo[1].op = op
  BY <1>1, Started
<1>3. th[t].kind = "exec"
  BY <1>1, <1>2 DEF Program, Fits
<1>4. Program(x) /\ Sees(x, runs')
  BY <1>3, ReadyFits
<1>5. \A r \in Runs : ~Gives(th[t].todo, r)
  BY <1>2 DEF Gives, Of, Going
<1> QED BY <1>1, <1>4, <1>5, TurnKeeps

Onward(r, p) == Ready(r, p) /\ Alone(p)

LEMMA OnwardPut ==
  ASSUME NEW r, NEW p, Onward(r, p), NEW e,
         \/ e.op \in {"append", "mint"}
         \/ e.op = "set" /\ e.run = r /\ e.status \in Statuses
  PROVE  Onward(r, <<e>> \o p)
<1>1. e.op # "cascade"
  OBVIOUS
<1> QED BY <1>1, ReadyPut DEF Onward

LEMMA Statements ==
  ASSUME NEW r, NEW n, NEW type, NEW status, NEW outcome
  PROVE  /\ Ev(r, type, n).op = "append" /\ Out(outcome).op = "out" /\ Out(outcome).outcome = outcome /\ Do("mint").op = "mint"
         /\ Set(r, status).op = "set" /\ Set(r, status).run = r /\ Set(r, status).status = status
BY DEF Ev, Out, Do, Set

LEMMA OnwardOut == \A r : \A outcome \in Verdicts : Onward(r, <<Out(outcome)>>)
BY ReadyOne, Statements DEF Onward, Going

LEMMA OnwardDo ==
  ASSUME NEW r, NEW op \in {"next", "sleep", "find", "dispatch"}
  PROVE  Onward(r, <<Do(op)>>)
<1>1. Do(op).op = op
  BY DEF Do
<1> QED BY <1>1, ReadyOne DEF Onward, Going

(* An event, then an outcome.                                              *)
LEMMA OnwardTold ==
  ASSUME NEW r, NEW n, NEW type, NEW outcome \in Verdicts
  PROVE  Onward(r, <<Ev(r, type, n), Out(outcome)>>)
<1>1. Onward(r, <<Ev(r, type, n)>> \o <<Out(outcome)>>)
  BY OnwardOut, OnwardPut, Statements
<1> QED BY <1>1, Two

LEMMA OnwardNode ==
  ASSUME NEW r, NEW n
  PROVE  /\ Onward(r, Completed(r, n)) /\ Onward(r, Failed(r, n))
         /\ Onward(r, Abandoned(r, n)) /\ Onward(r, Suspends(r, n))
<1>1. Onward(r, <<Do("mint")>> \o <<Ev(r, "node.suspended", n), Out("suspended")>>)
  BY OnwardTold, OnwardPut, Statements DEF Verdicts
<1>2. Onward(r, Suspends(r, n))
  BY <1>1, Three DEF Suspends
<1> QED BY <1>2, OnwardTold DEF Completed, Failed, Abandoned, Verdicts

LEMMA OnwardEnds ==
  ASSUME NEW r, NEW n
  PROVE  /\ \A status \in Terminal : Onward(r, Ends(r, status))
         /\ Onward(r, Fails(r)) /\ Onward(r, Cancels(r)) /\ Onward(r, FailRunDuration(r))
         /\ Onward(r, Recursion(r, n))
         /\ \A p \in Completes(r) : Onward(r, p)
<1>1. \A status \in Terminal : Onward(r, Ends(r, status))
  BY ReadyEnds DEF Onward, Ends
<1>2. {"completed", "failed", "cancelled"} = Terminal
  BY DEF Terminal
<1>3. \A type : \A status \in Terminal : Onward(r, <<Ev(r, type, 0)>> \o Ends(r, status))
  BY <1>1, OnwardPut, Statements
<1>4. Onward(r, Fails(r)) /\ Onward(r, Cancels(r)) /\ Onward(r, <<Ev(r, "run.completed", 0)>> \o Ends(r, "completed"))
  BY <1>2, <1>3 DEF Fails, Cancels
<1>5. Onward(r, FailRunDuration(r)) /\ Onward(r, Recursion(r, n))
  BY <1>4, OnwardPut, Statements DEF FailRunDuration, Recursion
<1>6. Onward(r, <<Ev(r, "memory.written", 0)>> \o (<<Ev(r, "run.completed", 0)>> \o Ends(r, "completed")))
  BY <1>4, OnwardPut, Statements
<1>7. \A p \in Completes(r) : Onward(r, p)
  BY <1>4, <1>6 DEF Completes
<1> QED BY <1>1, <1>4, <1>5, <1>7

LEMMA OnwardBody ==
  ASSUME NEW r, NEW n
  PROVE  \A p \in Body(r, n) \cup Enters(r, n) : Onward(r, p)
<1>1. \A type : \A p : Onward(r, p) => Onward(r, <<Ev(r, type, n)>> \o p)
  BY OnwardPut, Statements
<1>2. /\ Onward(r, Completed(r, n)) /\ Onward(r, Failed(r, n)) /\ Onward(r, Suspends(r, n))
      /\ Onward(r, <<Do("sleep")>>) /\ Onward(r, <<Do("dispatch")>>) /\ Onward(r, <<Do("find")>>)
      /\ Onward(r, <<Out("failed")>>)
  BY OnwardNode, OnwardDo, OnwardOut DEF Verdicts
<1>3. Onward(r, <<Ev(r, "channel.written", n)>> \o Completed(r, n)) /\ Onward(r, <<Ev(r, "runOrchestrator.decided", n)>> \o Completed(r, n))
  BY <1>1, <1>2
<1>4. /\ \A p \in SecretEcho(r, n) : Onward(r, p)
      /\ \A p \in ChannelWrite(r, n) : Onward(r, p)
      /\ \A p \in CostEmit(r, n) : Onward(r, p)
      /\ \A p \in ApprovalGate(r, n) : Onward(r, p)
      /\ \A p \in ClarificationGate(r, n) : Onward(r, p)
      /\ \A p \in Interrupt(r, n) : Onward(r, p)
      /\ \A p \in Supervisor(r, n) : Onward(r, p)
      /\ \A p \in SubWorkflow(r, n) : Onward(r, p)
  BY <1>2, <1>3 DEF SecretEcho, ChannelWrite, CostEmit, ApprovalGate, ClarificationGate, Interrupt, Supervisor, SubWorkflow
<1>5. \A p \in Body(r, n) : Onward(r, p)
  BY <1>2, <1>4 DEF Body
<1>6. \A p \in Enters(r, n) : Onward(r, p)
  <2>1. CASE Kind(r, n) = "requires"
    BY <1>2, <2>1 DEF Enters
  <2>2. CASE Kind(r, n) = "model"
    BY <1>1, <1>2, <2>2 DEF Enters
  <2>3. CASE Kind(r, n) \notin {"requires", "model"}
    <3>1. Enters(r, n) = {<<Ev(r, "node.started", n)>> \o body : body \in Body(r, n)}
      BY <2>3 DEF Enters
    <3> QED BY <1>1, <1>5, <3>1
  <2> QED BY <2>1, <2>2, <2>3
<1> QED BY <1>5, <1>6

LEMMA Retold ==
  ASSUME NEW y, DOMAIN y = DOMAIN Idle, NEW p
  PROVE  LET x == [y EXCEPT !.todo = p] IN
         /\ DOMAIN x = DOMAIN Idle /\ x.todo = p
         /\ x.kind = y.kind /\ x.run = y.run /\ x.child = y.child
BY DEF Idle

LEMMA OnwardGoes ==
  ASSUME Inv, NEW t \in Slots, NEW op \in Going, At(t, op), NEW p, Goes(t, p), Onward(th[t].run, p),
         Answerable([th[t] EXCEPT !.todo = p], runs'), UNCHANGED Process
  PROVE  Inv'
<1> DEFINE x == [th[t] EXCEPT !.todo = p]
<1>1. DOMAIN th[t] = DOMAIN Idle
  BY DEF Inv, Programs, Proper, Program
<1>2. DOMAIN x = DOMAIN Idle /\ x.todo = p /\ x.kind = th[t].kind /\ x.run = th[t].run
  BY <1>1, Retold
<1>3. Becomes(t, x) /\ Answerable(x, runs')
  BY DEF Goes
<1> HIDE DEF x
<1> QED BY <1>2, <1>3, ExecutorGoes DEF Onward

-----------------------------------------------------------------------------
(* The steps of executors                                                  *)

LEMMA NextNodeStep ==
  ASSUME Inv, NEW t \in Slots, NextNode(t)
  PROVE  Inv'
<1> DEFINE r == th[t].run
           n == th[t].at
<1>1. PICK p : Goes(t, p) /\ (p \in Completes(r) \cup Enters(r, n) \cup {Recursion(r, n), Cancels(r)})
  BY DEF NextNode
<1>2. At(t, "next") /\ runs' = runs /\ UNCHANGED Process
  BY DEF NextNode, Tables
<1>3. Onward(r, p)
  BY <1>1, OnwardEnds, OnwardBody
<1>4. "next" \in Going /\ Answerable([th[t] EXCEPT !.todo = p], runs')
  BY <1>2, SameTable DEF Going
<1> QED BY <1>1, <1>2, <1>3, <1>4, OnwardGoes

(* An executor whose node waits, or is done, notes so in its run's row.    *)
LEMMA NotedTable ==
  ASSUME Inv, NEW r, NEW x, NEW table,
         \/ table = runs
         \/ \E n : table = [runs EXCEPT ![r].next = n]
         \/ \E n : \E status \in Waiting : table = [runs EXCEPT ![r].status = status, ![r].next = n]
  PROVE  Answerable(x, table)
<1>1. DOMAIN runs = Runs /\ \A q \in Runs : /\ DOMAIN runs[q] = RunFields /\ runs[q].holder \in Nat
                                           /\ runs[q].status \in Statuses \cup {"none"}
  BY DEF Inv, Typed, Tabled
<1>2. Waiting \cap (Live \cup {"none"}) = {} /\ Waiting \subseteq Statuses
  BY DEF Waiting, Live, Statuses
<1>3. CASE \E n : table = [runs EXCEPT ![r].next = n]
  BY <1>1, <1>3 DEF Answerable, Tabled, RunFields
<1>4. CASE \E n : \E status \in Waiting : table = [runs EXCEPT ![r].status = status, ![r].next = n]
  <2>0. PICK n : \E status \in Waiting : table = [runs EXCEPT ![r].status = status, ![r].next = n]
    BY <1>4
  <2>1. PICK status \in Waiting : table = [runs EXCEPT ![r].status = status, ![r].next = n]
    BY <2>0
  <2>2. \A q \in Runs : /\ DOMAIN table[q] = RunFields /\ table[q].holder = runs[q].holder
                        /\ table[q].status = runs[q].status \/ table[q].status = status
    BY <1>1, <2>1 DEF RunFields
  <2>3. DOMAIN table = Runs
    BY <1>1, <2>1
  <2> QED BY <1>1, <1>2, <2>1, <2>2, <2>3 DEF Answerable, Tabled
<1> QED BY <1>3, <1>4, SameTable

LEMMA OutcomeStep ==
  ASSUME Inv, NEW t \in Slots, Outcome(t)
  PROVE  Inv'
<1> DEFINE r == th[t].run
           n == th[t].at
           o == IF th[t].late THEN "late" ELSE First(t).outcome
<1>1. At(t, "out") /\ UNCHANGED Process /\ "out" \in Going
  BY DEF Outcome, Going
<1>2. Current(t) /\ th[t].todo # <<>> /\ Program(th[t]) /\ DOMAIN th[t] = DOMAIN Idle
  BY <1>1 DEF At, Current, Inv, Programs, Proper, Program
<1>3. Len(th[t].todo) = 1 /\ First(t) = th[t].todo[1] /\ 1 \in DOMAIN th[t].todo /\ First(t).op = "out"
  BY <1>1, <1>2, Started DEF At, First
<1>4. o \in Verdicts \cup {"late"} /\ th[t].kind = "exec"
  <2>1. Fits(th[t], 1)
    BY <1>2, <1>3 DEF Program
  <2>2. First(t).outcome \in Verdicts /\ th[t].kind = "exec"
    BY <1>1, <1>3, <2>1 DEF Fits
  <2> QED BY <2>2
<1>5. ASSUME NEW p \in {FailRunDuration(r), Fails(r), Cancels(r)}, Goes(t, p), UNCHANGED runs PROVE Inv'
  <2>1. Answerable([th[t] EXCEPT !.todo = p], runs')
    BY <1>5, SameTable
  <2>2. Onward(r, p)
    BY OnwardEnds
  <2> QED BY <1>1, <1>5, <2>1, <2>2, OnwardGoes
<1>6. ASSUME NEW at, Becomes(t, [th[t] EXCEPT !.at = at, !.todo = <<Do("next")>>]),
             runs' = [runs EXCEPT ![r].next = at]
      PROVE  Inv'
  <2> DEFINE x == [th[t] EXCEPT !.at = at, !.todo = <<Do("next")>>]
  <2>1. DOMAIN x = DOMAIN Idle /\ x.todo = <<Do("next")>> /\ x.kind = th[t].kind /\ x.run = r
    BY <1>2 DEF Idle
  <2>2. Becomes(t, x)
    BY <1>6
  <2> HIDE DEF x
  <2>3. Onward(r, <<Do("next")>>) /\ Answerable(x, runs')
    BY <1>6, OnwardDo, NotedTable
  <2> QED BY <1>1, <2>1, <2>2, <2>3, ExecutorGoes DEF Onward
<1>7. ASSUME Goes(t, <<Of("release", r)>>),
             runs' = [runs EXCEPT ![r].status = WaitingFor(Kind(r, n)), ![r].next = n]
      PROVE  Inv'
  <2> DEFINE p == <<Of("release", r)>>
             x == [th[t] EXCEPT !.todo = p]
  <2>1. /\ p \in Seq({Of("release", r)}) /\ DOMAIN p = {1} /\ Len(p) = 1 /\ p[1] = Of("release", r) /\ p # <<>>
        /\ p[1].op = "release"
    BY DEF Of
  <2>2. DOMAIN x = DOMAIN Idle /\ x.todo = p /\ x.kind = "exec" /\ x.run = r
    BY <1>2, <1>4, Retold
  <2>3. Becomes(t, x)
    BY <1>7 DEF Goes
  <2>4. WaitingFor(Kind(r, n)) \in Waiting
    BY DEF WaitingFor, Waiting
  <2>5. Answerable(x, runs')
    BY <1>7, <2>4, NotedTable
  <2>6. r \in Runs => runs'[r].status \notin Live
    BY <1>7, <2>4 DEF Waiting, Live, Inv, Typed, Tabled, RunFields
  <2> HIDE DEF p, x
  <2>7. Program(x)
    <3>1. \A i \in DOMAIN x.todo : x.todo[i].op = "release"
      BY <2>1, <2>2
    <3>2. \A i \in DOMAIN x.todo : Fits(x, i)
      BY <3>1 DEF Fits, Going, Answers
    <3>3. EndsWell(r, p)
      BY <2>1 DEF EndsWell
    <3> QED BY <2>1, <2>2, <3>2, <3>3 DEF Program
  <2>8. Sees(x, runs')
    BY <2>1, <2>2, <2>6 DEF Sees
  <2>9. \A q \in Runs : ~Gives(th[t].todo, q)
    BY <1>2, <1>3, Started DEF Gives, Of
  <2> QED BY <1>1, <1>2, <1>4, <2>2, <2>3, <2>5, <2>7, <2>8, <2>9, TurnKeeps
<1>8. \/ \E p \in {FailRunDuration(r), Fails(r), Cancels(r)} : Goes(t, p) /\ UNCHANGED runs
      \/ \E at : Becomes(t, [th[t] EXCEPT !.at = at, !.todo = <<Do("next")>>]) /\ runs' = [runs EXCEPT ![r].next = at]
      \/ Goes(t, <<Of("release", r)>>) /\ runs' = [runs EXCEPT ![r].status = WaitingFor(Kind(r, n)), ![r].next = n]
  BY <1>4 DEF Outcome, Verdicts
<1> QED BY <1>5, <1>6, <1>7, <1>8

(* An executor about to poll knows its child.                              *)
LEMMA PollerKnows ==
  ASSUME Inv, NEW t \in Slots, NEW op \in {"poll", "nap"}, At(t, op)
  PROVE  Known(th[t].child, runs) /\ op \in Going /\ DOMAIN th[t] = DOMAIN Idle
<1>1. th[t].todo # <<>> /\ Head(th[t].todo).op = op /\ Program(th[t]) /\ Sees(th[t], runs)
      /\ DOMAIN th[t] = DOMAIN Idle
  BY DEF At, Inv, Programs, Proper, Program
<1>2. op \in Going
  BY DEF Going
<1>3. DOMAIN th[t].todo = {1} /\ th[t].todo[1].op = op
  BY <1>1, <1>2, Started
<1>4. ~ \E j \in DOMAIN th[t].todo : th[t].todo[j].op = "insert"
  BY <1>3
<1> QED BY <1>1, <1>2, <1>3, <1>4 DEF Sees

(* It goes on with a program that may poll its child again, or stop it.    *)
LEMMA PollerGoes ==
  ASSUME Inv, NEW t \in Slots, NEW op \in {"poll", "nap"}, At(t, op), NEW p, Goes(t, p),
         Ready(th[t].run, p),
         \A i \in DOMAIN p : p[i].op = "cascade" => p[i] = Of("cascade", th[t].child),
         UNCHANGED <<runs, Process>>
  PROVE  Inv'
<1> DEFINE x == [th[t] EXCEPT !.todo = p]
<1>1. Known(th[t].child, runs) /\ op \in Going /\ DOMAIN th[t] = DOMAIN Idle
  BY PollerKnows
<1>2. /\ DOMAIN x = DOMAIN Idle /\ x.todo = p /\ x.kind = th[t].kind /\ x.run = th[t].run
      /\ x.child = th[t].child
  BY <1>1, Retold
<1>3. Becomes(t, x) /\ Answerable(x, runs')
  BY SameTable DEF Goes
<1> HIDE DEF x
<1>4. Known(x.child, runs')
  BY <1>1, <1>2
<1>5. \A i \in DOMAIN x.todo : x.todo[i].op = "cascade" => x.todo[i].run = th[t].child
  BY <1>2 DEF Of
<1> QED BY <1>1, <1>2, <1>3, <1>4, <1>5, ExecutorGoes

LEMMA ReadyAgain ==
  ASSUME NEW r, NEW op \in {"poll", "nap"}
  PROVE  /\ Ready(r, <<Do(op)>>)
         /\ \A i \in DOMAIN <<Do(op)>> : <<Do(op)>>[i].op # "cascade"
<1>1. Do(op).op = op
  BY DEF Do
<1> QED BY <1>1, ReadyOne DEF Going

LEMMA DelayAbortedStep ==
  ASSUME Inv, NEW t \in Slots, DelayAborted(t)
  PROVE  Inv'
<1>1. At(t, "sleep") /\ Goes(t, Abandoned(th[t].run, th[t].at)) /\ runs' = runs /\ UNCHANGED Process
  BY DEF DelayAborted, Tables
<1>2. "sleep" \in Going /\ Onward(th[t].run, Abandoned(th[t].run, th[t].at))
  BY OnwardNode DEF Going
<1> QED BY <1>1, <1>2, OnwardGoes, SameTable

LEMMA NapAbortedStep ==
  ASSUME Inv, NEW t \in Slots, NapAborted(t)
  PROVE  Inv'
<1>1. At(t, "nap") /\ Goes(t, <<Do("poll")>>) /\ UNCHANGED <<runs, Process>>
  BY DEF NapAborted, Tables, Process
<1> QED BY <1>1, ReadyAgain, PollerGoes

LEMMA AloneAsks ==
  ASSUME NEW p, Alone(p)
  PROVE  \A i \in DOMAIN p : p[i].op # "cascade"
BY DEF Alone

LEMMA StopsChild ==
  ASSUME NEW r, NEW n, NEW c
  PROVE  LET p == <<Of("cascade", c)>> \o Abandoned(r, n) IN
         /\ Ready(r, p)
         /\ \A i \in DOMAIN p : p[i].op = "cascade" => p[i] = Of("cascade", c)
<1> DEFINE q == Abandoned(r, n)
           e == Of("cascade", c)
           p == <<e>> \o q
<1>1. Ready(r, q) /\ Alone(q) /\ e.op = "cascade"
  BY OnwardNode DEF Onward, Of
<1> HIDE DEF q, e
<1>2. /\ DOMAIN q = 1 .. Len(q) /\ Len(q) \in Nat /\ DOMAIN p = 1 .. Len(q) + 1
      /\ p[1] = e /\ \A i \in 1 .. Len(q) : p[i + 1] = q[i]
  BY <1>1, Put DEF Ready
<1>3. Ready(r, p)
  BY <1>1, ReadyPut
<1>4. ASSUME NEW i \in DOMAIN p, p[i].op = "cascade" PROVE p[i] = e
  <2>1. CASE i = 1
    BY <1>2, <2>1
  <2>2. CASE i # 1
    <3>1. i - 1 \in DOMAIN q /\ p[i] = q[i - 1]
      BY <1>2, <2>2
    <3> QED BY <1>1, <1>4, <3>1 DEF Alone
  <2> QED BY <2>1, <2>2
<1> QED BY <1>3, <1>4 DEF q, e

LEMMA PollSubStep ==
  ASSUME Inv, NEW t \in Slots, PollSub(t)
  PROVE  Inv'
<1> DEFINE r == th[t].run
           n == th[t].at
           c == th[t].child
           mirrored == IF runs[c].status \in Waiting THEN runs[c].status ELSE "running"
           resumes == <<Ev(r, "node.completed", n), Set(r, "running"), Out("completed")>>
<1>1. /\ At(t, "poll") /\ UNCHANGED <<runs, Process>>
      /\ \E p : /\ Goes(t, p)
                /\ p \in {<<Of("cascade", c)>> \o Abandoned(r, n), resumes, Failed(r, n), Abandoned(r, n),
                          <<Set(r, mirrored), Do("nap")>>, <<Do("nap")>>}
  BY DEF PollSub, Tables, Process
<1>2. Onward(r, resumes)
  <2>1. Onward(r, <<Set(r, "running")>> \o <<Out("completed")>>)
    BY OnwardOut, OnwardPut, Statements DEF Verdicts, Statuses, Live
  <2>2. Onward(r, <<Set(r, "running"), Out("completed")>>)
    BY <2>1, Two
  <2>3. Onward(r, <<Ev(r, "node.completed", n)>> \o <<Set(r, "running"), Out("completed")>>)
    BY <2>2, OnwardPut, Statements
  <2> QED BY <2>3, Three
<1>3. \A p \in {resumes, Failed(r, n), Abandoned(r, n)} : Onward(r, p)
  BY <1>2, OnwardNode
<1>4. /\ Ready(r, <<Set(r, mirrored), Do("nap")>>)
      /\ \A i \in DOMAIN <<Set(r, mirrored), Do("nap")>> : <<Set(r, mirrored), Do("nap")>>[i].op # "cascade"
  <2>1. mirrored \in Statuses
    BY DEF Statuses, Live
  <2> HIDE DEF mirrored
  <2>2. Ready(r, <<Set(r, mirrored)>> \o <<Do("nap")>>)
    BY <2>1, ReadyAgain, ReadyPut, Statements
  <2>3. Ready(r, <<Set(r, mirrored), Do("nap")>>)
    BY <2>2, Two
  <2> QED BY <2>3 DEF Set, Do
<1>5. PICK p : /\ Goes(t, p)
               /\ p \in {<<Of("cascade", c)>> \o Abandoned(r, n), resumes, Failed(r, n), Abandoned(r, n),
                          <<Set(r, mirrored), Do("nap")>>, <<Do("nap")>>}
  BY <1>1
<1>6. Ready(r, p) /\ \A i \in DOMAIN p : p[i].op = "cascade" => p[i] = Of("cascade", c)
  <2>1. CASE p \in {resumes, Failed(r, n), Abandoned(r, n)}
    BY <1>3, <2>1, AloneAsks DEF Onward
  <2>2. CASE p = <<Of("cascade", c)>> \o Abandoned(r, n)
    BY <2>2, StopsChild
  <2>3. CASE p \in {<<Set(r, mirrored), Do("nap")>>, <<Do("nap")>>}
    BY <1>4, <2>3, ReadyAgain
  <2> QED BY <1>5, <2>1, <2>2, <2>3
<1> QED BY <1>1, <1>5, <1>6, PollerGoes

(* An executor of core.dispatch turns to another worker, or is done.       *)
LEMMA WorkerGoes ==
  ASSUME Inv, NEW t \in Slots, NEW op \in Going, At(t, op), NEW worker, NEW p,
         Becomes(t, [th[t] EXCEPT !.worker = worker, !.todo = p]), Onward(th[t].run, p),
         UNCHANGED <<runs, Process>>
  PROVE  Inv'
<1> DEFINE x == [th[t] EXCEPT !.worker = worker, !.todo = p]
<1>1. DOMAIN th[t] = DOMAIN Idle
  BY DEF Inv, Programs, Proper, Program
<1>2. DOMAIN x = DOMAIN Idle /\ x.todo = p /\ x.kind = th[t].kind /\ x.run = th[t].run
  BY <1>1 DEF Idle
<1>3. Becomes(t, x) /\ Answerable(x, runs')
  BY SameTable
<1> HIDE DEF x
<1> QED BY <1>2, <1>3, ExecutorGoes DEF Onward

LEMMA DispatchNodeStep ==
  ASSUME Inv, NEW t \in Slots, DispatchNode(t)
  PROVE  Inv'
<1>1. At(t, "dispatch") /\ UNCHANGED <<runs, Process>> /\ "dispatch" \in Going
  BY DEF DispatchNode, Tables, Process, Going
<1>2. PICK p : /\ Becomes(t, [th[t] EXCEPT !.worker = 0, !.todo = p])
               /\ p \in {Failed(th[t].run, th[t].at), Completed(th[t].run, th[t].at), <<Do("find")>>}
  BY DEF DispatchNode, NextWorker
<1>3. Onward(th[t].run, p)
  BY <1>2, OnwardNode, OnwardDo
<1> QED BY <1>1, <1>2, <1>3, WorkerGoes

LEMMA PollWorkerStep ==
  ASSUME Inv, NEW t \in Slots, PollWorker(t)
  PROVE  Inv'
<1> DEFINE r == th[t].run
           n == th[t].at
           c == th[t].child
           onwards(tail) == <<Ev(r, "node.completed", n)>> \o tail
           back == <<Out("loopback")>>
           on == <<Set(r, "running"), Out("completed")>>
<1>1. At(t, "poll") /\ UNCHANGED <<runs, Process>> /\ "poll" \in Going
  BY DEF PollWorker, Tables, Process, Going
<1>2. \/ \E p \in {<<Of("cascade", c)>> \o Abandoned(r, n), Failed(r, n), <<Do("nap")>>} : Goes(t, p)
      \/ \E worker : \E p \in {onwards(back), onwards(on), <<Do("find")>>, Failed(r, n)} :
           Becomes(t, [th[t] EXCEPT !.worker = worker, !.todo = p])
  BY DEF PollWorker, NextWorker
<1>3. ASSUME NEW p \in {<<Of("cascade", c)>> \o Abandoned(r, n), Failed(r, n), <<Do("nap")>>}, Goes(t, p)
      PROVE  Inv'
  <2>1. Ready(r, p) /\ \A i \in DOMAIN p : p[i].op = "cascade" => p[i] = Of("cascade", c)
    <3>1. CASE p = Failed(r, n)
      BY <3>1, OnwardNode, AloneAsks DEF Onward
    <3>2. CASE p = <<Of("cascade", c)>> \o Abandoned(r, n)
      BY <3>2, StopsChild
    <3>3. CASE p = <<Do("nap")>>
      BY <3>3, ReadyAgain
    <3> QED BY <3>1, <3>2, <3>3
  <2> QED BY <1>1, <1>3, <2>1, PollerGoes
<1>4. ASSUME NEW worker, NEW p \in {onwards(back), onwards(on), <<Do("find")>>, Failed(r, n)},
             Becomes(t, [th[t] EXCEPT !.worker = worker, !.todo = p])
      PROVE  Inv'
  <2>1. Onward(r, <<Set(r, "running")>> \o <<Out("completed")>>) /\ Onward(r, back)
    BY OnwardOut, OnwardPut, Statements DEF Verdicts, Statuses, Live
  <2>2. Onward(r, on)
    BY <2>1, Two
  <2> HIDE DEF back, on
  <2>3. /\ Onward(r, onwards(back)) /\ Onward(r, onwards(on)) /\ Onward(r, <<Do("find")>>)
        /\ Onward(r, Failed(r, n))
    BY <2>1, <2>2, OnwardPut, OnwardDo, OnwardNode, Statements
  <2> HIDE DEF onwards
  <2> QED BY <1>1, <1>4, <2>3, WorkerGoes
<1> QED BY <1>2, <1>3, <1>4

LEMMA FindChildStep ==
  ASSUME Inv, NEW t \in Slots, FindChild(t)
  PROVE  Inv'
<1> DEFINE there == Existing(th[t].run, th[t].at, th[t].worker)
           begins(c) == <<Do("insert"), Ev(th[t].run, "node.dispatched", th[t].at), Of("launch", c), Do("poll")>>
<1>1. At(t, "find") /\ UNCHANGED <<runs, Process>> /\ "find" \in Going
  BY DEF FindChild, Tables, Process, Going
<1>2. th[t].todo # <<>> /\ Current(t) /\ Head(th[t].todo).op = "find" /\ Program(th[t])
      /\ DOMAIN th[t] = DOMAIN Idle
  BY <1>1 DEF At, Current, Inv, Programs, Proper, Program
<1>3. DOMAIN th[t].todo = {1} /\ th[t].todo[1].op = "find"
  BY <1>1, <1>2, Started
<1>4. th[t].kind = "exec"
  BY <1>1, <1>2, <1>3 DEF Program, Fits
<1>5. ASSUME NEW c \in Kids, runs[c].status # "none", Becomes(t, [th[t] EXCEPT !.child = c, !.todo = <<Do("poll")>>])
      PROVE  Inv'
  <2> DEFINE x == [th[t] EXCEPT !.child = c, !.todo = <<Do("poll")>>]
  <2>1. /\ DOMAIN x = DOMAIN Idle /\ x.todo = <<Do("poll")>> /\ x.kind = th[t].kind /\ x.run = th[t].run
        /\ x.child = c
    BY <1>2 DEF Idle
  <2>2. Becomes(t, x) /\ Answerable(x, runs')
    BY <1>1, <1>5, SameTable
  <2>3. Known(c, runs')
    BY <1>1, <1>5 DEF Known, Runs
  <2> HIDE DEF x
  <2>4. Ready(x.run, x.todo) /\ \A i \in DOMAIN x.todo : x.todo[i].op # "cascade"
    BY <2>1, ReadyAgain
  <2> QED BY <1>1, <2>1, <2>2, <2>3, <2>4, ExecutorGoes
<1>6. ASSUME NEW c \in Kids, Becomes(t, [th[t] EXCEPT !.child = c, !.todo = begins(c)])
      PROVE  Inv'
  <2> DEFINE x == [th[t] EXCEPT !.child = c, !.todo = begins(c)]
  <2>1. /\ DOMAIN x = DOMAIN Idle /\ x.todo = begins(c) /\ x.kind = "exec" /\ x.run = th[t].run
        /\ x.child = c
    BY <1>2, <1>4 DEF Idle
  <2>2. Becomes(t, x) /\ Answerable(x, runs')
    BY <1>1, <1>6, SameTable
  <2> HIDE DEF x
  <2>3. /\ begins(c) # <<>> /\ Len(begins(c)) = 4 /\ DOMAIN begins(c) = 1 .. 4 /\ \E S : begins(c) \in Seq(S)
    BY FourLong
  <2>4. /\ begins(c)[1].op = "insert" /\ begins(c)[2].op = "append"
        /\ begins(c)[3] = Of("launch", c) /\ begins(c)[3].op = "launch" /\ begins(c)[4].op = "poll"
    BY DEF Do, Ev, Of
  <2> HIDE DEF begins
  <2>5. \A i \in DOMAIN x.todo : Fits(x, i)
    <3>1. Fits(x, 1)
      <4>1. GivesAfter(x.todo, 1, x.child)
        BY <2>1, <2>3, <2>4 DEF GivesAfter
      <4> QED BY <2>1, <2>4, <4>1 DEF Fits, Going, Answers, Runs
    <3>2. Fits(x, 2) /\ Fits(x, 3)
      BY <2>1, <2>4 DEF Fits, Going, Answers
    <3>3. Fits(x, 4)
      BY <2>1, <2>3, <2>4 DEF Fits, Going, Answers
    <3> QED BY <2>1, <2>3, <3>1, <3>2, <3>3
  <2>6. Program(x)
    <3>1. EndsWell(x.run, x.todo)
      BY <2>1, <2>3, <2>4 DEF EndsWell, Going
    <3> QED BY <2>1, <2>3, <2>5, <3>1 DEF Program
  <2>7. Sees(x, runs')
    <3>1. \A i \in DOMAIN x.todo : x.todo[i].op \in {"insert", "append", "launch", "poll"}
      BY <2>1, <2>3, <2>4
    <3>2. \E j \in DOMAIN x.todo : x.todo[j].op = "insert"
      BY <2>1, <2>3, <2>4
    <3>3. ~Releases(x)
      <4>1. Len(<<Of("release", x.run)>>) = 1
        OBVIOUS
      <4> QED BY <2>1, <2>3, <4>1 DEF Releases
    <3> QED BY <3>1, <3>2, <3>3 DEF Sees
  <2>8. \A r : ~Gives(th[t].todo, r)
    BY <1>3 DEF Gives, Of
  <2> QED BY <1>1, <1>2, <1>4, <2>1, <2>2, <2>6, <2>7, <2>8, TurnKeeps
<1>7. CASE there # {}
  <2>1. PICK c : c \in there /\ Becomes(t, [th[t] EXCEPT !.child = c, !.todo = <<Do("poll")>>])
    <3> DEFINE c == CHOOSE c \in there : TRUE
    <3>1. c \in there
      BY <1>7
    <3>2. Becomes(t, [th[t] EXCEPT !.child = c, !.todo = <<Do("poll")>>])
      BY <1>7 DEF FindChild
    <3> HIDE DEF c
    <3> QED BY <3>1, <3>2
  <2>2. c \in Kids /\ runs[c].status # "none"
    BY <2>1 DEF Existing
  <2> QED BY <1>5, <2>1, <2>2
<1>8. CASE there = {}
  <2> DEFINE c == CHOOSE x \in FreshKids : TRUE
  <2>1. FreshKids # {} /\ Becomes(t, [th[t] EXCEPT !.child = c, !.todo = begins(c)])
    BY <1>8 DEF FindChild
  <2> HIDE DEF begins
  <2>2. c \in Kids
    BY <2>1 DEF FreshKids
  <2> HIDE DEF c
  <2> QED BY <1>6, <2>1, <2>2
<1> QED BY <1>7, <1>8

-----------------------------------------------------------------------------
(* One statement                                                           *)

(* The rest of a program is a program.                                     *)
LEMMA RestFits ==
  ASSUME NEW x, Program(x), x.todo # <<>>, x.kind = "exec" => Tail(x.todo) # <<>>
  PROVE  LET y == [x EXCEPT !.todo = Tail(x.todo)] IN
         /\ Program(y)
         /\ Releases(y) => \E status \in Terminal : Head(x.todo) = Set(x.run, status)
         /\ \A i \in DOMAIN y.todo : y.todo[i].op # "body"
<1> DEFINE y == [x EXCEPT !.todo = Tail(x.todo)]
           p == x.todo
           q == Tail(x.todo)
<1>1. PICK S : p \in Seq(S)
  BY DEF Program
<1>2. /\ Len(p) \in Nat \ {0} /\ DOMAIN p = 1 .. Len(p) /\ Head(p) = p[1]
      /\ q \in Seq(S) /\ Len(q) = Len(p) - 1 /\ DOMAIN q = 1 .. Len(p) - 1
      /\ \A i \in 1 .. Len(p) - 1 : q[i] = p[i + 1]
  BY <1>1, Slots1
<1>3. /\ DOMAIN y = DOMAIN Idle /\ y.todo = q /\ y.kind = x.kind /\ y.run = x.run /\ y.child = x.child
  BY Retold DEF Program
<1> HIDE DEF y, q
<1>4. ASSUME NEW i \in DOMAIN q PROVE Fits(y, i)
  <2>1. i + 1 \in DOMAIN p /\ q[i] = p[i + 1] /\ Fits(x, i + 1) /\ i + 1 # 1
    BY <1>2 DEF Program
  <2>2. \A r : GivesAfter(p, i + 1, r) => GivesAfter(q, i, r)
    <3> SUFFICES ASSUME NEW r, GivesAfter(p, i + 1, r) PROVE GivesAfter(q, i, r)
      OBVIOUS
    <3>1. PICK j \in 1 .. Len(p) : j > i + 1 /\ p[j] = Of("launch", r)
      BY <1>2 DEF GivesAfter
    <3>2. j - 1 \in DOMAIN q /\ j - 1 > i /\ q[j - 1] = Of("launch", r)
      BY <1>2, <3>1
    <3> QED BY <3>2 DEF GivesAfter
  <2>3. ASSUME q[i].op = "request", NEW j \in 1 .. i - 1 PROVE Stops(q[j])
    <3>1. j + 1 \in 1 .. (i + 1) - 1 /\ q[j] = p[j + 1]
      BY <1>2
    <3> QED BY <2>1, <2>3, <3>1 DEF Fits
  <2>4. Len(p) = Len(q) + 1
    BY <1>2
  <2>5. q[i].op \in Going \cup Answers \cup {"cancel"} => i = Len(q)
    <3>1. q[i].op \in Going \cup Answers \cup {"cancel"} => i + 1 = Len(p)
      BY <2>1 DEF Fits
    <3>2. i \in Nat /\ Len(q) \in Nat
      BY <1>2
    <3> QED BY <2>4, <3>1, <3>2
  <2>6. q[i].op # "body"
    BY <2>1 DEF Fits
  <2>7. (q[i].op \in Going => x.kind = "exec") /\ (q[i].op \in Answers \cup {"cancel"} => x.kind = "call")
    BY <2>1 DEF Fits
  <2>8. q[i].op = "out" => q[i].outcome \in Verdicts
    BY <2>1 DEF Fits
  <2>9. q[i].op = "set" => /\ q[i].status \in Statuses
                           /\ q[i].status \in Live => (x.kind = "exec" /\ q[i].run = x.run) \/ GivesAfter(q, i, q[i].run)
    BY <2>1, <2>2 DEF Fits
  <2>10. /\ q[i].op \in {"insert run", "advance"} => GivesAfter(q, i, x.run)
         /\ q[i].op = "insert" => x.child \in Runs /\ GivesAfter(q, i, x.child)
    BY <2>1, <2>2 DEF Fits
  <2> QED BY <1>3, <2>3, <2>5, <2>6, <2>7, <2>8, <2>9, <2>10 DEF Fits
<1>5. ASSUME x.kind = "exec" PROVE EndsWell(x.run, q)
  <2>1. Len(p) > 1 /\ q[Len(q)] = p[Len(p)] /\ q # <<>>
    BY <1>1, <1>2, <1>5, Slots1 DEF q
  <2>2. ASSUME Len(q) > 1 PROVE q[Len(q) - 1] = p[Len(p) - 1]
    BY <1>2, <2>2
  <2>3. EndsWell(x.run, p)
    BY <1>5 DEF Program
  <2>4. CASE p[Len(p)].op \in Going
    BY <2>1, <2>4 DEF EndsWell
  <2>5. CASE p[Len(p)] = Of("release", x.run)
    <3>1. Of("release", x.run).op \notin Going
      BY DEF Of, Going
    <3>2. \E status \in Terminal : p[Len(p) - 1] = Set(x.run, status)
      BY <2>1, <2>3, <2>5, <3>1 DEF EndsWell
    <3> QED BY <2>1, <2>2, <2>5, <3>2 DEF EndsWell
  <2> QED BY <2>3, <2>4, <2>5 DEF EndsWell
<1>6. Program(y)
  BY <1>2, <1>3, <1>4, <1>5 DEF Program
<1>8. ASSUME NEW i \in DOMAIN q PROVE q[i].op # "body"
  <2>1. i + 1 \in DOMAIN p /\ q[i] = p[i + 1] /\ Fits(x, i + 1) /\ i + 1 # 1
    BY <1>2 DEF Program
  <2> QED BY <2>1 DEF Fits
<1>7. ASSUME Releases(y) PROVE \E status \in Terminal : Head(p) = Set(x.run, status)
  <2>1. x.kind = "exec" /\ q = <<Of("release", x.run)>>
    BY <1>3, <1>7 DEF Releases
  <2>2. Len(q) = 1 /\ q[1] = Of("release", x.run)
    BY <2>1
  <2>3. Len(p) = 2 /\ p[2] = Of("release", x.run)
    <3>0. Len(p) \in Nat /\ Len(p) - 1 = 1
      BY <1>2, <2>2
    <3>1. Len(p) = 2
      BY <3>0
    <3>2. 1 \in 1 .. Len(p) - 1 /\ q[1] = p[1 + 1]
      BY <1>2, <3>1
    <3> QED BY <2>2, <3>1, <3>2
  <2>4. Of("release", x.run).op \notin Going
    BY DEF Of, Going
  <2>5. EndsWell(x.run, p)
    BY <2>1 DEF Program
  <2>6. Len(p) - 1 = 1
    BY <2>3
  <2>7. \E status \in Terminal : p[1] = Set(x.run, status)
    BY <2>3, <2>4, <2>5, <2>6 DEF EndsWell
  <2> QED BY <1>2, <2>7
<1> QED BY <1>3, <1>6, <1>7, <1>8 DEF y, q

(* What the rest of a program needs of the table after its first statement.*)
LEMMA RestSees ==
  ASSUME NEW x, Program(x), Sees(x, runs), x.todo # <<>>, x.kind = "exec" => Tail(x.todo) # <<>>,
         NEW table,
         \A r \in Runs : runs[r].status # "none" => table[r].status # "none",
         Stops(Head(x.todo)) =>
           \A r \in Runs : table[r].status \in Waiting => runs[r].status \in Waiting,
         \A status \in Terminal : Head(x.todo) = Set(x.run, status) /\ x.run \in Runs =>
           table[x.run].status \notin Live,
         Head(x.todo).op = "insert" => Known(x.child, table)
  PROVE  Sees([x EXCEPT !.todo = Tail(x.todo)], table)
<1> DEFINE y == [x EXCEPT !.todo = Tail(x.todo)]
           p == x.todo
           q == Tail(x.todo)
<1>1. PICK S : p \in Seq(S)
  BY DEF Program
<1>2. /\ Len(p) \in Nat \ {0} /\ DOMAIN p = 1 .. Len(p) /\ Head(p) = p[1]
      /\ DOMAIN q = 1 .. Len(p) - 1 /\ \A i \in 1 .. Len(p) - 1 : q[i] = p[i + 1]
  BY <1>1, Slots1
<1>3. /\ y.todo = q /\ y.kind = x.kind /\ y.run = x.run /\ y.child = x.child
  BY Retold DEF Program
<1>4. Releases(y) => \E status \in Terminal : Head(p) = Set(x.run, status)
  BY RestFits
<1> HIDE DEF y, q
<1>5. \A r : Known(r, runs) => Known(r, table)
  BY DEF Known
<1>6. ASSUME NEW i \in DOMAIN q
      PROVE  /\ q[i].op = "request" => Known(q[i].run, table) /\ table[q[i].run].status \notin Waiting
             /\ q[i].op = "cascade" => Known(q[i].run, table)
             /\ q[i].op = "cancel" => Known(x.run, table)
             /\ q[i].op \in {"poll", "nap"} => Known(x.child, table) \/ \E j \in DOMAIN q : q[j].op = "insert"
  <2>1. i + 1 \in DOMAIN p /\ q[i] = p[i + 1] /\ Fits(x, i + 1) /\ 1 \in 1 .. (i + 1) - 1
    BY <1>2 DEF Program
  <2>2. ASSUME q[i].op = "request" PROVE Known(q[i].run, table) /\ table[q[i].run].status \notin Waiting
    <3>1. Known(q[i].run, runs) /\ runs[q[i].run].status \notin Waiting
      BY <2>1, <2>2 DEF Sees
    <3>2. Stops(Head(p))
      BY <1>2, <2>1, <2>2 DEF Fits
    <3> QED BY <1>5, <3>1, <3>2 DEF Known
  <2>3. (q[i].op = "cascade" => Known(q[i].run, table)) /\ (q[i].op = "cancel" => Known(x.run, table))
    BY <1>5, <2>1 DEF Sees
  <2>4. ASSUME q[i].op \in {"poll", "nap"}, ~Known(x.child, table)
        PROVE  \E j \in DOMAIN q : q[j].op = "insert"
    <3>1. ~Known(x.child, runs)
      BY <1>5, <2>4
    <3>2. PICK j \in DOMAIN p : p[j].op = "insert"
      BY <2>1, <2>4, <3>1 DEF Sees
    <3>3. j # 1
      BY <1>2, <2>4, <3>2
    <3>4. j - 1 \in DOMAIN q /\ q[j - 1] = p[j]
      BY <1>2, <3>2, <3>3
    <3> QED BY <3>2, <3>4
  <2> QED BY <2>2, <2>3, <2>4
<1>7. Sees(y, table)
  BY <1>3, <1>4, <1>6 DEF Sees
<1> QED BY <1>7 DEF y, q

(* The first thread makes its first statement, and goes on with the rest.  *)
LEMMA StatementKeeps ==
  ASSUME Inv, NEW t \in Slots, Current(t), th[t].todo # <<>>, Then(t, <<>>),
         First(t).op \notin Going \cup {"launch", "release"},
         Tabled(runs'),
         \A r \in Runs :
           /\ runs'[r].holder = runs[r].holder
           /\ runs[r].status # "none" => runs'[r].status # "none"
           /\ runs'[r].status \in Live =>
                \/ runs[r].status \in Live
                \/ th[t].kind = "exec" /\ th[t].run = r
                \/ GivesAfter(th[t].todo, 1, r)
           /\ Stops(First(t)) /\ runs'[r].status \in Waiting => runs[r].status \in Waiting
           /\ \A status \in Terminal : First(t) = Set(r, status) => runs'[r].status \notin Live,
         First(t).op = "insert" => Known(th[t].child, runs'),
         UNCHANGED Process
  PROVE  Inv'
<1> DEFINE x == th[t]
           y == [x EXCEPT !.todo = Tail(x.todo)]
<1>1. Program(x) /\ Sees(x, runs) /\ First(t) = Head(x.todo)
  BY DEF Inv, Programs, Proper, First
<1>2. PICK S : x.todo \in Seq(S)
  BY <1>1 DEF Program
<1>3. /\ Len(x.todo) \in Nat \ {0} /\ DOMAIN x.todo = 1 .. Len(x.todo) /\ Head(x.todo) = x.todo[1]
      /\ Tail(x.todo) \in Seq(S) /\ DOMAIN Tail(x.todo) = 1 .. Len(x.todo) - 1
      /\ Len(Tail(x.todo)) = Len(x.todo) - 1
      /\ \A i \in 1 .. Len(x.todo) - 1 : Tail(x.todo)[i] = x.todo[i + 1]
  BY <1>2, Slots1
<1>4. x.kind = "exec" => Tail(x.todo) # <<>>
  <2>1. SUFFICES ASSUME x.kind = "exec", Tail(x.todo) = <<>> PROVE FALSE
    OBVIOUS
  <2>0. Len(Tail(x.todo)) = 0
    BY <1>3, <2>1, Slots1
  <2>2. Len(x.todo) = 1
    BY <1>3, <2>0
  <2>3. Of("release", x.run).op = "release"
    BY DEF Of
  <2> QED BY <1>1, <1>3, <2>1, <2>2, <2>3 DEF Program, EndsWell
<1>5. Becomes(t, y)
  <2>1. <<>> \o Rest(t) = Tail(x.todo)
    BY <1>3 DEF Rest
  <2> QED BY <2>1 DEF Then, Goes
<1>6. DOMAIN y = DOMAIN Idle /\ y.todo = Tail(x.todo) /\ y.kind = x.kind /\ y.run = x.run
  BY <1>1, Retold DEF Program
<1>7. Program(y)
  BY <1>1, <1>4, RestFits
<1>8. Sees(y, runs')
  <2>1. \A status \in Terminal : Head(x.todo) = Set(x.run, status) /\ x.run \in Runs =>
          runs'[x.run].status \notin Live
    BY <1>1
  <2>2. \A r \in Runs : runs[r].status # "none" => runs'[r].status # "none"
    OBVIOUS
  <2>3. Stops(Head(x.todo)) => \A r \in Runs : runs'[r].status \in Waiting => runs[r].status \in Waiting
    BY <1>1
  <2>4. Head(x.todo).op = "insert" => Known(x.child, runs')
    BY <1>1
  <2>5. x.todo # <<>>
    OBVIOUS
  <2> HIDE DEF x
  <2> QED BY <1>1, <1>4, <2>1, <2>2, <2>3, <2>4, <2>5, RestSees
<1>9. ASSUME NEW r PROVE (Gives(x.todo, r) => Gives(y.todo, r)) /\ (GivesAfter(x.todo, 1, r) => Gives(y.todo, r))
  <2> SUFFICES ASSUME NEW i \in DOMAIN x.todo, x.todo[i] = Of("launch", r) PROVE Gives(y.todo, r)
    BY DEF Gives, GivesAfter
  <2>1. i # 1
    BY <1>1, <1>3 DEF Of
  <2>2. i - 1 \in DOMAIN y.todo /\ y.todo[i - 1] = Of("launch", r)
    BY <1>3, <1>6, <2>1
  <2> QED BY <2>2 DEF Gives
<1>10. Answerable(y, runs')
  BY <1>6, <1>9 DEF Answerable
<1> HIDE DEF y
<1> QED BY <1>5, <1>6, <1>7, <1>8, <1>9, <1>10, TurnKeeps

(* A statement that writes nothing to the table of runs.                   *)
LEMMA QuietStatement ==
  ASSUME Inv, NEW t \in Slots,
         NEW op \in {"append", "mint", "key", "invalidate"}, At(t, op), Then(t, <<>>),
         UNCHANGED <<runs, Process>>
  PROVE  Inv'
<1>1. Current(t) /\ th[t].todo # <<>> /\ First(t).op = op
  BY DEF At, Current, First
<1>2. op \notin Going \cup {"launch", "release"} /\ op # "insert" /\ op # "set"
  BY DEF Going
<1>3. Tabled(runs)
  BY DEF Inv, Typed
<1>4. \A r, status : First(t) # Set(r, status)
  BY <1>1, <1>2 DEF Set
<1> QED BY <1>1, <1>2, <1>3, <1>4, StatementKeeps

LEMMA QuietStatementSteps ==
  ASSUME Inv, NEW t \in Slots,
         AppendEvent(t) \/ CreateInterrupt(t) \/ InvalidateInterrupts(t) \/ InsertIdempotency(t)
  PROVE  Inv'
<1>1. \E op \in {"append", "mint", "key", "invalidate"} : At(t, op) /\ Then(t, <<>>) /\ UNCHANGED <<runs, Process>>
  BY DEF AppendEvent, CreateInterrupt, InvalidateInterrupts, InsertIdempotency, Process
<1> QED BY <1>1, QuietStatement

(* What the first statement of a program demands.                          *)
LEMMA FirstFits ==
  ASSUME Inv, NEW t \in Slots, NEW op, At(t, op)
  PROVE  /\ Current(t) /\ th[t].todo # <<>> /\ First(t).op = op /\ First(t) = th[t].todo[1]
         /\ DOMAIN th[t].todo = 1 .. Len(th[t].todo) /\ Len(th[t].todo) \in Nat \ {0}
         /\ 1 \in DOMAIN th[t].todo /\ Fits(th[t], 1) /\ Program(th[t]) /\ Sees(th[t], runs)
<1>1. Current(t) /\ th[t].todo # <<>> /\ First(t).op = op /\ Program(th[t]) /\ Sees(th[t], runs)
  BY DEF At, Current, First, Inv, Programs, Proper
<1>2. /\ Head(th[t].todo) = th[t].todo[1]
      /\ DOMAIN th[t].todo = 1 .. Len(th[t].todo) /\ Len(th[t].todo) \in Nat \ {0}
  BY <1>1, Started
<1>3. 1 \in DOMAIN th[t].todo
  BY <1>2
<1> QED BY <1>1, <1>2, <1>3 DEF First, Program

LEMMA RowsTyped ==
  ASSUME Inv
  PROVE  DOMAIN runs = Runs /\ \A r \in Runs : /\ DOMAIN runs[r] = RunFields /\ runs[r].holder \in Nat
                                               /\ runs[r].status \in Statuses \cup {"none"}
BY DEF Inv, Typed, Tabled

LEMMA SetStatusStep ==
  ASSUME Inv, NEW t \in Slots, SetStatus(t)
  PROVE  Inv'
<1> DEFINE s == First(t)
<1>1. /\ At(t, "set") /\ Then(t, <<>>) /\ UNCHANGED Process
      /\ runs' = [runs EXCEPT ![s.run].status = s.status]
  BY DEF SetStatus
<1>2. /\ Current(t) /\ th[t].todo # <<>> /\ s.op = "set" /\ s = th[t].todo[1] /\ Fits(th[t], 1)
  BY <1>1, FirstFits
<1>3. /\ s.status \in Statuses
      /\ s.status \in Live => (th[t].kind = "exec" /\ s.run = th[t].run) \/ GivesAfter(th[t].todo, 1, s.run)
  BY <1>2 DEF Fits
<1>4. /\ Terminal \cap (Live \cup Waiting) = {} /\ "none" \notin Statuses
      /\ "set" \notin Going \cup {"launch", "release", "insert"}
  BY DEF Terminal, Live, Waiting, Going, Statuses
<1> HIDE DEF s
<1>5. /\ Tabled(runs')
      /\ \A r \in Runs : /\ runs'[r].holder = runs[r].holder
                         /\ runs'[r].status = IF r = s.run THEN s.status ELSE runs[r].status
  BY <1>1, <1>3, RowsTyped DEF Tabled, RunFields
<1>6. Stops(s) => s.status \in Terminal
  BY <1>2 DEF Stops
<1>7. \A r, status : s = Set(r, status) => s.run = r /\ s.status = status
  BY DEF Set
<1>8. \A r \in Runs :
           /\ runs'[r].holder = runs[r].holder
           /\ runs[r].status # "none" => runs'[r].status # "none"
           /\ runs'[r].status \in Live =>
                \/ runs[r].status \in Live
                \/ th[t].kind = "exec" /\ th[t].run = r
                \/ GivesAfter(th[t].todo, 1, r)
           /\ Stops(s) /\ runs'[r].status \in Waiting => runs[r].status \in Waiting
           /\ \A status \in Terminal : s = Set(r, status) => runs'[r].status \notin Live
  BY <1>3, <1>4, <1>5, <1>6, <1>7
<1> QED BY <1>1, <1>2, <1>4, <1>5, <1>8, StatementKeeps DEF s

LEMMA SetCancelRequestedStep ==
  ASSUME Inv, NEW t \in Slots, SetCancelRequested(t)
  PROVE  Inv'
<1> DEFINE q == First(t).run
           status == IF runs[q].status \in Terminal THEN runs[q].status ELSE "cancelling"
<1>1. /\ At(t, "request") /\ Then(t, <<>>) /\ UNCHANGED Process
      /\ runs' = [runs EXCEPT ![q].status = status]
  BY DEF SetCancelRequested
<1>2. /\ Current(t) /\ th[t].todo # <<>> /\ First(t).op = "request" /\ First(t) = th[t].todo[1]
      /\ 1 \in DOMAIN th[t].todo /\ Sees(th[t], runs)
  BY <1>1, FirstFits
<1>3. Known(q, runs) /\ runs[q].status \notin Waiting
  BY <1>2 DEF Sees
<1>4. status \in Statuses \ Waiting /\ "request" \notin Going \cup {"launch", "release", "insert"}
  BY <1>3 DEF Terminal, Waiting, Going, Statuses, Live
<1>6. \A r, s : First(t) # Set(r, s)
  BY <1>2 DEF Set
<1>7. status \in Live => runs[q].status \in Live
  BY <1>3 DEF Inv, Typed, Tabled, Known, Statuses, Live, Terminal
<1>9. "none" \notin Statuses
  BY DEF Statuses, Live, Waiting, Terminal
<1> HIDE DEF q, status
<1>5. /\ Tabled(runs')
      /\ \A r \in Runs : /\ runs'[r].holder = runs[r].holder
                         /\ runs'[r].status = IF r = q THEN status ELSE runs[r].status
  BY <1>1, <1>4, RowsTyped DEF Tabled, RunFields
<1>8. \A r \in Runs :
           /\ runs'[r].holder = runs[r].holder
           /\ runs[r].status # "none" => runs'[r].status # "none"
           /\ runs'[r].status \in Live => runs[r].status \in Live
           /\ runs'[r].status \in Waiting => runs[r].status \in Waiting
  BY <1>4, <1>5, <1>7, <1>9
<1> QED BY <1>1, <1>2, <1>4, <1>5, <1>6, <1>8, StatementKeeps

LEMMA InsertChildStep ==
  ASSUME Inv, NEW t \in Slots, InsertChild(t)
  PROVE  Inv'
<1> DEFINE c == th[t].child
<1>1. /\ At(t, "insert") /\ Then(t, <<>>) /\ UNCHANGED Process
      /\ \E parent : runs' = [runs EXCEPT ![c].status = "pending", ![c].parent = parent]
  BY DEF InsertChild
<1>2. /\ Current(t) /\ th[t].todo # <<>> /\ First(t).op = "insert" /\ First(t) = th[t].todo[1]
      /\ Fits(th[t], 1)
  BY <1>1, FirstFits
<1>3. c \in Runs /\ GivesAfter(th[t].todo, 1, c)
  BY <1>2 DEF Fits
<1>4. "insert" \notin Going \cup {"launch", "release"} /\ ~Stops(First(t))
  BY <1>2 DEF Going, Stops
<1>5. \A r, status : First(t) # Set(r, status)
  BY <1>2 DEF Set
<1> HIDE DEF c
<1>6. PICK parent : runs' = [runs EXCEPT ![c].status = "pending", ![c].parent = parent]
  BY <1>1
<1>7. /\ Tabled(runs')
      /\ \A r \in Runs : /\ runs'[r].holder = runs[r].holder
                         /\ runs'[r].status = IF r = c THEN "pending" ELSE runs[r].status
  BY <1>6, RowsTyped DEF Tabled, RunFields, Statuses, Live
<1>8. Known(c, runs')
  BY <1>3, <1>7 DEF Known
<1>9. \A r \in Runs :
           /\ runs'[r].holder = runs[r].holder
           /\ runs[r].status # "none" => runs'[r].status # "none"
           /\ runs'[r].status \in Live =>
                \/ runs[r].status \in Live
                \/ th[t].kind = "exec" /\ th[t].run = r
                \/ GivesAfter(th[t].todo, 1, r)
           /\ Stops(First(t)) /\ runs'[r].status \in Waiting => runs[r].status \in Waiting
           /\ \A status \in Terminal : First(t) = Set(r, status) => runs'[r].status \notin Live
  BY <1>3, <1>4, <1>5, <1>7
<1> QED BY <1>1, <1>2, <1>4, <1>5, <1>7, <1>8, <1>9, StatementKeeps DEF c

(* A handler begins a run, or moves it on, and launches it later.          *)
LEMMA RunsAgain ==
  ASSUME Inv, NEW t \in Slots, NEW op \in {"insert run", "advance"}, At(t, op), Then(t, <<>>),
         NEW made \in Live, UNCHANGED Process,
         Tabled(runs'),
         \A r \in Runs : /\ runs'[r].holder = runs[r].holder
                         /\ runs'[r].status = IF r = th[t].run THEN made ELSE runs[r].status
  PROVE  Inv'
<1> DEFINE q == th[t].run
<1>1. /\ Current(t) /\ th[t].todo # <<>> /\ First(t).op = op /\ First(t) = th[t].todo[1]
      /\ Fits(th[t], 1)
  BY FirstFits
<1>2. GivesAfter(th[t].todo, 1, q)
  BY <1>1 DEF Fits
<1>3. First(t).op \notin Going \cup {"launch", "release", "insert", "set"} /\ ~Stops(First(t))
  BY <1>1 DEF Going, Stops
<1>4. ASSUME NEW r, NEW s PROVE First(t) # Set(r, s)
  <2>1. Set(r, s).op = "set"
    BY DEF Set
  <2> QED BY <1>3, <2>1
<1> HIDE DEF q
<1>5. made # "none"
  BY DEF Live
<1>6. \A r \in Runs :
           /\ runs'[r].holder = runs[r].holder
           /\ runs[r].status # "none" => runs'[r].status # "none"
           /\ runs'[r].status \in Live =>
                \/ runs[r].status \in Live
                \/ th[t].kind = "exec" /\ th[t].run = r
                \/ GivesAfter(th[t].todo, 1, r)
           /\ Stops(First(t)) /\ runs'[r].status \in Waiting => runs[r].status \in Waiting
           /\ \A s \in Terminal : First(t) = Set(r, s) => runs'[r].status \notin Live
  BY <1>2, <1>3, <1>4, <1>5 DEF q
<1> QED BY <1>1, <1>3, <1>6, StatementKeeps

LEMMA InsertRunStep ==
  ASSUME Inv, NEW t \in Slots, InsertRun(t)
  PROVE  Inv'
<1> DEFINE q == th[t].run
<1>1. /\ At(t, "insert run") /\ Then(t, <<>>) /\ UNCHANGED Process
      /\ \E flow : runs' = [runs EXCEPT ![q].status = "pending", ![q].flow = flow]
  BY DEF InsertRun
<1>2. "pending" \in Live /\ "pending" \in Statuses
  BY DEF Live, Statuses
<1> HIDE DEF q
<1>3. PICK flow : runs' = [runs EXCEPT ![q].status = "pending", ![q].flow = flow]
  BY <1>1
<1>4. /\ Tabled(runs')
      /\ \A r \in Runs : /\ runs'[r].holder = runs[r].holder
                         /\ runs'[r].status = IF r = q THEN "pending" ELSE runs[r].status
  BY <1>2, <1>3, RowsTyped DEF Tabled, RunFields
<1> QED BY <1>1, <1>2, <1>4, RunsAgain DEF q

LEMMA AdvanceStep ==
  ASSUME Inv, NEW t \in Slots, Advance(t)
  PROVE  Inv'
<1> DEFINE q == th[t].run
<1>1. /\ At(t, "advance") /\ Then(t, <<>>) /\ UNCHANGED Process
      /\ \E n : runs' = [runs EXCEPT ![q].status = "running", ![q].next = n]
  BY DEF Advance
<1>2. "running" \in Live /\ "running" \in Statuses
  BY DEF Live, Statuses
<1> HIDE DEF q
<1>3. PICK n : runs' = [runs EXCEPT ![q].status = "running", ![q].next = n]
  BY <1>1
<1>4. /\ Tabled(runs')
      /\ \A r \in Runs : /\ runs'[r].holder = runs[r].holder
                         /\ runs'[r].status = IF r = q THEN "running" ELSE runs[r].status
  BY <1>2, <1>3, RowsTyped DEF Tabled, RunFields
<1> QED BY <1>1, <1>2, <1>4, RunsAgain DEF q

-----------------------------------------------------------------------------
(* Cancelling                                                              *)

LEMMA FiniteRuns == IsFiniteSet(Runs) /\ IsFiniteSet(Kids) /\ IsFiniteSet(Slots) /\ MaxThreads \in Nat \ {0}
<1>1. MaxThreads \in Nat \ {0} /\ IsFiniteSet(Runs)
  BY SqliteAssumption DEF Runs
<1> QED BY <1>1, FS_Interval, FS_Subset DEF Slots, Runs

(* A finite set written as a sequence, which has all of its members.       *)
LEMMA Listed ==
  ASSUME NEW S, IsFiniteSet(S)
  PROVE  /\ SetToSeq(S) \in Seq(S) /\ \A s \in S : \E i \in DOMAIN SetToSeq(S) : SetToSeq(S)[i] = s
         /\ \A i \in DOMAIN SetToSeq(S) : SetToSeq(S)[i] \in S
         /\ \A i, j \in DOMAIN SetToSeq(S) : SetToSeq(S)[i] = SetToSeq(S)[j] => i = j
<1> DEFINE N == 1 .. Cardinality(S)
<1>1. Cardinality(S) \in Nat /\ \E f \in Bijection(N, S) : TRUE
  BY FS_CardinalityType DEF ExistsBijection
<1>2. \E f \in [N -> S] : IsInjective(f)
  BY <1>1 DEF Bijection, Injection
<1>3. SetToSeq(S) \in [N -> S] /\ IsInjective(SetToSeq(S))
  BY <1>2 DEF SetToSeq
<1>4. SetToSeq(S) \in Injection(N, S)
  BY <1>3 DEF Injection
<1>5. Cardinality(N) = Cardinality(S)
  BY <1>1, FS_Interval
<1>6. SetToSeq(S) \in Surjection(N, S)
  BY <1>4, <1>5, FS_Injection
<1>7. \A s \in S : \E i \in N : SetToSeq(S)[i] = s
  BY <1>6 DEF Surjection
<1> HIDE DEF N
<1>8. SetToSeq(S) \in Seq(S)
  BY <1>1, <1>3 DEF N
<1>9. \A i, j \in DOMAIN SetToSeq(S) : SetToSeq(S)[i] = SetToSeq(S)[j] => i = j
  BY <1>3 DEF IsInjective
<1> QED BY <1>3, <1>7, <1>8, <1>9

(* Statements that stop runs, put in front of a program.                   *)
Halts(p, table) ==
  /\ \E S : p \in Seq(S)
  /\ \A i \in DOMAIN p :
       /\ Stops(p[i])
       /\ p[i].op = "request" => Known(p[i].run, table) /\ table[p[i].run].status \notin Waiting
       /\ p[i].op = "cascade" => Known(p[i].run, table)

LEMMA SeqUnion ==
  ASSUME NEW p, NEW q, \E S : p \in Seq(S), \E S : q \in Seq(S)
  PROVE  /\ \E S : p \o q \in Seq(S)
         /\ Len(p) \in Nat /\ Len(q) \in Nat
         /\ DOMAIN p = 1 .. Len(p) /\ DOMAIN q = 1 .. Len(q)
         /\ DOMAIN (p \o q) = 1 .. Len(p) + Len(q) /\ Len(p \o q) = Len(p) + Len(q)
         /\ \A i \in 1 .. Len(p) : (p \o q)[i] = p[i]
         /\ \A i \in 1 .. Len(q) : (p \o q)[Len(p) + i] = q[i]
<1>1. PICK S : p \in Seq(S)
  OBVIOUS
<1>2. PICK T : q \in Seq(T)
  OBVIOUS
<1>3. p \in Seq(S \cup T) /\ q \in Seq(S \cup T)
  BY <1>1, <1>2
<1> QED BY <1>3, Joined

LEMMA HaltsBoth ==
  ASSUME NEW table, NEW p, Halts(p, table), NEW q, Halts(q, table)
  PROVE  Halts(p \o q, table)
<1> DEFINE w == p \o q
<1>1. /\ \E S : w \in Seq(S)
      /\ Len(p) \in Nat /\ Len(q) \in Nat
      /\ DOMAIN p = 1 .. Len(p) /\ DOMAIN q = 1 .. Len(q) /\ DOMAIN w = 1 .. Len(p) + Len(q)
      /\ \A i \in 1 .. Len(p) : w[i] = p[i]
      /\ \A i \in 1 .. Len(q) : w[Len(p) + i] = q[i]
  BY SeqUnion DEF Halts
<1> HIDE DEF w
<1>2. ASSUME NEW i \in DOMAIN w
      PROVE  \/ i \in DOMAIN p /\ w[i] = p[i]
             \/ \E j \in DOMAIN q : w[i] = q[j]
  <2>1. CASE i \in 1 .. Len(p)
    BY <1>1, <2>1
  <2>2. CASE i \notin 1 .. Len(p)
    <3>1. i - Len(p) \in 1 .. Len(q) /\ Len(p) + (i - Len(p)) = i
      BY <1>1, <2>2
    <3>2. w[i] = q[i - Len(p)]
      BY <1>1, <3>1
    <3> QED BY <1>1, <3>1, <3>2
  <2> QED BY <2>1, <2>2
<1>3. Halts(w, table)
  BY <1>1, <1>2 DEF Halts
<1> QED BY <1>3 DEF w

LEMMA Prepended ==
  ASSUME NEW z, Program(z), Sees(z, runs), ~Releases(z),
         \A i \in DOMAIN z.todo : z.todo[i].op # "body",
         NEW p, Halts(p, runs)
  PROVE  LET y == [z EXCEPT !.todo = p \o z.todo] IN
         /\ Program(y) /\ Sees(y, runs) /\ y.kind = z.kind /\ y.run = z.run
         /\ \A r : Gives(z.todo, r) => Gives(y.todo, r)
<1> DEFINE q == z.todo
           w == p \o q
           y == [z EXCEPT !.todo = w]
           m == Len(p)
<1>1. /\ \E S : w \in Seq(S)
      /\ Len(p) \in Nat /\ Len(q) \in Nat
      /\ DOMAIN p = 1 .. Len(p) /\ DOMAIN q = 1 .. Len(q)
      /\ DOMAIN w = 1 .. Len(p) + Len(q) /\ Len(w) = Len(p) + Len(q)
      /\ \A i \in 1 .. Len(p) : w[i] = p[i]
      /\ \A i \in 1 .. Len(q) : w[Len(p) + i] = q[i]
  BY SeqUnion DEF Halts, Program
<1>2. DOMAIN y = DOMAIN Idle /\ y.todo = w /\ y.kind = z.kind /\ y.run = z.run /\ y.child = z.child
  BY Retold DEF Program
<1> HIDE DEF w, y
<1>3. ASSUME NEW i \in DOMAIN w
      PROVE  \/ i \in 1 .. m /\ w[i] = p[i]
             \/ i > m /\ i - m \in 1 .. Len(q) /\ m + (i - m) = i /\ w[i] = q[i - m]
  <2>1. CASE i \in 1 .. m
    BY <1>1, <2>1
  <2>2. CASE i \notin 1 .. m
    <3>1. i > m /\ i - m \in 1 .. Len(q) /\ m + (i - m) = i
      BY <1>1, <2>2
    <3> QED BY <1>1, <3>1
  <2> QED BY <2>1, <2>2
<1>4. ASSUME NEW i \in 1 .. m PROVE Fits(y, i)
  <2>1. w[i] = p[i] /\ Stops(p[i])
    BY <1>1 DEF Halts
  <2>2. \A j \in 1 .. i - 1 : Stops(w[j])
    BY <1>1 DEF Halts
  <2>3. w[i].op \notin Going \cup Answers \cup {"cancel", "body", "insert run", "advance", "insert", "out"}
    BY <2>1 DEF Stops, Going, Answers
  <2>4. w[i].op = "set" => w[i].status \in Statuses \ Live
    BY <2>1 DEF Stops, Statuses, Terminal, Live
  <2> QED BY <1>2, <2>2, <2>3, <2>4 DEF Fits
<1>5. ASSUME NEW i \in DOMAIN w, i > m, i - m \in 1 .. Len(q), w[i] = q[i - m] PROVE Fits(y, i)
  <2> DEFINE k == i - m
  <2>1. k \in 1 .. Len(q) /\ i = m + k /\ Fits(z, k) /\ w[i] = q[k]
    BY <1>1, <1>5 DEF Program
  <2> HIDE DEF k
  <2>2. \A r : GivesAfter(q, k, r) => GivesAfter(w, i, r)
    <3> SUFFICES ASSUME NEW r, GivesAfter(q, k, r) PROVE GivesAfter(w, i, r)
      OBVIOUS
    <3>1. PICK j \in 1 .. Len(q) : j > k /\ q[j] = Of("launch", r)
      BY <1>1 DEF GivesAfter
    <3>2. m + j \in DOMAIN w /\ m + j > i /\ w[m + j] = Of("launch", r)
      BY <1>1, <2>1, <3>1
    <3> QED BY <3>2 DEF GivesAfter
  <2>3. ASSUME w[i].op = "request", NEW j \in 1 .. i - 1 PROVE Stops(w[j])
    <3>1. CASE j \in 1 .. m
      BY <1>1, <3>1 DEF Halts
    <3>2. CASE j \notin 1 .. m
      <4>1. j - m \in 1 .. k - 1 /\ j - m \in 1 .. Len(q) /\ m + (j - m) = j
        BY <1>1, <2>1, <3>2
      <4>2. w[j] = q[j - m]
        BY <1>1, <4>1
      <4> QED BY <2>1, <2>3, <4>1, <4>2 DEF Fits
    <3> QED BY <3>1, <3>2
  <2>4. w[i].op \in Going \cup Answers \cup {"cancel"} => i = Len(w)
    <3>1. w[i].op \in Going \cup Answers \cup {"cancel"} => k = Len(q)
      BY <2>1 DEF Fits
    <3> QED BY <1>1, <2>1, <3>1
  <2>5. (w[i].op \in Going => z.kind = "exec") /\ (w[i].op \in Answers \cup {"cancel"} => z.kind = "call")
    BY <2>1 DEF Fits
  <2>6. w[i].op = "out" => w[i].outcome \in Verdicts
    BY <2>1 DEF Fits
  <2>7. w[i].op = "set" => /\ w[i].status \in Statuses
                           /\ w[i].status \in Live => (z.kind = "exec" /\ w[i].run = z.run) \/ GivesAfter(w, i, w[i].run)
    BY <2>1, <2>2 DEF Fits
  <2>8. /\ w[i].op \in {"insert run", "advance"} => GivesAfter(w, i, z.run)
        /\ w[i].op = "insert" => z.child \in Runs /\ GivesAfter(w, i, z.child)
    BY <2>1, <2>2 DEF Fits
  <2>9. w[i].op # "body"
    BY <1>1, <2>1
  <2> QED BY <1>2, <2>3, <2>4, <2>5, <2>6, <2>7, <2>8, <2>9 DEF Fits
<1>6. ASSUME z.kind = "exec" PROVE EndsWell(z.run, w) /\ ~Releases(y)
  <2>1. EndsWell(z.run, q)
    BY <1>6 DEF Program
  <2>2. PICK S : q \in Seq(S)
    BY DEF Program
  <2>3. Len(q) > 0 /\ w[Len(w)] = q[Len(q)] /\ w # <<>>
    BY <1>1, <2>1, <2>2, Slots1 DEF EndsWell
  <2>4. q # <<Of("release", z.run)>>
    BY <1>6 DEF Releases
  <2>5. Len(q) = 1 => q[Len(q)] # Of("release", z.run)
    BY <2>2, <2>4
  <2>6. ASSUME Len(q) > 1 PROVE Len(w) > 1 /\ w[Len(w) - 1] = q[Len(q) - 1]
    <3>1. Len(q) - 1 \in 1 .. Len(q) /\ m + (Len(q) - 1) = Len(w) - 1
      BY <1>1, <2>6
    <3>2. w[m + (Len(q) - 1)] = q[Len(q) - 1]
      BY <1>1, <3>1
    <3>3. Len(w) > 1
      BY <1>1, <2>6
    <3> QED BY <3>1, <3>2, <3>3
  <2>7. CASE q[Len(q)] = Of("release", z.run)
    <3>0. Len(q) # 1 /\ Len(q) > 0 /\ Len(q) \in Nat
      BY <1>1, <2>3, <2>5, <2>7
    <3>1. Len(q) > 1
      <4>1. \A k \in Nat : k # 1 /\ k > 0 => k > 1
        OBVIOUS
      <4> HIDE DEF q
      <4> QED BY <3>0, <4>1
    <3>2. q[Len(q)].op \notin Going
      BY <2>7 DEF Of, Going
    <3>3. \E status \in Terminal : q[Len(q) - 1] = Set(z.run, status)
      BY <2>1, <3>1, <3>2 DEF EndsWell
    <3>4. EndsWell(z.run, w)
      BY <2>3, <2>6, <2>7, <3>1, <3>3 DEF EndsWell
    <3>5. w # <<Of("release", z.run)>>
      <4> SUFFICES ASSUME w = <<Of("release", z.run)>> PROVE FALSE
        OBVIOUS
      <4>1. Len(w) = 1
        OBVIOUS
      <4>2. Len(w) > 1
        BY <2>6, <3>1
      <4> QED BY <4>1, <4>2
    <3> QED BY <1>2, <3>4, <3>5 DEF Releases
  <2>8. CASE q[Len(q)].op \in Going
    <3>1. w[Len(w)].op # "release"
      BY <2>3, <2>8 DEF Going
    <3>2. w # <<Of("release", z.run)>>
      BY <3>1 DEF Of
    <3> QED BY <1>2, <2>3, <2>8, <3>2 DEF EndsWell, Releases
  <2> QED BY <2>1, <2>7, <2>8 DEF EndsWell
<1>7. Program(y)
  <2>1. \A i \in DOMAIN w : Fits(y, i)
    BY <1>3, <1>4, <1>5
  <2> QED BY <1>1, <1>2, <1>6, <2>1 DEF Program
<1>8. ASSUME NEW i \in DOMAIN w
      PROVE  /\ w[i].op = "request" => Known(w[i].run, runs) /\ runs[w[i].run].status \notin Waiting
             /\ w[i].op = "cascade" => Known(w[i].run, runs)
             /\ w[i].op = "cancel" => Known(z.run, runs)
             /\ w[i].op \in {"poll", "nap"} => Known(z.child, runs) \/ \E j \in DOMAIN w : w[j].op = "insert"
  <2>1. CASE i \in 1 .. m /\ w[i] = p[i]
    <3>1. i \in DOMAIN p
      BY <1>1, <2>1
    <3>2. w[i].op \notin {"cancel", "poll", "nap"}
      BY <2>1, <3>1 DEF Halts, Stops
    <3> QED BY <2>1, <3>1, <3>2 DEF Halts
  <2>2. CASE i - m \in 1 .. Len(q) /\ w[i] = q[i - m]
    <3>1. i - m \in DOMAIN q
      BY <1>1, <2>2
    <3>2. ASSUME NEW j \in DOMAIN q, q[j].op = "insert" PROVE \E k \in DOMAIN w : w[k].op = "insert"
      <4>1. m + j \in DOMAIN w /\ w[m + j] = q[j]
        BY <1>1
      <4> QED BY <3>2, <4>1
    <3> QED BY <2>2, <3>1, <3>2 DEF Sees
  <2> QED BY <1>3, <2>1, <2>2
<1>9. Sees(y, runs)
  <2>1. ~Releases(y)
    BY <1>2, <1>6 DEF Releases
  <2> QED BY <1>2, <1>8, <2>1 DEF Sees
<1>10. ASSUME NEW r, Gives(q, r) PROVE Gives(w, r)
  <2>1. PICK j \in 1 .. Len(q) : q[j] = Of("launch", r)
    BY <1>1, <1>10 DEF Gives
  <2>2. m + j \in DOMAIN w /\ w[m + j] = Of("launch", r)
    BY <1>1, <2>1
  <2> QED BY <2>2 DEF Gives
<1> QED BY <1>2, <1>7, <1>9, <1>10 DEF y, w

LEMMA RestThere ==
  ASSUME NEW x, Program(x), x.todo # <<>>, Head(x.todo).op \notin Going \cup {"release"}, x.kind = "exec"
  PROVE  Tail(x.todo) # <<>>
<1> SUFFICES ASSUME Tail(x.todo) = <<>> PROVE FALSE
  OBVIOUS
<1>1. PICK S : x.todo \in Seq(S)
  BY DEF Program
<1>2. Len(Tail(x.todo)) = 0
  BY <1>1, Slots1
<1>3. Len(x.todo) = 1 /\ Head(x.todo) = x.todo[1]
  BY <1>1, <1>2, Slots1
<1>4. Of("release", x.run).op = "release"
  BY DEF Of
<1> QED BY <1>3, <1>4 DEF Program, EndsWell

(* What is to be launched still is, behind any other statement.            *)
LEMMA RestGives ==
  ASSUME NEW x, Program(x), x.todo # <<>>, Head(x.todo).op # "launch", NEW r, Gives(x.todo, r)
  PROVE  Gives(Tail(x.todo), r)
<1>1. PICK S : x.todo \in Seq(S)
  BY DEF Program
<1>2. /\ Len(x.todo) \in Nat \ {0} /\ DOMAIN x.todo = 1 .. Len(x.todo) /\ Head(x.todo) = x.todo[1]
      /\ DOMAIN Tail(x.todo) = 1 .. Len(x.todo) - 1
      /\ \A i \in 1 .. Len(x.todo) - 1 : Tail(x.todo)[i] = x.todo[i + 1]
  BY <1>1, Slots1
<1>3. PICK i \in DOMAIN x.todo : x.todo[i] = Of("launch", r)
  BY DEF Gives
<1>4. i # 1
  BY <1>2, <1>3 DEF Of
<1>5. i - 1 \in DOMAIN Tail(x.todo) /\ Tail(x.todo)[i - 1] = Of("launch", r)
  BY <1>2, <1>3, <1>4
<1> QED BY <1>5 DEF Gives

LEMMA HaltsGoes ==
  ASSUME Inv, NEW t \in Slots, NEW op \in {"cancel", "cascade"}, At(t, op), NEW p, Then(t, p),
         Halts(p, runs), UNCHANGED <<runs, Process>>
  PROVE  Inv'
<1> DEFINE x == th[t]
           z == [x EXCEPT !.todo = Tail(x.todo)]
           y == [z EXCEPT !.todo = p \o z.todo]
<1>1. /\ Current(t) /\ x.todo # <<>> /\ Head(x.todo).op = op /\ Program(x) /\ Sees(x, runs)
  BY FirstFits DEF First
<1>2. op \notin Going \cup {"release", "launch", "set", "insert"}
  BY DEF Going
<1>3. x.kind = "exec" => Tail(x.todo) # <<>>
  BY <1>1, <1>2, RestThere
<1>4. /\ DOMAIN z = DOMAIN Idle /\ z.todo = Tail(x.todo) /\ z.kind = x.kind /\ z.run = x.run
      /\ y = [x EXCEPT !.todo = p \o Tail(x.todo)]
  <2>1. DOMAIN x = DOMAIN Idle
    BY <1>1 DEF Program
  <2> QED BY <2>1 DEF Idle
<1>5. Becomes(t, y)
  BY <1>4 DEF Then, Goes, Rest
<1>6. \A status : Head(x.todo) # Set(x.run, status)
  BY <1>1, <1>2 DEF Set
<1> HIDE DEF x
<1>7. Program(z) /\ ~Releases(z) /\ \A i \in DOMAIN z.todo : z.todo[i].op # "body"
  BY <1>1, <1>3, <1>6, RestFits
<1>8. Sees(z, runs)
  BY <1>1, <1>2, <1>3, <1>6, RestSees
<1> HIDE DEF z
<1>9. /\ Program(y) /\ Sees(y, runs) /\ y.kind = z.kind /\ y.run = z.run
      /\ \A r : Gives(z.todo, r) => Gives(y.todo, r)
  BY <1>7, <1>8, Prepended
<1>10. \A r : Gives(x.todo, r) => Gives(z.todo, r)
  BY <1>1, <1>2, <1>4, RestGives
<1>11. Answerable(y, runs')
  BY SameTable
<1> HIDE DEF y
<1> QED BY <1>1, <1>4, <1>5, <1>9, <1>10, <1>11, TurnKeeps DEF x

LEMMA HaltsOne ==
  ASSUME NEW table, NEW e, Stops(e), e.op = "request" => Known(e.run, table) /\ table[e.run].status \notin Waiting,
         e.op = "cascade" => Known(e.run, table)
  PROVE  Halts(<<e>>, table)
<1> DEFINE p == <<e>>
<1>1. p \in Seq({e}) /\ DOMAIN p = {1} /\ p[1] = e
  OBVIOUS
<1> HIDE DEF p
<1>2. Halts(p, table)
  BY <1>1 DEF Halts
<1> QED BY <1>2 DEF p

LEMMA CancelledHalts ==
  ASSUME NEW r, Known(r, runs)
  PROVE  Halts(Cancelled(r), runs)
<1>1. /\ Of("invalidate", r).op = "invalidate" /\ Ev(r, "run.cancelled", 0).op = "append"
      /\ Set(r, "cancelled").op = "set" /\ Set(r, "cancelled").status \in Terminal
      /\ Of("release", r).op = "release" /\ Of("abort", r).op = "abort"
      /\ Of("request", r).op = "request" /\ Of("request", r).run = r
  BY DEF Of, Ev, Set, Terminal
<1>2. /\ Halts(<<Of("invalidate", r)>>, runs) /\ Halts(<<Ev(r, "run.cancelled", 0)>>, runs)
      /\ Halts(<<Set(r, "cancelled")>>, runs) /\ Halts(<<Of("release", r)>>, runs)
      /\ Halts(<<Of("abort", r)>>, runs)
  BY <1>1, HaltsOne DEF Stops
<1>3. CASE runs[r].status \in Waiting
  <2>1. Halts(Ends(r, "cancelled"), runs)
    BY <1>2, HaltsBoth, Two DEF Ends
  <2>2. Halts(Cancels(r), runs)
    BY <1>2, <2>1, HaltsBoth DEF Cancels
  <2>3. Halts(EndWaiting(r), runs)
    BY <1>2, <2>2, HaltsBoth DEF EndWaiting
  <2> QED BY <1>3, <2>3 DEF Cancelled
<1>4. CASE runs[r].status \notin Waiting
  <2>1. Halts(<<Of("request", r)>>, runs)
    BY <1>1, <1>4, HaltsOne DEF Stops
  <2>2. Halts(Ask(r), runs)
    BY <1>2, <2>1, HaltsBoth, Two DEF Ask
  <2> QED BY <1>4, <2>2 DEF Cancelled
<1> QED BY <1>3, <1>4

LEMMA NoneHalts == Halts(<<>>, runs)
<1>1. <<>> \in Seq({}) /\ DOMAIN <<>> = {}
  BY Slots1
<1> QED BY <1>1 DEF Halts

LEMMA CancelRunInternalStep ==
  ASSUME Inv, NEW t \in Slots, CancelRunInternal(t)
  PROVE  Inv'
<1> DEFINE c == First(t).run
<1>1. /\ At(t, "cascade") /\ UNCHANGED <<runs, Process>>
      /\ \E p \in {<<>>, Cancelled(c)} : Then(t, p)
  BY DEF CancelRunInternal, Tables, Process
<1>2. First(t).op = "cascade" /\ First(t) = th[t].todo[1] /\ 1 \in DOMAIN th[t].todo /\ Sees(th[t], runs)
  BY <1>1, FirstFits
<1>3. Known(c, runs)
  BY <1>2 DEF Sees
<1>4. Halts(<<>>, runs) /\ Halts(Cancelled(c), runs)
  BY <1>3, CancelledHalts, NoneHalts
<1> QED BY <1>1, <1>4, HaltsGoes

LEMMA CancelStep ==
  ASSUME Inv, NEW t \in Slots, Cancel(t)
  PROVE  Inv'
<1> DEFINE r == th[t].run
           S == {c \in Kids : runs[c].parent.run = r /\ runs[c].status \notin Terminal \cup {"none"}}
           live == SetToSeq(S)
           each == [i \in DOMAIN live |-> Of("cascade", live[i])]
<1>1. /\ At(t, "cancel") /\ UNCHANGED <<runs, Process>>
      /\ \E p \in {<<>>, each \o Cancelled(r)} : Then(t, p)
  BY DEF Cancel, Tables, Process
<1>2. First(t).op = "cancel" /\ First(t) = th[t].todo[1] /\ 1 \in DOMAIN th[t].todo /\ Sees(th[t], runs)
  BY <1>1, FirstFits
<1>3. Known(r, runs)
  BY <1>2 DEF Sees
<1>4. IsFiniteSet(S)
  BY FiniteRuns, FS_Subset
<1>5. \A c \in S : Known(c, runs)
  BY DEF Known, Runs
<1> HIDE DEF S, r
<1>6. live \in Seq(S) /\ \A i \in DOMAIN live : live[i] \in S
  BY <1>4, Listed
<1> HIDE DEF live
<1>7. Len(live) \in Nat /\ DOMAIN live = 1 .. Len(live)
  BY <1>6
<1>8. \E T : each \in Seq(T)
  <2> DEFINE T == {Of("cascade", c) : c \in S}
  <2>1. each \in [1 .. Len(live) -> T]
    BY <1>6, <1>7
  <2> HIDE DEF each, T
  <2>2. each \in Seq(T)
    BY <1>7, <2>1
  <2> QED BY <2>2
<1>9. Halts(each, runs)
  <2>1. \A i \in DOMAIN each : i \in DOMAIN live /\ each[i] = Of("cascade", live[i])
    OBVIOUS
  <2> HIDE DEF each
  <2>2. \A i \in DOMAIN each : each[i].op = "cascade" /\ Known(each[i].run, runs)
    BY <1>5, <1>6, <2>1 DEF Of
  <2> QED BY <1>8, <2>2 DEF Halts, Stops
<1> HIDE DEF each
<1>10. Halts(<<>>, runs) /\ Halts(each \o Cancelled(r), runs)
  BY <1>3, <1>9, CancelledHalts, NoneHalts, HaltsBoth
<1> QED BY <1>1, <1>10, HaltsGoes

-----------------------------------------------------------------------------
(* Answering                                                               *)

(* What a handler does once its interrupt is answered.                     *)
Replies(r, p) ==
  /\ \E S : p \in Seq(S)
  /\ \A i \in DOMAIN p :
       /\ p[i].op \in {"append", "set", "advance", "launch", "release"}
       /\ p[i].op = "set" => p[i].status \in Statuses /\ (p[i].status \in Live => GivesAfter(p, i, p[i].run))
       /\ p[i].op = "advance" => GivesAfter(p, i, r)

LEMMA RepliesOne ==
  ASSUME NEW r, NEW e, e.op \in {"append", "launch", "release"} \/ (e.op = "set" /\ e.status \in Terminal)
  PROVE  Replies(r, <<e>>)
<1> DEFINE p == <<e>>
<1>1. p \in Seq({e}) /\ DOMAIN p = {1} /\ p[1] = e
  OBVIOUS
<1>2. \A status \in Terminal : status \in Statuses \ Live
  BY DEF Statuses, Terminal, Live
<1> HIDE DEF p
<1>3. Replies(r, p)
  BY <1>1, <1>2 DEF Replies
<1> QED BY <1>3 DEF p

(* A statement that makes a run go on, and the launch after it.            *)
LEMMA RepliesLaunch ==
  ASSUME NEW r, NEW e,
         e.op = "advance" \/ (e.op = "set" /\ e.run = r /\ e.status \in Live)
  PROVE  Replies(r, <<e, Of("launch", r)>>)
<1> DEFINE d == Of("launch", r)
           p == <<e, d>>
<1>1. p \in Seq({e, d}) /\ DOMAIN p = 1 .. 2 /\ p[1] = e /\ p[2] = d
  OBVIOUS
<1>2. d.op = "launch" /\ Live \subseteq Statuses
  BY DEF Of, Statuses
<1> HIDE DEF p
<1>3. GivesAfter(p, 1, r)
  BY <1>1 DEF GivesAfter
<1> HIDE DEF d
<1>4. Replies(r, p)
  <2>1. \A i \in DOMAIN p : (i = 1 /\ p[i] = e) \/ p[i].op = "launch"
    BY <1>1, <1>2
  <2> QED BY <1>1, <1>2, <1>3, <2>1 DEF Replies
<1> QED BY <1>4 DEF p, d

LEMMA RepliesBoth ==
  ASSUME NEW r, NEW p, Replies(r, p), NEW q, Replies(r, q)
  PROVE  Replies(r, p \o q)
<1> DEFINE w == p \o q
           m == Len(p)
<1>1. /\ \E S : w \in Seq(S)
      /\ m \in Nat /\ Len(q) \in Nat
      /\ DOMAIN p = 1 .. m /\ DOMAIN q = 1 .. Len(q) /\ DOMAIN w = 1 .. m + Len(q)
      /\ \A i \in 1 .. m : w[i] = p[i]
      /\ \A i \in 1 .. Len(q) : w[m + i] = q[i]
  BY SeqUnion DEF Replies
<1> HIDE DEF w, m
<1>2. ASSUME NEW i \in DOMAIN p
      PROVE  /\ i \in DOMAIN w /\ w[i] = p[i]
             /\ \A s : GivesAfter(p, i, s) => GivesAfter(w, i, s)
  <2>1. \A j \in DOMAIN p : j \in DOMAIN w /\ w[j] = p[j]
    BY <1>1
  <2> QED BY <2>1 DEF GivesAfter
<1>3. ASSUME NEW k \in DOMAIN q
      PROVE  /\ m + k \in DOMAIN w /\ w[m + k] = q[k]
             /\ \A s : GivesAfter(q, k, s) => GivesAfter(w, m + k, s)
  <2>1. \A j \in DOMAIN q : m + j \in DOMAIN w /\ w[m + j] = q[j] /\ (j > k => m + j > m + k)
    BY <1>1
  <2> QED BY <2>1 DEF GivesAfter
<1>4. ASSUME NEW i \in DOMAIN w PROVE i \in DOMAIN p \/ \E k \in DOMAIN q : i = m + k
  <2>1. CASE i \in 1 .. m
    BY <1>1, <2>1
  <2>2. CASE i \notin 1 .. m
    <3>1. i - m \in 1 .. Len(q) /\ i = m + (i - m)
      BY <1>1, <2>2
    <3> QED BY <1>1, <3>1
  <2> QED BY <2>1, <2>2
<1>5. ASSUME NEW i \in DOMAIN w
      PROVE  /\ w[i].op \in {"append", "set", "advance", "launch", "release"}
             /\ w[i].op = "set" => w[i].status \in Statuses /\ (w[i].status \in Live => GivesAfter(w, i, w[i].run))
             /\ w[i].op = "advance" => GivesAfter(w, i, r)
  <2>1. CASE i \in DOMAIN p
    BY <1>2, <2>1 DEF Replies
  <2>2. ASSUME NEW k \in DOMAIN q, i = m + k
        PROVE  /\ w[i].op \in {"append", "set", "advance", "launch", "release"}
               /\ w[i].op = "set" => w[i].status \in Statuses /\ (w[i].status \in Live => GivesAfter(w, i, w[i].run))
               /\ w[i].op = "advance" => GivesAfter(w, i, r)
    <3>1. w[i] = q[k] /\ \A s : GivesAfter(q, k, s) => GivesAfter(w, i, s)
      BY <1>3, <2>2
    <3> QED BY <3>1 DEF Replies
  <2> QED BY <1>4, <2>1, <2>2
<1>6. Replies(r, w)
  BY <1>1, <1>5 DEF Replies
<1> QED BY <1>6 DEF w

LEMMA RepliesAll ==
  ASSUME NEW r, NEW n
  PROVE  /\ Replies(r, Resumes(r, n)) /\ Replies(r, Recorded(r, n) \o Resumes(r, n))
         /\ Replies(r, Recorded(r, n) \o <<Set(r, "running"), Of("launch", r)>>)
         /\ Replies(r, Recorded(r, n) \o <<Ev(r, "node.completed", n)>> \o Fails(r))
         /\ Replies(r, <<Ev(r, "interrupt.vote", n)>>) /\ Replies(r, <<>>)
<1>1. \A type, k : Replies(r, <<Ev(r, type, k)>>)
  BY Statements, RepliesOne
<1>2. Replies(r, <<Set(r, "failed")>>) /\ Replies(r, <<Of("release", r)>>)
  <2>1. Set(r, "failed").op = "set" /\ Set(r, "failed").status \in Terminal /\ Of("release", r).op = "release"
    BY DEF Set, Of, Terminal
  <2> QED BY <2>1, RepliesOne
<1>3. Replies(r, Fails(r))
  <2>1. Replies(r, Ends(r, "failed"))
    BY <1>2, RepliesBoth, Two DEF Ends
  <2> QED BY <1>1, <2>1, RepliesBoth DEF Fails
<1>4. Replies(r, <<Do("advance"), Of("launch", r)>>) /\ Replies(r, <<Set(r, "running"), Of("launch", r)>>)
  <2>1. Do("advance").op = "advance" /\ Set(r, "running").op = "set" /\ Set(r, "running").run = r
        /\ Set(r, "running").status \in Live
    BY DEF Do, Set, Live
  <2> QED BY <2>1, RepliesLaunch
<1>5. Replies(r, Resumes(r, n))
  <2>1. Replies(r, <<Ev(r, "node.resumed", n), Ev(r, "node.completed", n)>>)
    BY <1>1, RepliesBoth, Two
  <2>2. Replies(r, <<Ev(r, "node.resumed", n), Ev(r, "node.completed", n)>> \o <<Do("advance"), Of("launch", r)>>)
    BY <1>4, <2>1, RepliesBoth
  <2>3. Resumes(r, n) = <<Ev(r, "node.resumed", n), Ev(r, "node.completed", n)>> \o <<Do("advance"), Of("launch", r)>>
    BY DEF Resumes
  <2> QED BY <2>2, <2>3
<1>6. Replies(r, Recorded(r, n))
  BY <1>1 DEF Recorded
<1>7. Replies(r, (Recorded(r, n) \o <<Ev(r, "node.completed", n)>>) \o Fails(r))
  BY <1>1, <1>3, <1>6, RepliesBoth
<1>8. Replies(r, <<>>)
  <2>1. <<>> \in Seq({}) /\ DOMAIN <<>> = {}
    BY Slots1
  <2> QED BY <2>1 DEF Replies
<1> QED BY <1>1, <1>4, <1>5, <1>6, <1>7, <1>8, RepliesBoth

LEMMA HandlerGoes ==
  ASSUME Inv, NEW t \in Slots, NEW op \in Answers, At(t, op), NEW p, Goes(t, p), Replies(th[t].run, p),
         UNCHANGED <<runs, Process>>
  PROVE  Inv'
<1> DEFINE y == [th[t] EXCEPT !.todo = p]
<1>1. /\ Current(t) /\ th[t].todo # <<>> /\ Head(th[t].todo).op = op /\ First(t) = th[t].todo[1]
      /\ First(t).op = op /\ Fits(th[t], 1) /\ Program(th[t])
  BY FirstFits DEF First
<1>2. th[t].kind = "call"
  BY <1>1 DEF Fits
<1>3. Len(th[t].todo) = 1 /\ DOMAIN th[t].todo = {1} /\ First(t).op # "launch"
  BY <1>1, Started DEF Answers
<1>4. DOMAIN y = DOMAIN Idle /\ y.todo = p /\ y.kind = "call" /\ y.run = th[t].run
  BY <1>1, <1>2, Retold DEF Program
<1>5. Becomes(t, y) /\ Answerable(y, runs')
  BY SameTable DEF Goes
<1> HIDE DEF y
<1>6. \A i \in DOMAIN p : p[i].op \notin Going \cup Answers \cup {"cancel", "body", "insert run", "insert", "request", "cascade", "out", "poll", "nap"}
  BY DEF Replies, Going, Answers
<1>7. \A i \in DOMAIN p : Fits(y, i)
  BY <1>4, <1>6 DEF Fits, Replies
<1>8. Program(y)
  BY <1>4, <1>7 DEF Program, Replies
<1>9. Sees(y, runs')
  BY <1>4, <1>6 DEF Sees, Releases
<1>10. \A r : ~Gives(th[t].todo, r)
  BY <1>1, <1>3 DEF Gives, Of
<1> QED BY <1>1, <1>2, <1>4, <1>5, <1>8, <1>9, <1>10, TurnKeeps

LEMMA ResolveSteps ==
  ASSUME Inv, NEW t \in Slots,
         ResolveApproval(t) \/ ResolveClarification(t) \/ ResolveExternalEvent(t)
  PROVE  Inv'
<1> DEFINE r == th[t].run
           n == th[t].node
           Possible == {<<>>, Resumes(r, n), Recorded(r, n) \o Resumes(r, n),
                         Recorded(r, n) \o <<Set(r, "running"), Of("launch", r)>>,
                         Recorded(r, n) \o <<Ev(r, "node.completed", n)>> \o Fails(r),
                         <<Ev(r, "interrupt.vote", n)>>}
<1>1. \A p \in Possible : Replies(r, p)
  BY RepliesAll
<1> HIDE DEF Possible
<1>2. \E op \in Answers : At(t, op) /\ UNCHANGED <<runs, Process>>
  BY DEF ResolveApproval, ResolveClarification, ResolveExternalEvent, Answers, Process
<1>3. \E p \in Possible : Goes(t, p)
  <2>1. CASE ResolveApproval(t)
    BY <2>1 DEF ResolveApproval, Possible
  <2>2. CASE ResolveClarification(t)
    BY <2>2 DEF ResolveClarification, Possible
  <2>3. CASE ResolveExternalEvent(t)
    BY <2>3 DEF ResolveExternalEvent, Possible
  <2> QED BY <2>1, <2>2, <2>3
<1> QED BY <1>1, <1>2, <1>3, HandlerGoes

-----------------------------------------------------------------------------
(* Waking, claiming and giving up a claim                                  *)

LEMMA AbortStep ==
  ASSUME Inv, NEW t \in Slots, Abort(t)
  PROVE  Inv'
<1> DEFINE x == th[t]
           woken == Executors(First(t).run)
           asleep == {s \in woken \ {t} : ~th[s].aborted /\ (Parked(s, "sleep") \/ Parked(s, "nap"))}
           y == [x EXCEPT !.todo = Tail(x.todo)]
<1>1. /\ At(t, "abort") /\ UNCHANGED <<runs, Process>>
      /\ th' = [s \in Slots |-> IF s = t THEN (IF y.todo = <<>> THEN Idle ELSE y)
                                ELSE IF s \in woken THEN [th[s] EXCEPT !.aborted = TRUE] ELSE th[s]]
      /\ queue' = After(y) \o SetToSeq(asleep)
  BY DEF Abort, Tables, Process, Rest
<1>2. /\ Current(t) /\ x.todo # <<>> /\ Head(x.todo).op = "abort" /\ Program(x) /\ Sees(x, runs)
  BY <1>1, FirstFits DEF First
<1>3. "abort" \notin Going \cup {"release", "launch", "set", "insert"}
  BY DEF Going
<1>4. x.kind = "exec" => Tail(x.todo) # <<>>
  BY <1>2, <1>3, RestThere
<1>5. /\ y.todo = Tail(x.todo) /\ y.kind = x.kind /\ y.run = x.run
  BY <1>2, Retold DEF Program
<1>6. \A status : Head(x.todo) # Set(x.run, status)
  BY <1>2, <1>3 DEF Set
<1>7. SetToSeq(asleep) \in Seq(Slots)
  <2>1. asleep \subseteq Slots
    BY DEF Executors
  <2> HIDE DEF asleep
  <2>2. SetToSeq(asleep) \in Seq(asleep)
    BY <2>1, FiniteRuns, FS_Subset, Listed
  <2> QED BY <2>1, <2>2
<1>8. \A u \in Slots : DOMAIN th[u] = DOMAIN Idle
  BY DEF Inv, Programs, Proper, Program
<1>9. ASSUME NEW u \in Slots \ {t} PROVE Alike(th[u], th'[u])
  <2>1. th'[u] = th[u] \/ th'[u] = [th[u] EXCEPT !.aborted = TRUE]
    BY <1>1
  <2> QED BY <1>8, <2>1 DEF Alike, Idle
<1> HIDE DEF x, asleep
<1>10. Program(y)
  BY <1>2, <1>4, RestFits
<1>11. Sees(y, runs')
  BY <1>1, <1>2, <1>3, <1>4, <1>6, RestSees
<1>12. \A r : Gives(x.todo, r) => Gives(y.todo, r)
  BY <1>2, <1>3, <1>5, RestGives
<1>13. Answerable(y, runs')
  BY <1>1, SameTable
<1> HIDE DEF y
<1>14. DOMAIN th' = Slots /\ th'[t] = (IF y.todo = <<>> THEN Idle ELSE y)
  BY <1>1
<1> QED BY <1>1, <1>2, <1>5, <1>7, <1>9, <1>10, <1>11, <1>12, <1>13, <1>14, TurnWakes DEF x

(* Nobody launches a run that is not free to be claimed.                   *)
LEMMA ClaimedIsCovered ==
  ASSUME Inv, up, NEW r \in Runs, ~Claimable(r), runs[r].status \in Live
  PROVE  Executors(r) # {} \/ runs[r].holder \notin {0, life}
<1>1. runs[r].holder # 0
  BY DEF Claimable, Live, Terminal
<1> QED BY <1>1 DEF Inv, Held

LEMMA ReleaseClaimStep ==
  ASSUME Inv, NEW t \in Slots, ReleaseClaim(t)
  PROVE  Inv'
<1> DEFINE x == th[t]
           c == First(t).run
           y == [x EXCEPT !.todo = Tail(x.todo)]
           z == IF y.todo = <<>> THEN Idle ELSE y
<1>1. /\ At(t, "release") /\ UNCHANGED Process /\ Then(t, <<>>)
      /\ runs' = IF runs[c].holder = life THEN [runs EXCEPT ![c].holder = 0, ![c].fresh = FALSE] ELSE runs
  BY DEF ReleaseClaim
<1>2. /\ Current(t) /\ x.todo # <<>> /\ Head(x.todo).op = "release" /\ Program(x) /\ Sees(x, runs)
      /\ Head(x.todo) = First(t) /\ x.todo[1] = First(t)
      /\ Len(x.todo) \in Nat \ {0} /\ DOMAIN x.todo = 1 .. Len(x.todo)
  BY <1>1, FirstFits DEF First
<1>3. /\ y.todo = Tail(x.todo) /\ y.kind = x.kind /\ y.run = x.run /\ DOMAIN y = DOMAIN Idle
  BY <1>2, Retold DEF Program
<1>4. Becomes(t, y)
  <2>1. PICK S : x.todo \in Seq(S)
    BY <1>2 DEF Program
  <2>2. <<>> \o Rest(t) = Tail(x.todo)
    BY <1>2, <2>1, Slots1, Joined DEF Rest
  <2> QED BY <1>1, <2>2 DEF Then, Goes
<1>5. /\ DOMAIN th' = Slots /\ th'[t] = z /\ \A u \in Slots \ {t} : th'[u] = th[u]
      /\ queue' = After(y) /\ life' = life /\ up' = up /\ up
  BY <1>1, <1>2, <1>4 DEF Becomes, Inv, Typed, Process, Current
<1>6. /\ Tabled(runs')
      /\ \A r \in Runs : /\ runs'[r].status = runs[r].status
                         /\ \/ runs'[r].holder = runs[r].holder
                            \/ r = c /\ runs[r].holder = life /\ runs'[r].holder = 0
  <2>1. CASE runs' = [runs EXCEPT ![c].holder = 0, ![c].fresh = FALSE] /\ runs[c].holder = life
    <3> HIDE DEF c
    <3> QED BY <2>1, RowsTyped DEF Tabled, RunFields
  <2>2. CASE runs' = runs
    BY <2>2 DEF Inv, Typed
  <2> QED BY <1>1, <2>1, <2>2
<1>7. x.kind \in {"call", "exec"} /\ \A u \in Slots \ {t} : Proper(th[u]) /\ Sees(th[u], runs) /\ ~Urgent(th[u])
  BY <1>2 DEF Inv, Programs, Proper, Current
(* Where the rest is a program, and where an executor is over.             *)
<1>8. CASE x.kind = "exec" /\ Tail(x.todo) = <<>>
  <2>1. PICK S : x.todo \in Seq(S)
    BY <1>2 DEF Program
  <2>2. Len(x.todo) = 1
    <3>1. Len(Tail(x.todo)) = 0
      BY <1>8, <2>1, Slots1
    <3> QED BY <1>2, <2>1, <3>1, Slots1
  <2>3. x.todo[1] = Of("release", x.run)
    BY <1>2, <1>8, <2>2 DEF Program, EndsWell, Going
  <2>4. c = x.run /\ x.todo = <<Of("release", x.run)>>
    <3>1. c = x.run
      BY <1>2, <2>3 DEF Of
    <3>2. x.todo = <<Of("release", x.run)>>
      BY <2>1, <2>2, <2>3
    <3> QED BY <3>1, <3>2
  <2>5. x.run \in Runs => runs[x.run].status \notin Live
    BY <1>2, <1>8, <2>4 DEF Sees, Releases
  <2>6. queue' = After(Idle) /\ th'[t] = Idle
    BY <1>3, <1>5, <1>8, IdleProper DEF After
  <2>7. queue' \in Seq(Slots) /\ \A u \in Slots \ {t} : Queued(u) => Queued(u)'
    <3>1. /\ After(Idle) \in Seq(Slots)
          /\ \A u \in Slots \ {t} : Queued(u) => Within(After(Idle), u)
      BY <1>2, IdleProper, AfterKeeps DEF Inv, Typed, Proper
    <3> QED BY <2>6, <3>1 DEF Queued
  <2>8. Typed'
    BY <1>5, <1>6, <2>7 DEF Inv, Typed
  <2>9. Programs'
    <3>1. ASSUME NEW u \in Slots \ {t} PROVE Sees(th[u], runs')
      BY <1>6, <1>7, OthersSee
    <3> QED BY <1>5, <1>7, <2>6, <3>1, IdleProper, IdleSees DEF Programs
  <2>10. \A r, u : ~(u = t /\ Gives(x.todo, r))
    BY <1>2, <2>2 DEF Gives, Of
  <2>11. ASSUME NEW r \in Runs PROVE Covered(r)' /\ Held(r)'
    <3>1. Covered(r) /\ Held(r) /\ (Awaited(r) => Awaited(r)')
      BY <1>5, <2>7, <2>10 DEF Inv, Awaited
    <3>2. CASE r = x.run
      <4>1. runs'[r].status \notin Live
        BY <1>6, <2>5, <3>2
      <4>2. runs'[r].holder # life
        <5>1. runs[r].holder = life => runs'[r].holder = 0
          <6> HIDE DEF c
          <6>1. CASE runs[r].holder = life
            <7>1. runs' = [runs EXCEPT ![c].holder = 0, ![c].fresh = FALSE]
              BY <1>1, <2>4, <3>2, <6>1
            <7> QED BY <2>4, <3>2, <7>1, RowsTyped DEF RunFields
          <6> QED BY <6>1
        <5> QED BY <1>6, <5>1 DEF Inv, Typed
      <4> QED BY <1>5, <4>1, <4>2 DEF Covered, Held
    <3>3. CASE r # x.run
      <4>1. Executors(r)' = Executors(r)
        BY <1>5, <2>6, <3>3, IdleProper DEF Executors
      <4>2. runs'[r].holder = runs[r].holder /\ runs'[r].status = runs[r].status
        BY <1>6, <2>4, <3>3
      <4> QED BY <1>5, <3>1, <4>1, <4>2 DEF Covered, Held
    <3> QED BY <3>2, <3>3
  <2> QED BY <2>8, <2>9, <2>11 DEF Inv
<1>9. CASE ~(x.kind = "exec" /\ Tail(x.todo) = <<>>)
  <2> HIDE DEF x, c
  <2>1. \A status : Head(x.todo) # Set(x.run, status)
    BY <1>2 DEF Set
  <2>2. Program(y) /\ ~Releases(y)
    BY <1>2, <1>9, <2>1, RestFits
  <2>3. Sees(y, runs')
    BY <1>2, <1>6, <1>9, <2>1, RestSees
  <2>4. \A r : Gives(x.todo, r) => Gives(y.todo, r)
    BY <1>2, <1>3, RestGives
  <2> HIDE DEF y
  <2>5. /\ queue' \in Seq(Slots)
        /\ \A u \in Slots \ {t} : Queued(u) => Queued(u)'
        /\ \A r : Gives(y.todo, r) => Queued(t)'
        /\ Urgent(y) => Current(t)'
    <3>1. /\ After(y) \in Seq(Slots)
          /\ \A u \in Slots \ {t} : Queued(u) => Within(After(y), u)
          /\ \A r : Gives(y.todo, r) => Within(After(y), t)
          /\ Urgent(y) => After(y) = queue
      BY <1>2, <2>2, AfterKeeps DEF Inv, Typed
    <3> QED BY <1>2, <1>5, <3>1 DEF Queued, Current
  <2>6. (y.todo # <<>> => Proper(y)) /\ (y.kind = "exec" => y.todo # <<>>)
    BY <1>3, <1>7, <1>9, <2>2 DEF Proper, x
  <2>7. Proper(z) /\ Sees(z, runs') /\ (Urgent(z) => Urgent(y))
    BY <2>3, <2>6, IdleProper, IdleSees
  <2>8. Typed'
    BY <1>5, <1>6, <2>5 DEF Inv, Typed
  <2>9. Programs'
    <3>1. ASSUME NEW u \in Slots \ {t} PROVE Sees(th[u], runs')
      BY <1>6, <1>7, OthersSee
    <3> QED BY <1>5, <1>7, <2>5, <2>7, <3>1 DEF Programs
  <2>10. ASSUME NEW r \in Runs PROVE Executors(r)' = Executors(r)
    <3>1. z.kind = "exec" <=> x.kind = "exec"
      BY <1>3, <2>6, IdleProper
    <3>2. z.kind = "exec" => z.run = x.run
      BY <1>3, <2>6, <3>1, IdleProper
    <3> QED BY <1>5, <3>1, <3>2 DEF Executors, x
  <2>11. ASSUME NEW r \in Runs, Awaited(r) PROVE Awaited(r)'
    <3>1. PICK u \in Slots : Queued(u) /\ Gives(th[u].todo, r)
      BY <2>11 DEF Awaited
    <3>2. CASE u # t
      BY <1>5, <2>5, <3>1, <3>2 DEF Awaited
    <3>3. CASE u = t
      <4>1. Gives(y.todo, r) /\ Queued(t)'
        BY <2>4, <2>5, <3>1, <3>3 DEF x
      <4>2. y.todo # <<>>
        BY <4>1, Slots1 DEF Gives
      <4> QED BY <1>5, <4>1, <4>2 DEF Awaited
    <3> QED BY <3>2, <3>3
  <2>12. ASSUME NEW r \in Runs PROVE Covered(r)' /\ Held(r)'
    <3>1. Covered(r) /\ Held(r) /\ life # 0
      BY <1>5 DEF Inv, Typed
    <3> QED BY <1>5, <1>6, <2>10, <2>11, <3>1 DEF Covered, Held
  <2> QED BY <2>8, <2>9, <2>12 DEF Inv
<1> QED BY <1>8, <1>9

(* The slot a new thread takes is free.                                    *)
LEMMA FreeSlotTaken == FreeSlots # {} => NewSlot \in FreeSlots
<1> SUFFICES ASSUME FreeSlots # {} PROVE NewSlot \in FreeSlots
  OBVIOUS
<1>1. FreeSlots \in SUBSET Nat
  BY FiniteRuns DEF FreeSlots, Slots
<1>2. PICK t \in FreeSlots : \A s \in FreeSlots : ~(<<s, t>> \in OpToRel(<, Nat))
  BY <1>1, WFMin, NatLessThanWellFounded
<1>3. \A s \in FreeSlots : ~(s < t)
  BY <1>1, <1>2 DEF OpToRel
<1>4. \A s \in FreeSlots : t <= s
  BY <1>1, <1>3
<1> QED BY <1>4 DEF NewSlot

(* An executor, as the claim that was won starts it.                       *)
LEMMA ExecutorBegins ==
  ASSUME NEW x, DOMAIN x = DOMAIN Idle, x.kind = "exec", NEW event,
         x.todo = <<Set(x.run, "running"), Ev(x.run, event, 0), Do("next")>>
  PROVE  Proper(x) /\ \A table : Sees(x, table)
<1>1. Onward(x.run, <<Do("next")>>)
  BY OnwardDo
<1>2. Onward(x.run, <<Ev(x.run, event, 0)>> \o <<Do("next")>>)
  BY <1>1, OnwardPut, Statements
<1>3. Onward(x.run, <<Ev(x.run, event, 0), Do("next")>>)
  BY <1>2, Two
<1>4. Onward(x.run, <<Set(x.run, "running")>> \o <<Ev(x.run, event, 0), Do("next")>>)
  BY <1>3, OnwardPut, Statements DEF Statuses, Live
<1>5. Onward(x.run, x.todo)
  BY <1>4, Three
<1>6. Program(x) /\ \A table : Sees(x, table)
  BY <1>5, ReadyFits DEF Onward
<1>7. x.todo # <<>>
  BY <1>6 DEF Program, EndsWell
<1> QED BY <1>6, <1>7 DEF Proper

LEMMA LaunchStep ==
  ASSUME Inv, NEW t \in Slots, Launch(t)
  PROVE  Inv'
<1>0. PICK c : c = First(t).run
  OBVIOUS
<1> DEFINE x == th[t]
           event == IF Logged(c, "run.started", 0) THEN "run.resumed" ELSE "run.started"
           begun == [Idle EXCEPT !.kind = "exec", !.run = c, !.at = runs[c].next,
                                 !.todo = <<Set(c, "running"), Ev(c, event, 0), Do("next")>>]
           y == [x EXCEPT !.todo = Tail(x.todo)]
           z == IF y.todo = <<>> THEN Idle ELSE y
<1>1. /\ At(t, "launch") /\ UNCHANGED Process
      /\ IF ~Claimable(c) THEN Then(t, <<>>) /\ UNCHANGED runs
         ELSE /\ FreeSlots # {}
              /\ runs' = [runs EXCEPT ![c].holder = life, ![c].fresh = TRUE]
              /\ th' = [th EXCEPT ![t] = z, ![NewSlot] = begun]
              /\ queue' = <<NewSlot>> \o After(y)
  BY <1>0 DEF Launch, Rest
<1>2. /\ Current(t) /\ x.todo # <<>> /\ Head(x.todo).op = "launch" /\ Program(x) /\ Sees(x, runs)
      /\ Head(x.todo) = First(t) /\ x.todo[1] = First(t)
      /\ Len(x.todo) \in Nat \ {0} /\ DOMAIN x.todo = 1 .. Len(x.todo)
  BY <1>1, FirstFits DEF First
<1>3. /\ y.todo = Tail(x.todo) /\ y.kind = x.kind /\ y.run = x.run /\ DOMAIN y = DOMAIN Idle
  BY <1>2, Retold DEF Program
<1>4. \A status : Head(x.todo) # Set(x.run, status)
  BY <1>2 DEF Set
<1>5. "launch" \notin Going \cup {"release", "insert"} /\ ~Stops(Head(x.todo))
  BY <1>2 DEF Going, Stops
<1>6. PICK S : x.todo \in Seq(S)
  BY <1>2 DEF Program
<1>7. x.kind \in {"call", "exec"} /\ \A u \in Slots \ {t} : Proper(th[u]) /\ Sees(th[u], runs) /\ ~Urgent(th[u])
  BY <1>2 DEF Inv, Programs, Proper, Current
<1>8. up /\ life' = life /\ up' = up /\ queue \in Seq(Slots) /\ life \in Nat \ {0}
  BY <1>1, <1>2 DEF Inv, Typed, Current, Process
<1> HIDE DEF event
<1>9. x.kind = "exec" => Tail(x.todo) # <<>>
  BY <1>2, <1>5, RestThere
<1>10. Program(y) /\ ~Releases(y)
  <2> HIDE DEF x
  <2> QED BY <1>2, <1>4, <1>9, RestFits
<1>11. ~Urgent(y)
  <2>1. ASSUME NEW i \in DOMAIN y.todo PROVE y.todo[i].op # "request"
    <3>1. i + 1 \in DOMAIN x.todo /\ y.todo[i] = x.todo[i + 1] /\ 1 \in 1 .. (i + 1) - 1
      BY <1>2, <1>3, <1>6, Slots1
    <3>2. Fits(x, i + 1)
      BY <1>2, <3>1 DEF Program
    <3> QED BY <1>2, <1>5, <3>1, <3>2 DEF Fits
  <2> QED BY <1>10, <2>1 DEF Urgent
<1>12. ASSUME NEW table, \A r \in Runs : runs[r].status # "none" => table[r].status # "none"
       PROVE  Sees(y, table)
  <2> HIDE DEF x
  <2> QED BY <1>2, <1>4, <1>5, <1>9, <1>12, RestSees
<1>13. ASSUME NEW r, r # c, Gives(x.todo, r) PROVE Gives(y.todo, r)
  <2>1. PICK i \in DOMAIN x.todo : x.todo[i] = Of("launch", r)
    BY <1>13 DEF Gives
  <2>2. i # 1
    BY <1>0, <1>2, <1>13, <2>1 DEF Of
  <2>3. i - 1 \in DOMAIN y.todo /\ y.todo[i - 1] = Of("launch", r)
    <3>1. PICK p : p = x.todo
      OBVIOUS
    <3>2. p \in Seq(S) /\ Len(p) \in Nat \ {0} /\ i \in 2 .. Len(p) /\ p[i] = Of("launch", r) /\ y.todo = Tail(p)
      BY <1>2, <1>3, <1>6, <2>1, <2>2, <3>1
    <3>3. i - 1 \in DOMAIN Tail(p) /\ Tail(p)[i - 1] = p[i]
      BY ONLY <3>2
    <3> QED BY ONLY <3>2, <3>3
  <2> QED BY <2>3 DEF Gives
<1>14. /\ After(y) \in Seq(Slots)
       /\ \A u \in Slots \ {t} : Queued(u) => Within(After(y), u)
       /\ \A r : Gives(y.todo, r) => Within(After(y), t)
  BY <1>2, <1>8, <1>10, AfterKeeps
<1>15. (y.todo # <<>> => Proper(y)) /\ (y.kind = "exec" => y.todo # <<>>)
  BY <1>3, <1>7, <1>9, <1>10 DEF Proper
<1>16. /\ Proper(z) /\ ~Urgent(z) /\ (z.kind = "exec" <=> x.kind = "exec") /\ (z.kind = "exec" => z.run = x.run)
       /\ \A r : Gives(y.todo, r) => Gives(z.todo, r)
  <2>1. \A r : Gives(y.todo, r) => y.todo # <<>>
    BY Slots1 DEF Gives
  <2> QED BY <1>3, <1>11, <1>15, <2>1, IdleProper
<1>17. \A table : Sees(y, table) => Sees(z, table)
  BY IdleSees
<1>18. Then(t, <<>>) => /\ DOMAIN th' = Slots /\ th'[t] = z /\ \A u \in Slots \ {t} : th'[u] = th[u]
                        /\ queue' = After(y)
  <2>1. <<>> \o Rest(t) = Tail(x.todo)
    BY <1>2, <1>6, Slots1, Joined DEF Rest
  <2> QED BY <2>1 DEF Then, Goes, Becomes, Inv, Typed
<1>19. /\ DOMAIN begun = DOMAIN Idle /\ begun.kind = "exec" /\ begun.run = c
       /\ begun.todo = <<Set(c, "running"), Ev(c, event, 0), Do("next")>>
  BY DEF Idle
<1>20. th[t].kind # "free"
  BY <1>7
<1> HIDE DEF y, z, begun
<1>21. CASE ~Claimable(c)
  <2>1. /\ DOMAIN th' = Slots /\ th'[t] = z /\ \A u \in Slots \ {t} : th'[u] = th[u]
        /\ queue' = After(y) /\ runs' = runs
    BY <1>1, <1>18, <1>21
  <2>2. Typed'
    BY <1>8, <1>14, <2>1 DEF Inv, Typed
  <2>3. Programs'
    BY <1>7, <1>12, <1>16, <1>17, <2>1 DEF Programs
  <2>4. ASSUME NEW r \in Runs PROVE Executors(r)' = Executors(r)
    BY <1>16, <2>1 DEF Executors
  <2>5. ASSUME NEW r \in Runs, r # c, Awaited(r) PROVE Awaited(r)'
    <3>1. PICK u \in Slots : Queued(u) /\ Gives(th[u].todo, r)
      BY <2>5 DEF Awaited
    <3>2. CASE u # t
      BY <1>14, <2>1, <3>1, <3>2 DEF Awaited, Queued
    <3>3. CASE u = t
      <4>1. Gives(y.todo, r)
        BY <1>13, <2>5, <3>1, <3>3
      <4> QED BY <1>14, <1>16, <2>1, <4>1 DEF Awaited, Queued
    <3> QED BY <3>2, <3>3
  <2>6. ASSUME NEW r \in Runs PROVE Covered(r)' /\ Held(r)'
    <3>1. Covered(r) /\ Held(r)
      BY <1>8 DEF Inv
    <3>2. r = c /\ runs[r].status \in Live => Executors(r) # {} \/ runs[r].holder \notin {0, life}
      BY <1>8, <1>21, ClaimedIsCovered
    <3> QED BY <1>8, <2>1, <2>4, <2>5, <3>1, <3>2 DEF Covered, Held
  <2> QED BY <2>2, <2>3, <2>6 DEF Inv
<1>22. CASE Claimable(c)
  <2>0. PICK s : s = NewSlot
    OBVIOUS
  <2>1. /\ s \in Slots /\ th[s].kind = "free" /\ s # t
        /\ runs' = [runs EXCEPT ![c].holder = life, ![c].fresh = TRUE]
        /\ th' = [th EXCEPT ![t] = z, ![s] = begun]
        /\ queue' = <<s>> \o After(y)
    BY <1>1, <1>20, <1>22, <2>0, FreeSlotTaken DEF FreeSlots
  <2>2. /\ DOMAIN th' = Slots /\ th'[t] = z /\ th'[s] = begun /\ \A u \in Slots \ {t, s} : th'[u] = th[u]
    BY <2>1 DEF Inv, Typed
  <2>3. /\ Tabled(runs')
        /\ \A r \in Runs : /\ runs'[r].status = runs[r].status
                           /\ runs'[r].holder = IF r = c THEN life ELSE runs[r].holder
    BY <1>8, <2>1, RowsTyped DEF Tabled, RunFields
  <2>4. /\ queue' \in Seq(Slots) /\ queue' # <<>> /\ Head(queue') = s
        /\ \A u : Within(After(y), u) => Within(queue', u)
    <3> DEFINE q == After(y)
    <3>1. q \in Seq(Slots) /\ <<s>> \in Seq(Slots) /\ Len(<<s>>) = 1 /\ <<s>>[1] = s
      BY <1>14, <2>1
    <3> HIDE DEF q
    <3>2. /\ queue' \in Seq(Slots) /\ Len(queue') = 1 + Len(q) /\ queue'[1] = s /\ Len(q) \in Nat
          /\ DOMAIN queue' = 1 .. 1 + Len(q) /\ DOMAIN q = 1 .. Len(q)
          /\ \A i \in 1 .. Len(q) : queue'[1 + i] = q[i]
      BY <2>1, <3>1, Joined, Slots1 DEF q
    <3>3. \A i \in DOMAIN q : 1 + i \in DOMAIN queue' /\ queue'[1 + i] = q[i]
      BY <3>2
    <3>4. Len(queue') # 0
      BY <3>2
    <3> QED BY <3>2, <3>3, <3>4, Slots1 DEF q, Within
  <2>5. Typed'
    BY <1>8, <2>2, <2>3, <2>4 DEF Inv, Typed
  <2>6. Proper(begun) /\ Sees(begun, runs')
    BY <1>19, ExecutorBegins
  <2>7. Programs'
    <3>1. ASSUME NEW u \in Slots \ {t, s} PROVE Proper(th'[u]) /\ Sees(th'[u], runs') /\ ~Urgent(th'[u])
      BY <1>7, <2>2, <2>3, OthersSee
    <3>2. Proper(th'[t]) /\ Sees(th'[t], runs') /\ ~Urgent(th'[t])
      BY <1>12, <1>16, <1>17, <2>2, <2>3
    <3>3. Current(s)'
      BY <2>4 DEF Current
    <3> QED BY <2>1, <2>2, <2>6, <3>1, <3>2, <3>3 DEF Programs
  <2>8. ASSUME NEW r \in Runs, r # c PROVE Executors(r)' = Executors(r)
    BY <1>16, <1>19, <2>1, <2>2, <2>8 DEF Executors
  <2>9. s \in Executors(c)'
    BY <1>19, <2>1, <2>2 DEF Executors
  <2>10. ASSUME NEW r \in Runs, r # c, Awaited(r) PROVE Awaited(r)'
    <3>1. PICK u \in Slots : Queued(u) /\ Gives(th[u].todo, r)
      BY <2>10 DEF Awaited
    <3>2. u # s
      <4>1. th[s].todo = <<>>
        BY <2>1 DEF Inv, Programs, Proper
      <4>2. ~Gives(th[s].todo, r)
        BY <4>1, Slots1 DEF Gives
      <4> QED BY <3>1, <4>2
    <3>3. CASE u # t
      BY <1>14, <2>2, <2>4, <3>1, <3>2, <3>3 DEF Awaited, Queued
    <3>4. CASE u = t
      <4>1. Gives(y.todo, r)
        BY <1>13, <2>10, <3>1, <3>4
      <4> QED BY <1>14, <1>16, <2>2, <2>4, <4>1 DEF Awaited, Queued
    <3> QED BY <3>3, <3>4
  <2>11. ASSUME NEW r \in Runs PROVE Covered(r)' /\ Held(r)'
    <3>1. Covered(r) /\ Held(r)
      BY <1>8 DEF Inv
    <3>2. CASE r = c
      BY <2>9, <3>2 DEF Covered, Held
    <3>3. CASE r # c
      BY <1>8, <2>3, <2>8, <2>10, <3>1, <3>3 DEF Covered, Held
    <3> QED BY <3>2, <3>3
  <2> QED BY <1>8, <2>5, <2>7, <2>11 DEF Inv
<1> QED BY <1>21, <1>22

-----------------------------------------------------------------------------
(* Timers, requests and processes                                          *)

(* What waits in the event loop.                                           *)
LEMMA ParkedFits ==
  ASSUME Inv, NEW t \in Slots, NEW op, Parked(t, op)
  PROVE  /\ th[t].todo # <<>> /\ Program(th[t]) /\ Sees(th[t], runs) /\ Fits(th[t], 1) /\ 1 \in DOMAIN th[t].todo
         /\ th[t].kind \in {"call", "exec"} /\ DOMAIN th[t] = DOMAIN Idle
         /\ Head(th[t].todo) = th[t].todo[1] /\ th[t].todo[1].op = op
<1>1. th[t].todo # <<>> /\ Program(th[t]) /\ Sees(th[t], runs) /\ th[t].kind \in {"call", "exec"}
  BY DEF Parked, Inv, Programs, Proper
<1>2. 1 \in DOMAIN th[t].todo /\ Head(th[t].todo) = th[t].todo[1]
  BY <1>1, Started
<1> QED BY <1>1, <1>2 DEF Parked, Program

LEMMA Longer ==
  ASSUME NEW S, NEW p \in Seq(S), Len(p) = 2
  PROVE  Tail(p) # <<>>
<1> SUFFICES ASSUME Tail(p) = <<>> PROVE FALSE
  OBVIOUS
<1>1. p # <<>>
  BY Slots1
<1>2. Len(Tail(p)) = Len(p) - 1 /\ Len(Tail(p)) = 0
  BY <1>1, Slots1
<1> QED BY <1>2

LEMMA ElapsesStep ==
  ASSUME Inv, NEW t \in Slots, Elapses(t)
  PROVE  Inv'
<1>1. UNCHANGED <<runs, Process>>
  BY DEF Elapses, DelayOver, NapOver, BodyRead, Tables, Process
<1>2. CASE DelayOver(t)
  <2> DEFINE p == Completed(th[t].run, th[t].at)
             x == [th[t] EXCEPT !.todo = p]
  <2>1. Parked(t, "sleep") /\ Takes(t, x)
    BY <1>2 DEF DelayOver
  <2>2. th[t].kind = "exec" /\ DOMAIN th[t] = DOMAIN Idle
    BY <2>1, ParkedFits DEF Fits, Going
  <2>3. DOMAIN x = DOMAIN Idle /\ x.todo = p /\ x.kind = "exec" /\ x.run = th[t].run
    BY <2>2, Retold
  <2>4. Onward(th[t].run, p)
    BY OnwardNode
  <2> HIDE DEF p, x
  <2>5. Program(x) /\ Sees(x, runs)
    BY <2>3, <2>4, ReadyFits DEF Onward
  <2>6. Proper(x)
    BY <2>3, <2>5 DEF Proper, Program, EndsWell
  <2> QED BY <1>1, <2>1, <2>2, <2>3, <2>5, <2>6, TakeKeeps
<1>3. CASE NapOver(t)
  <2> DEFINE p == <<Do("poll")>>
             x == [th[t] EXCEPT !.todo = p]
  <2>1. Parked(t, "nap") /\ Takes(t, x)
    BY <1>3 DEF NapOver
  <2>2. th[t].kind = "exec" /\ DOMAIN th[t] = DOMAIN Idle /\ Sees(th[t], runs) /\ th[t].todo[1].op = "nap"
        /\ Program(th[t]) /\ th[t].todo # <<>> /\ Head(th[t].todo).op = "nap"
    BY <2>1, ParkedFits DEF Fits, Going
  <2>3. DOMAIN x = DOMAIN Idle /\ x.todo = p /\ x.kind = "exec" /\ x.run = th[t].run /\ x.child = th[t].child
    BY <2>2, Retold
  <2>4. Ready(th[t].run, p) /\ \A i \in DOMAIN p : p[i].op # "cascade"
    BY ReadyAgain
  <2>5. DOMAIN th[t].todo = {1}
    BY <2>2, Started DEF Going
  <2>6. Known(th[t].child, runs)
    BY <2>2, <2>5 DEF Sees
  <2> HIDE DEF p, x
  <2>7. Program(x) /\ Sees(x, runs)
    BY <2>3, <2>4, <2>6, ReadyFits
  <2>8. Proper(x)
    BY <2>3, <2>7 DEF Proper, Program, EndsWell
  <2> QED BY <1>1, <2>1, <2>2, <2>3, <2>7, <2>8, TakeKeeps
<1>4. CASE BodyRead(t)
  <2> DEFINE y == th[t]
             x == [y EXCEPT !.todo = Tail(y.todo)]
  <2>1. Parked(t, "body") /\ Takes(t, x)
    BY <1>4 DEF BodyRead, Rest
  <2>2. /\ y.todo # <<>> /\ Program(y) /\ Sees(y, runs) /\ Head(y.todo).op = "body" /\ Len(y.todo) = 2
        /\ y.kind \in {"call", "exec"}
    BY <2>1, ParkedFits DEF Fits
  <2>3. PICK S : y.todo \in Seq(S)
    BY <2>2 DEF Program
  <2>4. Len(Tail(y.todo)) = 1 /\ Tail(y.todo) \in Seq(S)
    BY <2>2, <2>3, Slots1
  <2>5. Tail(y.todo) # <<>>
    BY <2>2, <2>3, Longer
  <2>6. x.todo = Tail(y.todo) /\ x.kind = y.kind /\ x.run = y.run
    BY <2>2, Retold DEF Program
  <2>7. ~Stops(Head(y.todo)) /\ \A status : Head(y.todo) # Set(y.run, status)
    BY <2>2 DEF Stops, Set
  <2> HIDE DEF y
  <2>8. Program(x) /\ Sees(x, runs)
    BY <2>2, <2>5, <2>7, RestFits, RestSees
  <2> HIDE DEF x
  <2>9. Proper(x)
    BY <2>2, <2>5, <2>6, <2>8 DEF Proper
  <2> QED BY <1>1, <2>1, <2>2, <2>6, <2>8, <2>9, TakeKeeps DEF y
<1> QED BY <1>2, <1>3, <1>4 DEF Elapses

LEMMA DeadlineStep ==
  ASSUME Inv, NEW t \in Slots, Deadline(t)
  PROVE  Inv'
<1> DEFINE x == [th[t] EXCEPT !.late = TRUE, !.aborted = TRUE]
<1>1. Takes(t, x) /\ UNCHANGED <<runs, Process>> /\ th[t].kind = "exec"
  BY DEF Deadline, Tables, Process
<1>2. Proper(th[t]) /\ Sees(th[t], runs) /\ DOMAIN th[t] = DOMAIN Idle
  BY DEF Inv, Programs, Proper, Program
<1>3. Alike(th[t], x)
  BY <1>2 DEF Alike, Idle
<1> HIDE DEF x
<1>4. Proper(x) /\ Sees(x, runs) /\ x.kind = th[t].kind /\ x.run = th[t].run
  BY <1>2, <1>3, AlikeSame DEF Alike
<1> QED BY <1>1, <1>4, TakeKeeps

LEMMA HandlerFields ==
  ASSUME NEW r, NEW p
  PROVE  /\ DOMAIN Handler(r, p) = DOMAIN Idle
         /\ Handler(r, p).kind = "call" /\ Handler(r, p).run = r /\ Handler(r, p).todo = p
BY DEF Handler, Idle

(* A new handler has a free slot.                                          *)
LEMMA RequestComes ==
  ASSUME Inv, FreeSlots # {}, NEW x, Takes(NewSlot, x), Proper(x), x.kind = "call", Sees(x, runs),
         UNCHANGED <<runs, Process>>
  PROVE  Inv'
<1>1. PICK s : s = NewSlot
  OBVIOUS
<1>2. s \in Slots /\ th[s].kind = "free"
  BY <1>1, FreeSlotTaken DEF FreeSlots
<1> QED BY <1>1, <1>2, TakeKeeps

LEMMA CreateRunStep ==
  ASSUME Inv, NEW r \in Roots, NEW flow, NEW withKey \in BOOLEAN, CreateRun(r, flow, withKey)
  PROVE  Inv'
<1> DEFINE a == [op |-> "insert run", flow |-> flow]
           b == Of("key", r)
           c == Of("launch", r)
           key == IF withKey THEN <<b>> ELSE <<>>
           p == <<a>> \o key \o <<c>>
           x == Handler(r, p)
<1>1. FreeSlots # {} /\ Takes(NewSlot, x) /\ UNCHANGED <<runs, Process>>
  BY DEF CreateRun, Tables, Process
<1>2. a.op = "insert run" /\ b.op = "key" /\ c.op = "launch"
  BY DEF Of
<1> HIDE DEF a, b, c
<1>3. /\ \E S : p \in Seq(S)
      /\ Len(p) \in Nat /\ Len(p) > 1 /\ DOMAIN p = 1 .. Len(p) /\ p[1] = a /\ p[Len(p)] = c
      /\ \A i \in DOMAIN p : i = 1 \/ p[i] = b \/ p[i] = c
  <2> DEFINE q == <<a>> \o key
  <2>1. (\E S : key \in Seq(S)) /\ \A i \in DOMAIN key : key[i] = b
    <3>1. CASE withKey
      <4>1. <<b>> \in Seq({b}) /\ \A i \in DOMAIN <<b>> : <<b>>[i] = b
        OBVIOUS
      <4> QED BY <3>1, <4>1
    <3>2. CASE ~withKey
      <4>1. <<>> \in Seq({}) /\ DOMAIN <<>> = {}
        BY Slots1
      <4> QED BY <3>2, <4>1
    <3> QED BY <3>1, <3>2
  <2> HIDE DEF key
  <2>2. /\ \E S : q \in Seq(S)
        /\ Len(key) \in Nat /\ DOMAIN key = 1 .. Len(key)
        /\ Len(q) = Len(key) + 1 /\ DOMAIN q = 1 .. Len(key) + 1 /\ q[1] = a
        /\ \A i \in 1 .. Len(key) : q[i + 1] = key[i]
    BY <2>1, Put
  <2>3. \A i \in DOMAIN q : i = 1 \/ q[i] = b
    <3> SUFFICES ASSUME NEW i \in DOMAIN q, i # 1 PROVE q[i] = b
      OBVIOUS
    <3>1. i - 1 \in 1 .. Len(key) /\ (i - 1) + 1 = i
      BY <2>2
    <3> QED BY <2>1, <2>2, <3>1
  <2> HIDE DEF q
  <2> DEFINE l == <<c>>
  <2>4. l \in Seq({c}) /\ Len(l) = 1 /\ l[1] = c
    OBVIOUS
  <2>5. p = q \o l
    BY DEF q
  <2> HIDE DEF l, p
  <2>6. /\ \E S : p \in Seq(S)
        /\ DOMAIN p = 1 .. Len(q) + Len(l) /\ Len(p) = Len(q) + Len(l)
        /\ \A i \in 1 .. Len(q) : p[i] = q[i]
        /\ \A i \in 1 .. Len(l) : p[Len(q) + i] = l[i]
    <3>0. \E S : q \in Seq(S)
      BY <2>2
    <3>1. \E S : l \in Seq(S)
      BY <2>4
    <3>2. /\ \E S : q \o l \in Seq(S)
          /\ DOMAIN (q \o l) = 1 .. Len(q) + Len(l) /\ Len(q \o l) = Len(q) + Len(l)
          /\ \A i \in 1 .. Len(q) : (q \o l)[i] = q[i]
          /\ \A i \in 1 .. Len(l) : (q \o l)[Len(q) + i] = l[i]
      BY <3>0, <3>1, SeqUnion
    <3> QED BY <2>5, <3>2
  <2>7. Len(p) = Len(q) + 1 /\ p[Len(q) + 1] = c /\ p[1] = a /\ DOMAIN p = 1 .. Len(p) /\ Len(q) \in Nat \ {0}
        /\ DOMAIN q = 1 .. Len(q)
    BY <2>2, <2>4, <2>6
  <2>8. ASSUME NEW i \in DOMAIN p PROVE i = 1 \/ p[i] = b \/ p[i] = c
    <3>1. i = Len(q) + 1 \/ i \in 1 .. Len(q)
      BY <2>7
    <3>2. CASE i \in 1 .. Len(q)
      BY <2>3, <2>6, <2>7, <3>2
    <3> QED BY <2>7, <3>1, <3>2
  <2> QED BY <2>6, <2>7, <2>8
<1> HIDE DEF p
<1>4. DOMAIN x = DOMAIN Idle /\ x.kind = "call" /\ x.run = r /\ x.todo = p
  BY HandlerFields
<1> HIDE DEF x
<1>5. GivesAfter(p, 1, r)
  <2>1. Len(p) \in DOMAIN p /\ Len(p) > 1
    BY <1>3
  <2> QED BY <1>3, <2>1 DEF GivesAfter, c
<1>6. \A i \in DOMAIN p : p[i].op \in {"insert run", "key", "launch"} /\ (p[i].op = "insert run" => i = 1)
  BY <1>2, <1>3
<1>7. \A i \in DOMAIN p : Fits(x, i)
  BY <1>4, <1>5, <1>6 DEF Fits, Going, Answers
<1>8. Program(x)
  BY <1>3, <1>4, <1>7 DEF Program
<1>9. Sees(x, runs)
  BY <1>4, <1>6 DEF Sees, Releases
<1>10. Proper(x)
  <2>1. p # <<>>
    BY <1>3, Slots1
  <2> QED BY <1>4, <1>8, <2>1 DEF Proper
<1> QED BY <1>1, <1>4, <1>9, <1>10, RequestComes

LEMMA CallCancelStep ==
  ASSUME Inv, NEW r \in Runs, CallCancel(r)
  PROVE  Inv'
<1> DEFINE p == <<Do("cancel")>>
           x == Handler(r, p)
<1>1. FreeSlots # {} /\ Takes(NewSlot, x) /\ UNCHANGED <<runs, Process>> /\ runs[r].status # "none"
  BY DEF CallCancel, Arrives, Tables, Process
<1>2. /\ p \in Seq({Do("cancel")}) /\ Len(p) = 1 /\ DOMAIN p = {1} /\ p[1].op = "cancel" /\ p # <<>>
  BY DEF Do
<1>3. DOMAIN x = DOMAIN Idle /\ x.kind = "call" /\ x.run = r /\ x.todo = p
  BY HandlerFields
<1> HIDE DEF p, x
<1>4. \A i \in DOMAIN p : Fits(x, i)
  BY <1>2, <1>3 DEF Fits, Going, Answers
<1>5. Proper(x)
  BY <1>2, <1>3, <1>4 DEF Proper, Program
<1>6. Sees(x, runs)
  BY <1>1, <1>2, <1>3 DEF Sees, Releases, Known
<1> QED BY <1>1, <1>3, <1>5, <1>6, RequestComes

LEMMA CallResolveStep ==
  ASSUME Inv, NEW r \in Runs, NEW n, CallResolve(r, n)
  PROVE  Inv'
<1> DEFINE op == IF Kind(r, n) = "approval" THEN "tally" ELSE "answer"
           p == <<Do("body"), Do(op)>>
           x(ballot) == [Handler(r, p) EXCEPT !.row = runs[r].next, !.node = n, !.ballot = ballot]
<1>1. /\ FreeSlots # {} /\ up /\ queue = <<>> /\ UNCHANGED <<runs, Process, queue>>
      /\ \E ballot : th' = [th EXCEPT ![NewSlot] = x(ballot)]
  BY DEF CallResolve, Tables, Process
<1>2. PICK ballot : th' = [th EXCEPT ![NewSlot] = x(ballot)]
  BY <1>1
<1>3. PICK s : s = NewSlot
  OBVIOUS
<1>4. s \in Slots /\ th[s].kind = "free"
  BY <1>1, <1>3, FreeSlotTaken DEF FreeSlots
<1> DEFINE y == x(ballot)
<1>5. DOMAIN y = DOMAIN Idle /\ y.kind = "call" /\ y.run = r /\ y.todo = p
  BY DEF Handler, Idle
<1>6. /\ p \in Seq({Do("body"), Do(op)}) /\ Len(p) = 2 /\ DOMAIN p = 1 .. 2 /\ p # <<>>
      /\ p[1].op = "body" /\ p[2].op \in Answers
  BY DEF Do, Answers
<1>7. /\ DOMAIN th' = Slots /\ th'[s] = y /\ \A u \in Slots \ {s} : th'[u] = th[u]
  BY <1>2, <1>3, <1>4 DEF Inv, Typed
<1> HIDE DEF p, y, x, op
<1>8. Fits(y, 1) /\ Fits(y, 2)
  BY <1>5, <1>6 DEF Fits, Going, Answers
<1>9. Proper(y)
  <2>1. \A i \in DOMAIN p : Fits(y, i)
    BY <1>6, <1>8
  <2> QED BY <1>5, <1>6, <2>1 DEF Proper, Program
<1>10. Sees(y, runs) /\ ~Urgent(y)
  <2>1. \A i \in DOMAIN p : p[i].op \in Answers \cup {"body"}
    BY <1>6
  <2> QED BY <1>5, <2>1 DEF Sees, Urgent, Releases, Answers
<1>11. Typed'
  BY <1>1, <1>7 DEF Inv, Typed, Process
<1>12. Programs'
  <2>1. \A u \in Slots : Urgent(th[u]) => Current(u)
    BY DEF Inv, Programs
  <2>2. \A u \in Slots : ~Urgent(th[u])
    BY <1>1, <2>1 DEF Current
  <2> QED BY <1>1, <1>7, <1>9, <1>10, <2>2 DEF Inv, Programs
<1>13. ASSUME NEW q \in Runs PROVE Covered(q)' /\ Held(q)'
  <2>1. Executors(q)' = Executors(q)
    BY <1>4, <1>5, <1>7 DEF Executors
  <2>2. ~Awaited(q)
    <3>1. \A u : ~Queued(u)
      BY <1>1, Slots1 DEF Queued, Within
    <3> QED BY <3>1 DEF Awaited
  <2> QED BY <1>1, <2>1, <2>2 DEF Inv, Covered, Held, Process
<1> QED BY <1>11, <1>12, <1>13 DEF Inv

(* Statuses and executors stay: what a thread has found still holds.       *)
LEMMA SeesSame ==
  ASSUME NEW x, NEW old, NEW table, Sees(x, old), \A r \in Runs : table[r].status = old[r].status
  PROVE  Sees(x, table)
<1>1. \A r : Known(r, old) => Known(r, table) /\ table[r].status = old[r].status
  BY DEF Known
<1> QED BY <1>1 DEF Sees

LEMMA LapseStep ==
  ASSUME Inv, NEW q \in Runs, Lapse(q)
  PROVE  Inv'
<1>1. runs' = [runs EXCEPT ![q].fresh = FALSE] /\ UNCHANGED <<Process, queue, th>>
  BY DEF Lapse
<1>2. /\ Tabled(runs')
      /\ \A r \in Runs : runs'[r].status = runs[r].status /\ runs'[r].holder = runs[r].holder
  BY <1>1, RowsTyped DEF Tabled, RunFields
<1>3. life' = life /\ up' = up /\ queue' = queue /\ th' = th
  BY <1>1 DEF Process
<1>4. Typed'
  BY <1>2, <1>3 DEF Inv, Typed
<1>5. Programs'
  BY <1>2, <1>3, SeesSame DEF Inv, Programs, Current
<1>6. ASSUME NEW r \in Runs PROVE (Covered(r) => Covered(r)') /\ (Held(r) => Held(r)')
  <2>1. Executors(r)' = Executors(r) /\ (Awaited(r) => Awaited(r)')
    BY <1>3 DEF Executors, Awaited, Queued
  <2> QED BY <1>2, <1>3, <2>1 DEF Covered, Held
<1> QED BY <1>3, <1>4, <1>5, <1>6 DEF Inv

LEMMA DeathStep ==
  ASSUME Inv, Crash \/ Shutdown
  PROVE  Inv'
<1>1. up' = FALSE /\ queue' = <<>> /\ th' = [t \in Slots |-> Idle] /\ life' = life
  BY DEF Crash, Shutdown, Dies
<1>2. Tabled(runs') /\ \A r \in Runs : runs'[r].holder <= life
  <2>1. CASE runs' = runs
    BY <2>1 DEF Inv, Typed
  <2>2. CASE runs' = [r \in Runs |-> IF runs[r].holder = life THEN [runs[r] EXCEPT !.holder = 0, !.fresh = FALSE] ELSE runs[r]]
    <3>1. life \in Nat /\ \A r \in Runs : runs[r].holder <= life
      BY DEF Inv, Typed
    <3>2. ASSUME NEW r \in Runs
          PROVE  /\ DOMAIN runs'[r] = RunFields /\ runs'[r].status = runs[r].status
                 /\ runs'[r].holder \in Nat /\ runs'[r].holder <= life
      <4>1. DOMAIN runs[r] = RunFields /\ runs[r].holder \in Nat /\ runs[r].holder <= life
        BY <3>1, RowsTyped
      <4>2. CASE runs'[r] = runs[r]
        BY <4>1, <4>2
      <4>3. CASE runs'[r] = [runs[r] EXCEPT !.holder = 0, !.fresh = FALSE]
        <5>1. DOMAIN runs'[r] = RunFields /\ runs'[r].status = runs[r].status /\ runs'[r].holder = 0
          BY <4>1, <4>3 DEF RunFields
        <5> QED BY <3>1, <5>1
      <4> QED BY <2>2, <4>2, <4>3
    <3> QED BY <2>2, <3>2, RowsTyped DEF Tabled
  <2> QED BY <2>1, <2>2 DEF Crash, Shutdown
<1>3. Typed'
  <2>1. <<>> \in Seq(Slots)
    OBVIOUS
  <2> QED BY <1>1, <1>2, <2>1 DEF Inv, Typed
<1>4. Programs'
  BY <1>1, IdleProper, IdleSees DEF Programs
<1> QED BY <1>1, <1>3, <1>4 DEF Inv

LEMMA BootStep ==
  ASSUME Inv, Boot
  PROVE  Inv'
<1> DEFINE S == {r \in Runs : Orphan(r)}
           orphans == SetToSeq(S)
           p == [i \in DOMAIN orphans |-> Of("launch", orphans[i])]
           x == Handler("none", p)
<1>1. /\ ~up /\ up' = TRUE /\ life' = life + 1 /\ runs' = runs
      /\ IF orphans = <<>> THEN UNCHANGED <<th, queue>> ELSE th' = [th EXCEPT ![1] = x] /\ queue' = <<1>>
  BY DEF Boot, Tables
<1>2. queue = <<>> /\ DOMAIN th = Slots /\ (\A t \in Slots : th[t] = Idle) /\ life \in Nat \ {0}
      /\ \A r \in Runs : runs[r].holder <= life /\ runs[r].holder \in Nat
  BY <1>1 DEF Inv, Typed, Tabled
<1>3. 1 \in Slots
  BY FiniteRuns DEF Slots
<1>4. /\ orphans \in Seq(S) /\ \A r \in S : \E i \in DOMAIN orphans : orphans[i] = r
  BY FiniteRuns, FS_Subset, Listed
<1> HIDE DEF S, orphans
<1>5. Len(orphans) \in Nat /\ DOMAIN orphans = 1 .. Len(orphans)
  BY <1>4
<1>6. \E T : p \in Seq(T)
  <2> DEFINE T == {Of("launch", r) : r \in S}
  <2>1. p \in [1 .. Len(orphans) -> T]
    BY <1>4, <1>5
  <2> HIDE DEF p, T
  <2>2. p \in Seq(T)
    BY <1>5, <2>1
  <2> QED BY <2>2
<1>7. DOMAIN p = DOMAIN orphans /\ \A i \in DOMAIN p : p[i] = Of("launch", orphans[i])
  OBVIOUS
<1>8. DOMAIN x = DOMAIN Idle /\ x.kind = "call" /\ x.run = "none" /\ x.todo = p
  <2> HIDE DEF p
  <2> QED BY HandlerFields
<1> HIDE DEF p, x
<1>9. \A i \in DOMAIN p : p[i].op = "launch"
  BY <1>7 DEF Of
<1>10. Program(x) /\ ~Urgent(x) /\ \A table : Sees(x, table)
  <2>1. \A i \in DOMAIN p : Fits(x, i)
    BY <1>8, <1>9 DEF Fits, Going, Answers
  <2> QED BY <1>6, <1>8, <1>9, <2>1 DEF Program, Urgent, Releases, Sees
<1>11. orphans # <<>> => p # <<>>
  <2>1. orphans # <<>> => 1 \in DOMAIN p
    BY <1>4, <1>5, <1>7, Slots1
  <2> QED BY <2>1, Slots1
<1>12. Typed'
  <2>1. queue' \in Seq(Slots)
    <3>1. <<>> \in Seq(Slots) /\ <<1>> \in Seq(Slots)
      BY <1>3
    <3>2. queue' = <<>> \/ queue' = <<1>>
      BY <1>1, <1>2
    <3> QED BY <3>1, <3>2
  <2>2. DOMAIN th' = Slots
    BY <1>1, <1>2
  <2> QED BY <1>1, <1>2, <2>1, <2>2 DEF Inv, Typed
<1>13. ASSUME NEW t \in Slots PROVE th'[t] = Idle \/ (th'[t] = x /\ x.todo # <<>>)
  BY <1>1, <1>2, <1>3, <1>8, <1>11
<1>14. Programs'
  BY <1>8, <1>10, <1>13, IdleProper, IdleSees DEF Programs, Proper
<1>15. ASSUME NEW r \in Runs PROVE Covered(r)' /\ Held(r)'
  <2>1. runs'[r].holder # life'
    BY <1>1, <1>2
  <2>2. ASSUME runs[r].status \in Live, runs[r].holder = 0 PROVE Awaited(r)'
    <3>1. r \in S
      BY <2>2 DEF S, Orphan, Claimable, Live, Terminal
    <3>2. PICK i \in DOMAIN p : p[i] = Of("launch", r)
      BY <1>4, <1>7, <3>1
    <3>3. orphans # <<>>
      BY <1>7, <3>2, Slots1
    <3>4. th'[1] = x /\ queue' = <<1>>
      BY <1>1, <1>2, <1>3, <3>3
    <3>5. Gives(th'[1].todo, r)
      BY <1>8, <3>2, <3>4 DEF Gives
    <3>6. Within(queue', 1)
      BY <3>4 DEF Within
    <3> QED BY <1>3, <3>5, <3>6 DEF Awaited, Queued
  <2> QED BY <1>1, <2>1, <2>2 DEF Covered, Held
<1> QED BY <1>1, <1>12, <1>14, <1>15 DEF Inv

-----------------------------------------------------------------------------
(* The theorem                                                             *)

LEMMA InitInv == Init => Inv
<1> SUFFICES ASSUME Init PROVE Inv
  OBVIOUS
<1>1. /\ DOMAIN runs = Runs /\ life = 1 /\ up = TRUE /\ queue = <<>> /\ DOMAIN th = Slots
      /\ \A t \in Slots : th[t] = Idle
      /\ \A r \in Runs : DOMAIN runs[r] = RunFields /\ runs[r].status = "none" /\ runs[r].holder = 0
  BY DEF Init, RunFields
<1>2. Typed
  <2>1. <<>> \in Seq(Slots)
    OBVIOUS
  <2> QED BY <1>1, <2>1 DEF Typed, Tabled
<1>3. Programs
  BY <1>1, IdleProper, IdleSees DEF Programs
<1>4. \A r \in Runs : Covered(r) /\ Held(r)
  BY <1>1 DEF Covered, Held, Live
<1> QED BY <1>2, <1>3, <1>4 DEF Inv

LEMMA NextInv == Inv /\ [Next]_vars => Inv'
<1> SUFFICES ASSUME Inv, [Next]_vars PROVE Inv'
  OBVIOUS
<1>1. CASE Turn
  BY <1>1, QuietStatementSteps, SetStatusStep, ReleaseClaimStep, LaunchStep, NextNodeStep, OutcomeStep,
     DelayAbortedStep, FindChildStep, InsertChildStep, PollSubStep, DispatchNodeStep, PollWorkerStep,
     NapAbortedStep, CancelStep, CancelRunInternalStep, SetCancelRequestedStep, AbortStep, ResolveSteps,
     AdvanceStep, InsertRunStep DEF Turn
<1>2. CASE \E t \in Slots : Elapses(t) \/ Deadline(t)
  BY <1>2, ElapsesStep, DeadlineStep
<1>3. CASE \E r \in Roots, flow \in RootFlows, withKey \in BOOLEAN : CreateRun(r, flow, withKey)
  BY <1>3, CreateRunStep
<1>4. CASE \E r \in Runs : CallCancel(r) \/ Lapse(r) \/ \E n \in Nodes : CallResolve(r, n)
  BY <1>4, CallCancelStep, LapseStep, CallResolveStep
<1>5. CASE Crash \/ Shutdown
  BY <1>5, DeathStep
<1>6. CASE Boot
  BY <1>6, BootStep
<1>7. CASE UNCHANGED vars
  <2>1. runs' = runs /\ life' = life /\ up' = up /\ queue' = queue /\ th' = th
    BY <1>7 DEF vars
  <2> QED BY <2>1 DEF Inv, Typed, Programs, Current, Covered, Held, Executors, Awaited, Queued
<1> QED BY <1>1, <1>2, <1>3, <1>4, <1>5, <1>6, <1>7 DEF Next

(* Once the event loop is idle nobody is still to be launched, so that a   *)
(* run that is to run has an executor or is under a dead process's claim.  *)
LEMMA InvCovers == Inv => OrphansHaveOldClaims
<1> SUFFICES ASSUME Inv, up, queue = <<>>, NEW r \in Runs,
                    runs[r].status \in {"pending", "running", "cancelling"}, Executors(r) = {}
             PROVE  runs[r].holder \notin {0, life}
  BY DEF OrphansHaveOldClaims
<1>1. \A t : ~Queued(t)
  BY Slots1 DEF Queued, Within
<1>2. ~Awaited(r)
  BY <1>1 DEF Awaited
<1> QED BY <1>2 DEF Inv, Covered, Live

(* Whenever the event loop of the SQLite host is idle, each run that is to *)
(* run has an executor, or is under the claim of a process that died and   *)
(* that lapses: whatever was created, cancelled or answered, and wherever  *)
(* a crash or a shutdown came (runWorkflow, resumeOrphans).                *)
THEOREM NoRunIsLost == Spec => []OrphansHaveOldClaims
<1> QED BY InitInv, NextInv, InvCovers, PTL DEF Spec

-----------------------------------------------------------------------------
(* The gates: how far a run has got, and by whose votes                    *)

Asking == {"approval", "clarification", "external"}
Decision == "runOrchestrator.decided"

KindIn(table, r, n) == Flow[table[r].flow][n]
On(table, r, n) == n \in 1 .. Len(Flow[table[r].flow])
Made(table, r) == r \in Runs /\ table[r].status # "none"

Decided(r) == \E m \in Nodes : Logged(r, Decision, m)
Deciders == {r \in Runs : Decided(r)}

Honoured(r, n) == Kind(r, n) = "approval" => Cardinality(cast[r][n]) >= Required

(* The votes of a gate are one for each voter; who accepts is on record.   *)
Tallied(votes, voters) ==
  /\ IsFiniteSet(votes)
  /\ \A a, b \in votes : a.voter = b.voter => a = b
  /\ \A b \in votes : b.choice = "accept" => b.voter \in voters

(* A run's position, and what is open there.                               *)
Position(r) ==
  /\ runs[r].flow \in DOMAIN Flow /\ runs[r].next \in Nat \ {0}
  /\ runs[r].status = "none" => runs[r].next = 1 /\ ~Decided(r) /\ \A n \in Nodes : ~Open(r, n)
  /\ \A n \in 1 .. Length(r) : n < runs[r].next => Honoured(r, n)
  /\ Decided(r) => \E m \in 1 .. Length(r) : Kind(r, m) = "supervisor" /\ m <= runs[r].next
  /\ \A n \in Nodes :
       /\ IsFiniteSet(cast[r][n])
       /\ Open(r, n) => /\ n = runs[r].next /\ n \in 1 .. Length(r) /\ Kind(r, n) \in Asking
                        /\ Tallied(interrupts[r][n].votes, cast[r][n])

Stored ==
  /\ DOMAIN log = Runs /\ DOMAIN interrupts = Runs /\ DOMAIN cast = Runs
  /\ \A r \in Runs : /\ DOMAIN interrupts[r] = Nodes /\ DOMAIN cast[r] = Nodes
                     /\ \A n \in Nodes : DOMAIN interrupts[r][n] = {"state", "votes"}

(* What a statement says of where its thread is.                           *)
Passing(x, table) ==
  x.kind = "exec" /\ On(table, x.run, x.at) /\ KindIn(table, x.run, x.at) \notin Asking
Answering(x, table) ==
  /\ x.kind = "call" /\ Made(table, x.run)
  /\ On(table, x.run, x.node) /\ KindIn(table, x.run, x.node) \in Asking /\ x.row = x.node

Sits(x, s, table, decided) ==
  /\ s.op = "append" /\ s.type = Decision =>
       /\ x.kind = "exec" /\ s.run = x.run
       /\ On(table, x.run, x.at) /\ KindIn(table, x.run, x.at) = "supervisor"
  /\ s.op = "out" /\ s.outcome \in {"completed", "loopback"} => Passing(x, table)
  /\ s.op = "out" /\ s.outcome = "loopback" => x.run \in decided
  /\ s.op \in {"sleep", "dispatch", "find", "poll", "nap"} => Passing(x, table)
  /\ s.op \in {"find", "poll", "nap"} /\ KindIn(table, x.run, x.at) = "dispatch" => x.run \in decided
  /\ s.op = "mint" => /\ x.kind = "exec"
                      /\ On(table, x.run, x.at) /\ KindIn(table, x.run, x.at) \in Asking
  /\ s.op \in {"body", "advance"} \cup Answers => Answering(x, table)
  /\ s.op = "tally" => KindIn(table, x.run, x.node) = "approval"
  /\ s.op = "insert run" => /\ x.kind = "call" /\ x.run \in Runs /\ table[x.run].status = "none"
                            /\ s.flow \in DOMAIN Flow

Opens(p, r) == \E i \in DOMAIN p : p[i].op = "launch" /\ p[i].run = r
Inserts(p) == \E i \in DOMAIN p : p[i].op \in {"insert", "insert run"}
Advances(p) == \E i \in DOMAIN p : p[i].op = "advance"
Attends(p) == Advances(p) \/ (1 \in DOMAIN p /\ p[1].op \in Answers)

(* Whom a thread whose program is this inserts, if anybody.               *)
Inserted(x, p, r) ==
  \/ p[1].op = "insert" /\ x.child = r
  \/ p[1].op = "insert run" /\ x.run = r

Ordered(x, p, table) ==
  \A i \in DOMAIN p :
    /\ p[i].op \in {"insert", "insert run"} => i = 1
    /\ p[i].op \in Answers => i = 1 \/ p[1].op = "body"
    /\ p[i].op = "advance" => \A j \in 1 .. i - 1 : p[j].op = "append"
    /\ p[i].op = "launch" =>
         /\ p[i].run \in Runs
         /\ table[p[i].run].status # "none" \/ Inserted(x, p, p[i].run)
         /\ \A j \in DOMAIN p : /\ p[j].op \notin {"cancel", "cascade"}
                                /\ (p[j].op = "launch" /\ p[j].run = p[i].run) => i = j

Placed(x, table, decided) ==
  /\ x.kind = "exec" => Made(table, x.run) /\ x.at = table[x.run].next
  /\ \A i \in DOMAIN x.todo : Sits(x, x.todo[i], table, decided)
  /\ Ordered(x, x.todo, table)

(* A run has one executor, or will have one that one thread launches.      *)
Free(r) == Executors(r) = {} /\ \A u \in Slots : ~Opens(th[u].todo, r)

OneEach ==
  /\ \A t, u \in Slots : th[t].kind = "exec" /\ th[u].kind = "exec" /\ th[t].run = th[u].run => t = u
  /\ \A t \in Slots : \A r \in Runs : Opens(th[t].todo, r) =>
       Executors(r) = {} /\ \A u \in Slots : Opens(th[u].todo, r) => u = t

(* A handler that moves a run on found its votes, and nobody is there.     *)
Found(r, n, table, rows, voters) ==
  /\ table[r].next = n /\ (KindIn(table, r, n) = "approval" => Cardinality(voters[r][n]) >= Required)
  /\ \A m \in Nodes : rows[r][m].state # "open"
Ahead(r, n) == Found(r, n, runs, interrupts, cast) /\ Executors(r) = {}

InOrder ==
  \A t \in Slots :
    /\ th[t].todo # <<>> /\ ~Queued(t) => th[t].todo[1].op \in {"body", "sleep", "nap"}
    /\ Attends(th[t].todo) => queue = <<t>>
    /\ Advances(th[t].todo) => Ahead(th[t].run, th[t].node)
    /\ Inserts(th[t].todo) => Current(t)

Gates ==
  /\ Stored
  /\ \A r \in Runs : Position(r)
  /\ \A t \in Slots : Placed(th[t], runs, Deciders)
  /\ OneEach /\ InOrder

-----------------------------------------------------------------------------
(* Threads                                                                 *)

LEMMA IdlePlaced == /\ \A table, decided : Placed(Idle, table, decided)
                    /\ \A r : ~Opens(Idle.todo, r)
                    /\ ~Attends(Idle.todo) /\ ~Advances(Idle.todo) /\ ~Inserts(Idle.todo)
<1>1. DOMAIN Idle.todo = {} /\ Idle.kind = "free"
  BY DEF Idle
<1> QED BY <1>1 DEF Placed, Ordered, Opens, Attends, Advances, Inserts

(* Threads that are in the same place.                                     *)
Same(x, y) ==
  /\ x.kind = y.kind /\ x.run = y.run /\ x.at = y.at
  /\ x.node = y.node /\ x.row = y.row /\ x.child = y.child

(* No run goes, and a run there is stays of its workflow.                  *)
Grown(old, new) ==
  \A r \in Runs : old[r].status # "none" => new[r].status # "none" /\ new[r].flow = old[r].flow

LEMMA GrownSame ==
  ASSUME NEW old, NEW new, Grown(old, new)
  PROVE  \A r : Made(old, r) => /\ Made(new, r)
                                /\ \A n : KindIn(new, r, n) = KindIn(old, r, n) /\ (On(new, r, n) <=> On(old, r, n))
BY DEF Grown, Made, KindIn, On

LEMMA SitsStill ==
  ASSUME NEW x, NEW y, Same(x, y), NEW old, NEW new, Grown(old, new),
         NEW decided, NEW others, decided \subseteq others, x.kind = "exec" => Made(old, x.run)
  PROVE  \A s : Sits(x, s, old, decided) /\ s.op # "insert run" => Sits(y, s, new, others)
<1> SUFFICES ASSUME NEW s, Sits(x, s, old, decided), s.op # "insert run" PROVE Sits(y, s, new, others)
  OBVIOUS
<1>1. /\ y.kind = x.kind /\ y.run = x.run /\ y.at = x.at /\ y.node = x.node /\ y.row = x.row
  BY DEF Same
<1>2. ASSUME Made(old, x.run)
      PROVE  /\ Made(new, x.run)
             /\ \A n : KindIn(new, x.run, n) = KindIn(old, x.run, n) /\ (On(new, x.run, n) <=> On(old, x.run, n))
  BY <1>2, GrownSame
<1>3. Passing(x, old) => Passing(y, new) /\ KindIn(new, x.run, x.at) = KindIn(old, x.run, x.at)
  BY <1>1, <1>2 DEF Passing
<1>4. Answering(x, old) => Answering(y, new) /\ KindIn(new, x.run, x.node) = KindIn(old, x.run, x.node)
  BY <1>1, <1>2 DEF Answering
<1>5. s.op = "tally" => s.op \in {"body", "advance"} \cup Answers
  BY DEF Answers
<1> QED BY <1>1, <1>2, <1>3, <1>4, <1>5 DEF Sits

(* What has changed does not matter to a thread that inserts nothing.      *)
LEMMA PlacedStill ==
  ASSUME NEW x, NEW y, Same(x, y), y.todo = x.todo, NEW old, NEW new, Grown(old, new),
         NEW decided, NEW others, decided \subseteq others,
         Placed(x, old, decided), ~Inserts(x.todo),
         x.kind = "exec" => new[x.run].next = old[x.run].next
  PROVE  Placed(y, new, others)
<1>1. \A i \in DOMAIN x.todo : x.todo[i].op \notin {"insert", "insert run"}
  BY DEF Inserts
<1>2. x.kind = "exec" => Made(old, x.run)
  BY DEF Placed
<1>3. \A s : Sits(x, s, old, decided) /\ s.op # "insert run" => Sits(y, s, new, others)
  BY <1>2, SitsStill
<1> DEFINE p == x.todo
           q == y.todo
<1>4. p = q
  OBVIOUS
<1>5. \A i \in DOMAIN q : Sits(y, q[i], new, others)
  BY <1>1, <1>3, <1>4 DEF Placed
<1>6. Ordered(y, p, new)
  <2>1. Ordered(x, p, old)
    BY DEF Placed
  <2> HIDE DEF p
  <2>2. \A r : Inserted(x, p, r) => Inserted(y, p, r)
    BY DEF Inserted, Same
  <2> QED BY <2>1, <2>2 DEF Ordered, Grown
<1>7. y.kind = "exec" => Made(new, y.run) /\ y.at = new[y.run].next
  <2>1. y.kind = x.kind /\ y.run = x.run /\ y.at = x.at
    BY DEF Same
  <2> QED BY <1>2, <2>1, GrownSame DEF Placed
<1> QED BY <1>4, <1>5, <1>6, <1>7 DEF Placed

(* A thread that has made its first statement is where it was.             *)
Rests(x, y) ==
  /\ Same(x, y) /\ y.todo = Tail(x.todo)
  /\ \E S : x.todo \in Seq(S)
  /\ x.todo # <<>> /\ x.todo[1].op # "body"
Leaves(x, old, new, decided, others) ==
  /\ Grown(old, new) /\ decided \subseteq others
  /\ x.kind = "exec" => new[x.run].next = old[x.run].next
  /\ \A r \in Runs : Inserted(x, x.todo, r) => new[r].status # "none"

LEMMA PlacedRest ==
  ASSUME NEW x, NEW y, Rests(x, y), NEW old, NEW new, NEW decided, NEW others,
         Leaves(x, old, new, decided, others), Placed(x, old, decided)
  PROVE  /\ Placed(y, new, others) /\ ~Inserts(y.todo)
         /\ \A r : Opens(y.todo, r) => Opens(x.todo, r) /\ ~(x.todo[1].op = "launch" /\ x.todo[1].run = r)
         /\ Advances(y.todo) => Advances(x.todo) /\ x.todo[1].op = "append"
         /\ Attends(y.todo) => Advances(y.todo)
<1> USE DEF Rests, Leaves
<1> DEFINE p == x.todo
           q == y.todo
<1>1. /\ Len(p) \in Nat \ {0} /\ DOMAIN p = 1 .. Len(p)
      /\ DOMAIN q = 1 .. Len(p) - 1 /\ \A i \in 1 .. Len(p) - 1 : q[i] = p[i + 1]
  BY Slots1
<1>2. Ordered(x, p, old) /\ \A i \in DOMAIN p : Sits(x, p[i], old, decided)
  BY DEF Placed
<1>3. \A s : Sits(x, s, old, decided) /\ s.op # "insert run" => Sits(y, s, new, others)
  <2>1. x.kind = "exec" => Made(old, x.run)
    BY DEF Placed
  <2> QED BY <2>1, SitsStill
<1>4. y.kind = "exec" => Made(new, y.run) /\ y.at = new[y.run].next
  <2>1. y.kind = x.kind /\ y.run = x.run /\ y.at = x.at
    BY DEF Same
  <2>2. x.kind = "exec" => Made(old, x.run) /\ x.at = old[x.run].next
    BY DEF Placed
  <2> QED BY <2>1, <2>2, GrownSame
<1>5. \A r \in Runs : Inserted(x, p, r) => new[r].status # "none"
  OBVIOUS
<1>6. 1 \in DOMAIN p /\ p[1].op # "body"
  BY <1>1
<1> HIDE DEF p, q, Rests
<1>7. ASSUME NEW i \in DOMAIN q
      PROVE  i + 1 \in DOMAIN p /\ q[i] = p[i + 1] /\ i + 1 # 1 /\ 1 \in 1 .. (i + 1) - 1 /\ i \in Nat
  BY <1>1
<1>8. ASSUME NEW i \in DOMAIN q PROVE q[i].op \notin {"insert", "insert run"} \cup Answers
  <2>1. i + 1 \in DOMAIN p /\ q[i] = p[i + 1] /\ i + 1 # 1
    BY <1>7
  <2> QED BY <1>2, <1>6, <2>1 DEF Ordered
<1>9. \A i \in DOMAIN q : Sits(y, q[i], new, others)
  <2> SUFFICES ASSUME NEW i \in DOMAIN q PROVE Sits(y, q[i], new, others)
    OBVIOUS
  <2>1. Sits(x, q[i], old, decided) /\ q[i].op # "insert run"
    BY <1>2, <1>7, <1>8
  <2> QED BY <1>3, <2>1
<1>10. ASSUME NEW i \in DOMAIN q, q[i].op = "advance"
       PROVE  p[1].op = "append" /\ \A j \in 1 .. i - 1 : q[j].op = "append"
  <2>1. i + 1 \in DOMAIN p /\ q[i] = p[i + 1] /\ 1 \in 1 .. (i + 1) - 1
    BY <1>7
  <2>2. \A j \in 1 .. (i + 1) - 1 : p[j].op = "append"
    BY <1>2, <1>10, <2>1 DEF Ordered
  <2>3. ASSUME NEW j \in 1 .. i - 1 PROVE q[j].op = "append"
    <3>1. j \in 1 .. Len(p) - 1 /\ j + 1 \in 1 .. (i + 1) - 1
      BY <1>1
    <3> QED BY <1>1, <2>2, <3>1
  <2> QED BY <2>1, <2>2, <2>3
<1>11. ASSUME NEW i \in DOMAIN q, q[i].op = "launch"
       PROVE  /\ q[i].run \in Runs /\ new[q[i].run].status # "none"
              /\ \A j \in DOMAIN q : /\ q[j].op \notin {"cancel", "cascade"}
                                     /\ (q[j].op = "launch" /\ q[j].run = q[i].run) => i = j
              /\ ~(p[1].op = "launch" /\ p[1].run = q[i].run)
  <2>1. PICK k \in DOMAIN p : q[i] = p[k] /\ k # 1 /\ k = i + 1 /\ i \in Nat
    BY <1>7
  <2>2. /\ q[i].run \in Runs
        /\ old[q[i].run].status # "none" \/ Inserted(x, p, q[i].run)
        /\ \A j \in DOMAIN p : /\ p[j].op \notin {"cancel", "cascade"}
                               /\ (p[j].op = "launch" /\ p[j].run = q[i].run) => k = j
    BY <1>2, <1>11, <2>1 DEF Ordered
  <2>3. new[q[i].run].status # "none"
    BY <1>5, <2>2 DEF Grown
  <2>4. ASSUME NEW j \in DOMAIN q
        PROVE  /\ q[j].op \notin {"cancel", "cascade"}
               /\ (q[j].op = "launch" /\ q[j].run = q[i].run) => i = j
    <3>1. j + 1 \in DOMAIN p /\ q[j] = p[j + 1] /\ j \in Nat
      BY <1>7
    <3>2. (q[j].op = "launch" /\ q[j].run = q[i].run) => k = j + 1
      BY <2>2, <3>1
    <3> QED BY <2>1, <2>2, <3>1, <3>2
  <2> QED BY <1>6, <2>1, <2>2, <2>3, <2>4
<1>12. Ordered(y, q, new)
  BY <1>8, <1>10, <1>11 DEF Ordered
<1>13. Placed(y, new, others)
  BY <1>4, <1>9, <1>12 DEF Placed, q
<1>14. ~Inserts(q)
  BY <1>8 DEF Inserts
<1>15. ASSUME NEW r, Opens(q, r) PROVE Opens(p, r) /\ ~(p[1].op = "launch" /\ p[1].run = r)
  <2>1. PICK i \in DOMAIN q : q[i].op = "launch" /\ q[i].run = r
    BY <1>15 DEF Opens
  <2>2. i + 1 \in DOMAIN p /\ q[i] = p[i + 1]
    BY <1>7
  <2> QED BY <1>11, <2>1, <2>2 DEF Opens
<1>16. Advances(q) => Advances(p) /\ p[1].op = "append"
  <2> SUFFICES ASSUME NEW i \in DOMAIN q, q[i].op = "advance" PROVE Advances(p) /\ p[1].op = "append"
    BY DEF Advances
  <2>1. i + 1 \in DOMAIN p /\ q[i] = p[i + 1]
    BY <1>7
  <2> QED BY <1>10, <2>1 DEF Advances
<1>17. Attends(q) => Advances(q)
  BY <1>8 DEF Attends
<1> QED BY <1>13, <1>14, <1>15, <1>16, <1>17 DEF p, q

-----------------------------------------------------------------------------
(* The queue, and what a step must show                                    *)

LEMMA QueueKeeps ==
  ASSUME queue \in Seq(Slots), NEW t \in Slots, Current(t),
         NEW x, x.todo # <<>> => Head(x.todo) = x.todo[1],
         NEW woken \in Seq(Slots), queue' = After(x) \o woken
  PROVE  /\ \A u \in Slots \ {t} : Queued(u) => Queued(u)'
         /\ x.todo # <<>> /\ x.todo[1].op \notin {"body", "sleep", "nap"} => Queued(t)'
         /\ x.todo # <<>> /\ x.todo[1].op \notin {"body", "out", "sleep", "nap"} =>
              Current(t)' /\ (woken = <<>> => queue' = queue)
<1> DEFINE q == After(x)
<1>1. /\ Len(queue) \in Nat \ {0} /\ DOMAIN queue = 1 .. Len(queue) /\ queue[1] = t /\ Head(queue) = t
      /\ Tail(queue) \in Seq(Slots) /\ Len(Tail(queue)) = Len(queue) - 1 /\ DOMAIN Tail(queue) = 1 .. Len(queue) - 1
      /\ \A i \in 1 .. Len(queue) - 1 : Tail(queue)[i] = queue[i + 1]
  BY Slots1 DEF Current
<1>2. \/ q = Tail(queue) /\ (x.todo # <<>> => x.todo[1].op \in {"body", "sleep", "nap"})
      \/ q = Append(Tail(queue), t) /\ x.todo[1].op \in {"out", "sleep", "nap"}
      \/ q = queue /\ x.todo # <<>>
  BY <1>1 DEF After, Parks
<1>3. ASSUME NEW u \in Slots \ {t}, Queued(u)
      PROVE  \E k \in 1 .. Len(queue) - 1 : Tail(queue)[k] = u
  <2>1. PICK k \in 1 .. Len(queue) : queue[k] = u
    BY <1>1, <1>3 DEF Queued, Within
  <2>2. k - 1 \in 1 .. Len(queue) - 1 /\ Tail(queue)[k - 1] = u
    BY <1>1, <2>1
  <2> QED BY <2>2
<1>4. queue' = q \o woken
  OBVIOUS
<1> HIDE DEF q
<1>5. ASSUME NEW u, Within(q, u), q \in Seq(Slots) PROVE Queued(u)'
  <2>1. /\ Len(q) \in Nat /\ Len(woken) \in Nat /\ DOMAIN q = 1 .. Len(q)
        /\ DOMAIN queue' = 1 .. Len(q) + Len(woken)
        /\ \A i \in 1 .. Len(q) : queue'[i] = q[i]
    BY <1>4, <1>5, Joined, Slots1
  <2>2. \A i \in DOMAIN q : i \in DOMAIN queue' /\ queue'[i] = q[i]
    BY <2>1
  <2> QED BY <1>5, <2>2 DEF Queued, Within
<1>6. CASE q = Tail(queue) /\ (x.todo # <<>> => x.todo[1].op \in {"body", "sleep", "nap"})
  <2>1. \A u \in Slots \ {t} : Queued(u) => Within(q, u)
    BY <1>1, <1>3, <1>6 DEF Within
  <2> QED BY <1>1, <1>5, <1>6, <2>1
<1>7. CASE q = Append(Tail(queue), t) /\ x.todo[1].op \in {"out", "sleep", "nap"}
  <2>1. /\ q \in Seq(Slots) /\ DOMAIN q = 1 .. Len(queue) /\ q[Len(queue)] = t
        /\ \A k \in 1 .. Len(queue) - 1 : q[k] = Tail(queue)[k]
    BY <1>1, <1>7
  <2>2. ASSUME NEW u \in Slots \ {t}, Queued(u) PROVE Within(q, u)
    <3>1. PICK k \in 1 .. Len(queue) - 1 : Tail(queue)[k] = u
      BY <1>3, <2>2
    <3>2. k \in DOMAIN q /\ q[k] = u
      BY <1>1, <2>1, <3>1
    <3> QED BY <3>2 DEF Within
  <2>3. Within(q, t)
    BY <1>1, <2>1 DEF Within
  <2> QED BY <1>5, <1>7, <2>1, <2>2, <2>3
<1>8. CASE q = queue /\ x.todo # <<>>
  <2>1. Within(q, t) /\ \A u : Queued(u) => Within(q, u)
    BY ONLY <1>1, <1>8 DEF Within, Queued
  <2>2. /\ queue' \in Seq(Slots) /\ queue'[1] = queue[1] /\ Len(queue') = Len(queue) + Len(woken) /\ Len(woken) \in Nat
    BY <1>1, <1>4, <1>8, Joined, Slots1
  <2>3. Len(queue') # 0
    BY <1>1, <2>2
  <2>4. Current(t)'
    BY <1>1, <2>2, <2>3, Slots1 DEF Current
  <2>5. woken = <<>> => queue' = queue
    BY <1>4, <1>8, Joined
  <2> QED BY <1>5, <1>8, <2>1, <2>4, <2>5
<1> QED BY <1>2, <1>6, <1>7, <1>8

(* The first thread of the queue takes a step, and may wake others.        *)
LEMMA TurnGates ==
  ASSUME Inv, Gates, NEW t \in Slots, Current(t), th[t].todo # <<>>,
         NEW x, \E S : x.todo \in Seq(S),
         x.kind = "exec" => th[t].kind = "exec" /\ x.run = th[t].run,
         DOMAIN th' = Slots, th'[t] = (IF x.todo = <<>> THEN Idle ELSE x),
         \A u \in Slots \ {t} : Same(th[u], th'[u]) /\ th'[u].todo = th[u].todo,
         NEW woken \in Seq(Slots), queue' = After(x) \o woken,
         Stored', \A r \in Runs : Position(r)',
         Grown(runs, runs'), Deciders \subseteq Deciders',
         \A r \in Runs : runs'[r].next = runs[r].next \/ Executors(r) \subseteq {t},
         Placed(x, runs', Deciders'),
         \A r \in Runs : Opens(x.todo, r) => Opens(th[t].todo, r) \/ Free(r),
         Attends(x.todo) => queue = <<t>> /\ woken = <<>>,
         Advances(x.todo) => /\ x.run \in Runs /\ Executors(x.run) = {}
                             /\ Found(x.run, x.node, runs', interrupts', cast')
  PROVE  Gates'
<1> DEFINE z == IF x.todo = <<>> THEN Idle ELSE x
<1>1. queue \in Seq(Slots) /\ th'[t] = z
  BY DEF Inv, Typed
<1>0. /\ Len(x.todo) \in Nat /\ DOMAIN x.todo = 1 .. Len(x.todo)
      /\ x.todo # <<>> => Head(x.todo) = x.todo[1] /\ 1 \in DOMAIN x.todo
  BY Slots1
<1>2. /\ \A u \in Slots \ {t} : Queued(u) => Queued(u)'
      /\ x.todo # <<>> /\ x.todo[1].op \notin {"body", "sleep", "nap"} => Queued(t)'
      /\ x.todo # <<>> /\ x.todo[1].op \notin {"body", "out", "sleep", "nap"} =>
           Current(t)' /\ (woken = <<>> => queue' = queue)
  BY <1>0, <1>1, QueueKeeps
<1>3. ASSUME NEW u \in Slots \ {t}
      PROVE  /\ ~Attends(th[u].todo) /\ ~Advances(th[u].todo) /\ ~Inserts(th[u].todo)
             /\ Placed(th[u], runs, Deciders)
  BY DEF Gates, InOrder, Current, Attends
<1>4. /\ Placed(z, runs', Deciders')
      /\ z.kind = "exec" => x.kind = "exec" /\ z.run = x.run
      /\ \A r : Opens(z.todo, r) => Opens(x.todo, r)
      /\ (Attends(z.todo) => Attends(x.todo)) /\ (Advances(z.todo) => Advances(x.todo))
      /\ (Inserts(z.todo) => Inserts(x.todo))
  <2>1. CASE x.todo = <<>>
    <3>1. z = Idle
      BY <2>1
    <3> HIDE DEF z
    <3> QED BY <3>1, IdlePlaced, IdleProper
  <2> QED BY <2>1
<1>5. (z.todo # <<>> \/ Inserts(z.todo)) => x.todo # <<>> /\ z = x
  BY IdleProper, IdlePlaced
<1> HIDE DEF z
<1>6. ASSUME NEW u \in Slots \ {t} PROVE Placed(th'[u], runs', Deciders')
  <2>1. ASSUME th[u].kind = "exec" PROVE runs'[th[u].run].next = runs[th[u].run].next
    <3>1. th[u].run \in Runs
      BY <1>3, <2>1 DEF Placed, Made
    <3>2. u \in Executors(th[u].run)
      BY <2>1 DEF Executors
    <3> QED BY <3>1, <3>2
  <2>2. /\ Same(th[u], th'[u]) /\ th'[u].todo = th[u].todo
        /\ Placed(th[u], runs, Deciders) /\ ~Inserts(th[u].todo)
        /\ th[u].kind = "exec" => runs'[th[u].run].next = runs[th[u].run].next
    BY <1>3, <2>1
  <2> QED BY <2>2, PlacedStill
<1>7. \A u \in Slots : Placed(th'[u], runs', Deciders')
  BY <1>1, <1>4, <1>6
<1>8. ASSUME NEW r \in Runs PROVE Executors(r)' \subseteq Executors(r)
  BY <1>1, <1>4 DEF Executors, Same
<1>9. ASSUME NEW u \in Slots, NEW r, Opens(th'[u].todo, r), r \in Runs
      PROVE  Opens(th[u].todo, r) \/ (u = t /\ Free(r))
  BY <1>1, <1>4, <1>9
<1>10. OneEach'
  <2>1. ASSUME NEW u \in Slots, NEW v \in Slots, th'[u].kind = "exec", th'[v].kind = "exec", th'[u].run = th'[v].run
        PROVE  u = v
    <3>1. \A w \in {u, v} : th[w].kind = "exec" /\ th[w].run = th'[w].run
      BY <1>1, <1>4, <2>1 DEF Same
    <3> QED BY <2>1, <3>1 DEF Gates, OneEach
  <2>2. ASSUME NEW u \in Slots, NEW r \in Runs, Opens(th'[u].todo, r) PROVE Executors(r)' = {}
    <3>1. Executors(r) = {}
      BY <1>9, <2>2 DEF Gates, OneEach, Free
    <3> QED BY <1>8, <3>1
  <2>3. ASSUME NEW u \in Slots, NEW r \in Runs, Opens(th'[u].todo, r), NEW v \in Slots, Opens(th'[v].todo, r)
        PROVE  v = u
    <3>1. Opens(th[u].todo, r) \/ (u = t /\ Free(r))
      BY <1>9, <2>3
    <3>2. Opens(th[v].todo, r) \/ (v = t /\ Free(r))
      BY <1>9, <2>3
    <3>3. Opens(th[u].todo, r) /\ Opens(th[v].todo, r) => v = u
      BY DEF Gates, OneEach
    <3> QED BY <3>1, <3>2, <3>3 DEF Free
  <2> QED BY <2>1, <2>2, <2>3 DEF OneEach
<1>11. ASSUME NEW u \in Slots \ {t}
       PROVE  /\ th'[u].todo # <<>> /\ ~Queued(u)' => th'[u].todo[1].op \in {"body", "sleep", "nap"}
              /\ ~Attends(th'[u].todo) /\ ~Advances(th'[u].todo) /\ ~Inserts(th'[u].todo)
  <2>1. th'[u].todo = th[u].todo
    OBVIOUS
  <2>2. th[u].todo # <<>> /\ ~Queued(u) => th[u].todo[1].op \in {"body", "sleep", "nap"}
    BY DEF Gates, InOrder
  <2> QED BY <1>2, <1>3, <2>1, <2>2
<1>12. z.todo # <<>> /\ ~Queued(t)' => z.todo[1].op \in {"body", "sleep", "nap"}
  BY <1>2, <1>5
<1>13. ASSUME Attends(z.todo) PROVE queue' = <<t>>
  <2>1. Attends(x.todo)
    BY <1>4, <1>13
  <2>2. x.todo # <<>> /\ z = x
    BY <1>5, <1>13, Slots1 DEF Attends, Advances
  <2>3. x.todo[1].op \in {"append", "advance"} \cup Answers
    <3>1. CASE 1 \in DOMAIN x.todo /\ x.todo[1].op \in Answers
      BY <3>1
    <3>2. CASE Advances(x.todo)
      <4>1. PICK i \in DOMAIN x.todo : x.todo[i].op = "advance"
        BY <3>2 DEF Advances
      <4>2. Ordered(x, x.todo, runs')
        BY <2>2, <1>4 DEF Placed
      <4>3. i = 1 \/ 1 \in 1 .. i - 1
        BY <1>0
      <4>4. \A j \in 1 .. i - 1 : x.todo[j].op = "append"
        BY <4>1, <4>2 DEF Ordered
      <4> QED BY <4>1, <4>3, <4>4
    <3> QED BY <2>1, <3>1, <3>2 DEF Attends
  <2>4. x.todo[1].op \notin {"body", "out", "sleep", "nap"}
    BY <2>3 DEF Answers
  <2> QED BY <1>2, <2>1, <2>2, <2>4
<1>14. ASSUME Inserts(z.todo) PROVE Current(t)'
  <2>1. PICK i \in DOMAIN z.todo : z.todo[i].op \in {"insert", "insert run"}
    BY <1>14 DEF Inserts
  <2>2. x.todo # <<>> /\ z = x
    BY <1>5, <1>14
  <2>3. Ordered(x, x.todo, runs')
    BY <2>2, <1>4 DEF Placed
  <2>4. x.todo[1].op \in {"insert", "insert run"}
    BY <2>1, <2>2, <2>3 DEF Ordered
  <2> QED BY <1>2, <2>2, <2>4
<1>15. ASSUME Advances(z.todo), NEW r, NEW n, r = z.run, n = z.node PROVE Ahead(r, n)'
  <2>1. Advances(x.todo) /\ z = x
    BY <1>4, <1>5, <1>15, Slots1 DEF Advances
  <2>2. r \in Runs /\ Executors(r) = {} /\ Found(r, n, runs', interrupts', cast')
    BY <1>15, <2>1
  <2>3. Executors(r)' = {}
    BY <1>8, <2>2
  <2> QED BY <2>2, <2>3 DEF Ahead
<1>16. InOrder'
  <2>1. ASSUME NEW u \in Slots
        PROVE  /\ th'[u].todo # <<>> /\ ~Queued(u)' => th'[u].todo[1].op \in {"body", "sleep", "nap"}
               /\ Attends(th'[u].todo) => queue' = <<u>>
               /\ Inserts(th'[u].todo) => Current(u)'
    BY <1>1, <1>11, <1>12, <1>13, <1>14
  <2>2. ASSUME NEW u \in Slots, Advances(th'[u].todo) PROVE Ahead(th[u].run, th[u].node)'
    <3>1. u = t
      BY <1>11, <2>2
    <3>2. PICK r, n : r = z.run /\ n = z.node
      OBVIOUS
    <3>3. Ahead(r, n)'
      BY <1>1, <1>15, <2>2, <3>1, <3>2
    <3>4. r = th'[u].run /\ n = th'[u].node
      BY <1>1, <3>1, <3>2
    <3> QED BY <3>3, <3>4 DEF Ahead, Executors, Found
  <2> QED BY <2>1, <2>2 DEF InOrder
<1> QED BY <1>7, <1>10, <1>16 DEF Gates

LEMMA SameRetold ==
  ASSUME NEW y, DOMAIN y = DOMAIN Idle, NEW p
  PROVE  Same(y, [y EXCEPT !.todo = p]) /\ [y EXCEPT !.todo = p].todo = p
BY DEF Same, Idle

(* The first thread makes one statement, and goes on with the rest.        *)
LEMMA RestGates ==
  ASSUME Inv, Gates, NEW t \in Slots, Current(t), th[t].todo # <<>>, First(t).op # "body",
         NEW x, x = [th[t] EXCEPT !.todo = Tail(th[t].todo)],
         DOMAIN th' = Slots, th'[t] = (IF x.todo = <<>> THEN Idle ELSE x),
         \A u \in Slots \ {t} : Same(th[u], th'[u]) /\ th'[u].todo = th[u].todo,
         NEW woken \in Seq(Slots), queue' = After(x) \o woken,
         Stored', \A r \in Runs : Position(r)',
         Grown(runs, runs'), Deciders \subseteq Deciders',
         \A r \in Runs : runs'[r].next = runs[r].next \/ Executors(r) = {},
         First(t).op = "append" => UNCHANGED <<runs, interrupts, cast>> /\ woken = <<>>,
         \A r \in Runs : Inserted(th[t], th[t].todo, r) => runs'[r].status # "none"
  PROVE  Gates'
<1> DEFINE y == th[t]
<1>1. Program(y) /\ Placed(y, runs, Deciders) /\ DOMAIN y = DOMAIN Idle
  BY DEF Inv, Programs, Proper, Program, Gates
<1>2. PICK S : y.todo \in Seq(S)
  BY <1>1 DEF Program
<1>3. Tail(y.todo) \in Seq(S) /\ y.todo[1] = First(t) /\ y.todo # <<>>
  BY <1>2, Slots1 DEF First
<1>4. Same(y, x) /\ x.todo = Tail(y.todo)
  BY <1>1, SameRetold
<1>5. y.kind = "exec" => runs'[y.run].next = runs[y.run].next
  <2> SUFFICES ASSUME y.kind = "exec" PROVE runs'[y.run].next = runs[y.run].next
    OBVIOUS
  <2>1. y.run \in Runs /\ t \in Executors(y.run)
    BY <1>1 DEF Placed, Made, Executors
  <2> QED BY <2>1
<1>6. Stored' /\ \A r \in Runs : Position(r)'
  OBVIOUS
<1>7. /\ Grown(runs, runs') /\ Deciders \subseteq Deciders'
      /\ \A r \in Runs : runs'[r].next = runs[r].next \/ Executors(r) \subseteq {t}
      /\ \A r \in Runs : Inserted(y, y.todo, r) => runs'[r].status # "none"
  OBVIOUS
<1>8. DOMAIN th' = Slots /\ th'[t] = (IF x.todo = <<>> THEN Idle ELSE x) /\ queue' = After(x) \o woken
  OBVIOUS
<1>9. First(t).op = "append" => runs' = runs /\ interrupts' = interrupts /\ cast' = cast /\ woken = <<>>
  OBVIOUS
<1>10. Advances(y.todo) => queue = <<t>> /\ Ahead(y.run, y.node)
  BY DEF Gates, InOrder, Attends
<1> HIDE DEF y
<1>17. /\ (\E T : y.todo \in Seq(T)) /\ y.todo # <<>> /\ y.todo[1].op # "body"
       /\ Placed(y, runs, Deciders) /\ y.todo[1].op = First(t).op
  BY <1>1, <1>2, <1>3
<1>11. /\ Placed(x, runs', Deciders') /\ ~Inserts(x.todo)
       /\ \A r : Opens(x.todo, r) => Opens(y.todo, r)
       /\ Advances(x.todo) => Advances(y.todo) /\ First(t).op = "append"
       /\ Attends(x.todo) => Advances(x.todo)
  <2>1. /\ Placed(x, runs', Deciders') /\ ~Inserts(x.todo)
        /\ \A r : Opens(x.todo, r) => Opens(y.todo, r) /\ ~(y.todo[1].op = "launch" /\ y.todo[1].run = r)
        /\ Advances(x.todo) => Advances(y.todo) /\ y.todo[1].op = "append"
        /\ Attends(x.todo) => Advances(x.todo)
    <3>1. Rests(y, x) /\ Leaves(y, runs, runs', Deciders, Deciders')
      BY <1>4, <1>5, <1>7, <1>17 DEF Rests, Leaves
    <3> QED BY <1>17, <3>1, PlacedRest
  <2> QED BY <1>17, <2>1
<1>12. Attends(x.todo) => queue = <<t>> /\ woken = <<>>
  BY <1>9, <1>10, <1>11
<1>13. Advances(x.todo) => /\ x.run \in Runs /\ Executors(x.run) = {}
                           /\ Found(x.run, x.node, runs', interrupts', cast')
  <2> SUFFICES ASSUME Advances(x.todo) PROVE /\ x.run \in Runs /\ Executors(x.run) = {}
                                             /\ Found(x.run, x.node, runs', interrupts', cast')
    OBVIOUS
  <2>1. Ahead(x.run, x.node) /\ runs' = runs /\ interrupts' = interrupts /\ cast' = cast
    BY <1>4, <1>9, <1>10, <1>11 DEF Same
  <2>2. PICK i \in DOMAIN x.todo : x.todo[i].op = "advance"
    BY DEF Advances
  <2>3. x.run \in Runs
    BY <1>11, <2>2 DEF Placed, Sits, Answering, Made
  <2> QED BY <2>1, <2>3 DEF Ahead
<1>14. x.kind = "exec" => th[t].kind = "exec" /\ x.run = th[t].run
  BY <1>4 DEF Same, y
<1>15. \A r \in Runs : Opens(x.todo, r) => Opens(th[t].todo, r) \/ Free(r)
  BY <1>11 DEF y
<1>16. \E T : x.todo \in Seq(T)
  BY <1>3, <1>4
<1> QED BY <1>6, <1>7, <1>8, <1>11, <1>12, <1>13, <1>14, <1>15, <1>16, TurnGates

(* As it is for a thread that wakes nobody.                                *)
LEMMA RestOfIt ==
  ASSUME Inv, NEW t \in Slots, NEW op, At(t, op), Then(t, <<>>)
  PROVE  LET x == [th[t] EXCEPT !.todo = Tail(th[t].todo)] IN
         /\ Current(t) /\ th[t].todo # <<>> /\ First(t).op = op
         /\ DOMAIN th' = Slots /\ th'[t] = (IF x.todo = <<>> THEN Idle ELSE x)
         /\ \A u \in Slots \ {t} : th'[u] = th[u]
         /\ queue' = After(x)
<1> DEFINE x == [th[t] EXCEPT !.todo = Tail(th[t].todo)]
<1>1. Current(t) /\ th[t].todo # <<>> /\ First(t).op = op /\ Program(th[t])
  BY FirstFits
<1>2. PICK S : th[t].todo \in Seq(S)
  BY <1>1 DEF Program
<1>3. <<>> \o Rest(t) = Tail(th[t].todo)
  BY <1>1, <1>2, Slots1, Joined DEF Rest
<1>4. Becomes(t, x)
  BY <1>3 DEF Then, Goes
<1>5. DOMAIN th = Slots
  BY DEF Inv, Typed
<1> QED BY <1>1, <1>4, <1>5 DEF Becomes

LEMMA StatementGates ==
  ASSUME Inv, Gates, NEW t \in Slots, NEW op, At(t, op), op # "body", Then(t, <<>>),
         Stored', \A r \in Runs : Position(r)',
         Grown(runs, runs'), Deciders \subseteq Deciders',
         \A r \in Runs : runs'[r].next = runs[r].next \/ Executors(r) = {},
         op = "append" => UNCHANGED <<runs, interrupts, cast>>,
         \A r \in Runs : Inserted(th[t], th[t].todo, r) => runs'[r].status # "none"
  PROVE  Gates'
<1>1. PICK x : x = [th[t] EXCEPT !.todo = Tail(th[t].todo)]
  OBVIOUS
<1>2. /\ Current(t) /\ th[t].todo # <<>> /\ First(t).op = op
      /\ DOMAIN th' = Slots /\ th'[t] = (IF x.todo = <<>> THEN Idle ELSE x)
      /\ \A u \in Slots \ {t} : th'[u] = th[u]
      /\ queue' = After(x)
  BY <1>1, RestOfIt
<1>3. \A u \in Slots \ {t} : Same(th[u], th'[u]) /\ th'[u].todo = th[u].todo
  BY <1>2 DEF Same
<1>4. /\ <<>> \in Seq(Slots) /\ queue' = After(x) \o <<>>
  <2>1. After(x) \in Seq(Slots)
    <3>1. queue \in Seq(Slots) /\ queue # <<>>
      BY <1>2 DEF Inv, Typed, Current
    <3>2. Tail(queue) \in Seq(Slots) /\ Head(queue) \in Slots
      BY <3>1
    <3> QED BY <3>1, <3>2 DEF After
  <2> QED BY <1>2, <2>1, Joined
<1> QED BY <1>1, <1>2, <1>3, <1>4, RestGates

-----------------------------------------------------------------------------
(* Statements                                                              *)

LEMMA PositionStill ==
  ASSUME NEW r \in Runs, Position(r), UNCHANGED <<log, interrupts, cast>>,
         runs'[r].flow = runs[r].flow, runs'[r].next = runs[r].next,
         runs'[r].status = "none" => runs[r].status = "none"
  PROVE  Position(r)'
BY DEF Position, Honoured, Decided, Logged, Kind, Length, Open

(* Where the runs are is as it was.                                        *)
LEMMA RowsStill ==
  ASSUME Gates, UNCHANGED <<log, interrupts, cast>>,
         \A r \in Runs : /\ runs'[r].flow = runs[r].flow /\ runs'[r].next = runs[r].next
                         /\ runs[r].status # "none" => runs'[r].status # "none"
  PROVE  /\ Stored' /\ \A r \in Runs : Position(r)'
         /\ Deciders' = Deciders /\ Grown(runs, runs')
<1>1. Stored'
  BY DEF Gates, Stored
<1>2. \A r \in Runs : Position(r)'
  BY PositionStill DEF Gates
<1>3. Deciders' = Deciders
  BY DEF Deciders, Decided, Logged
<1> QED BY <1>1, <1>2, <1>3 DEF Grown

LEMMA WithIn ==
  ASSUME NEW b, NEW type, NEW n, NEW other, NEW m
  PROVE  In(With(b, type, n), other, m) <=> In(b, other, m) \/ (other = type /\ m = n)
BY DEF In, With, BagIn, BagToSet, SetToBag, (+)

LEMMA AppendEventGates ==
  ASSUME Inv, Gates, NEW t \in Slots, AppendEvent(t)
  PROVE  Gates'
<1> DEFINE e == First(t)
<1>1. /\ At(t, "append") /\ Then(t, <<>>) /\ UNCHANGED <<runs, interrupts, cast>>
      /\ log' = [log EXCEPT ![e.run] = With(@, e.type, e.node)]
  BY DEF AppendEvent
<1>2. 1 \in DOMAIN th[t].todo /\ e = th[t].todo[1] /\ e.op = "append"
  BY <1>1, FirstFits
<1>3. Placed(th[t], runs, Deciders) /\ DOMAIN log = Runs
  BY DEF Gates, Stored
<1>4. Sits(th[t], e, runs, Deciders)
  BY <1>2, <1>3 DEF Placed
<1>5. e.type = Decision =>
        /\ e.run \in Runs /\ runs[e.run].status # "none" /\ runs[e.run].next \in 1 .. Length(e.run)
        /\ Kind(e.run, runs[e.run].next) = "supervisor"
  BY <1>2, <1>3, <1>4 DEF Sits, Placed, Made, On, KindIn, Kind, Length
<1> HIDE DEF e
<1>6. ASSUME NEW r \in Runs, NEW m
      PROVE  Logged(r, Decision, m)' <=> Logged(r, Decision, m) \/ (r = e.run /\ e.type = Decision /\ m = e.node)
  <2>1. CASE r = e.run
    <3>1. log'[r] = With(log[r], e.type, e.node)
      BY <1>1, <1>3, <2>1
    <3> QED BY <2>1, <3>1, WithIn DEF Logged
  <2>2. CASE r # e.run
    <3>1. log'[r] = log[r]
      BY <1>1, <1>3, <2>2
    <3> QED BY <2>2, <3>1 DEF Logged
  <2> QED BY <2>1, <2>2
<1>7. ASSUME NEW r \in Runs
      PROVE  /\ Decided(r) => Decided(r)'
             /\ Decided(r)' => Decided(r) \/ (r = e.run /\ e.type = Decision)
  BY <1>6 DEF Decided
<1>8. ASSUME NEW r \in Runs PROVE Position(r)'
  <2>1. Position(r)
    BY DEF Gates
  <2>2. /\ \A n : (Kind(r, n)' = Kind(r, n)) /\ (Open(r, n)' <=> Open(r, n)) /\ (Honoured(r, n)' <=> Honoured(r, n))
        /\ Length(r)' = Length(r)
    BY <1>1 DEF Kind, Open, Honoured, Length
  <2>3. Decided(r)' => Decided(r) \/ /\ runs[r].status # "none" /\ runs[r].next \in 1 .. Length(r)
                                     /\ Kind(r, runs[r].next) = "supervisor"
    BY <1>5, <1>7
  <2>4. Decided(r)' => \E m \in 1 .. Length(r) : Kind(r, m) = "supervisor" /\ m <= runs[r].next
    <3>1. CASE Decided(r)
      BY <2>1, <3>1 DEF Position
    <3>2. CASE runs[r].next \in 1 .. Length(r) /\ Kind(r, runs[r].next) = "supervisor"
      BY <3>2
    <3> QED BY <2>3, <3>1, <3>2
  <2>5. runs[r].status = "none" => ~Decided(r)'
    BY <2>1, <2>3 DEF Position
  <2> QED BY <1>1, <2>1, <2>2, <2>4, <2>5 DEF Position
<1>9. Stored'
  BY <1>1 DEF Gates, Stored
<1>10. Deciders \subseteq Deciders' /\ Grown(runs, runs')
  BY <1>1, <1>7 DEF Deciders, Grown
<1>11. \A r \in Runs : ~Inserted(th[t], th[t].todo, r)
  BY <1>2 DEF Inserted
<1> QED BY <1>1, <1>8, <1>9, <1>10, <1>11, StatementGates

(* Of those that leave the runs where they are.                            *)
LEMMA QuietGates ==
  ASSUME Inv, Gates, NEW t \in Slots,
         NEW op \in {"set", "release", "request", "insert", "key", "launch"}, At(t, op), Then(t, <<>>),
         UNCHANGED <<log, interrupts, cast>>,
         \A r \in Runs : /\ runs'[r].flow = runs[r].flow /\ runs'[r].next = runs[r].next
                         /\ runs[r].status # "none" => runs'[r].status # "none"
                         /\ op = "insert" /\ th[t].child = r => runs'[r].status # "none"
  PROVE  Gates'
<1>1. th[t].todo[1].op = op
  BY FirstFits
<1>2. \A r \in Runs : Inserted(th[t], th[t].todo, r) => runs'[r].status # "none"
  BY <1>1 DEF Inserted
<1>3. /\ Stored' /\ \A r \in Runs : Position(r)'
      /\ Deciders \subseteq Deciders' /\ Grown(runs, runs')
      /\ \A r \in Runs : runs'[r].next = runs[r].next
  BY RowsStill
<1> QED BY <1>2, <1>3, StatementGates

LEMMA QuietGatesSteps ==
  ASSUME Inv, Gates, NEW t \in Slots,
         \/ SetStatus(t) \/ ReleaseClaim(t) \/ SetCancelRequested(t) \/ InsertChild(t) \/ InsertIdempotency(t)
         \/ At(t, "launch") /\ Then(t, <<>>) /\ UNCHANGED <<runs, log, interrupts, cast>>
  PROVE  Gates'
<1>0. DOMAIN runs = Runs /\ \A r \in Runs : DOMAIN runs[r] = RunFields
  BY RowsTyped
<1>1. CASE SetStatus(t)
  <2>1. At(t, "set") /\ Then(t, <<>>) /\ UNCHANGED <<log, interrupts, cast>>
    BY <1>1 DEF SetStatus
  <2>2. First(t).status # "none"
    BY <2>1, FirstFits DEF Fits, Statuses, Live, Waiting, Terminal
  <2>3. \A r \in Runs : /\ runs'[r].flow = runs[r].flow /\ runs'[r].next = runs[r].next
                        /\ runs[r].status # "none" => runs'[r].status # "none"
    BY <1>0, <1>1, <2>2 DEF SetStatus, RunFields
  <2> QED BY <2>1, <2>3, QuietGates
<1>2. CASE ReleaseClaim(t)
  <2>1. At(t, "release") /\ Then(t, <<>>) /\ UNCHANGED <<log, interrupts, cast>>
    BY <1>2 DEF ReleaseClaim
  <2>2. \A r \in Runs : /\ runs'[r].flow = runs[r].flow /\ runs'[r].next = runs[r].next
                        /\ runs[r].status # "none" => runs'[r].status # "none"
    BY <1>0, <1>2 DEF ReleaseClaim, RunFields
  <2> QED BY <2>1, <2>2, QuietGates
<1>3. CASE SetCancelRequested(t)
  <2>1. At(t, "request") /\ Then(t, <<>>) /\ UNCHANGED <<log, interrupts, cast>>
    BY <1>3 DEF SetCancelRequested
  <2>2. \A r \in Runs : /\ runs'[r].flow = runs[r].flow /\ runs'[r].next = runs[r].next
                        /\ runs[r].status # "none" => runs'[r].status # "none"
    BY <1>0, <1>3 DEF SetCancelRequested, RunFields
  <2> QED BY <2>1, <2>2, QuietGates
<1>4. CASE InsertChild(t)
  <2>1. At(t, "insert") /\ Then(t, <<>>) /\ UNCHANGED <<log, interrupts, cast>>
    BY <1>4 DEF InsertChild
  <2>2. \A r \in Runs : /\ runs'[r].flow = runs[r].flow /\ runs'[r].next = runs[r].next
                        /\ runs[r].status # "none" => runs'[r].status # "none"
                        /\ th[t].child = r => runs'[r].status # "none"
    BY <1>0, <1>4 DEF InsertChild, RunFields
  <2> QED BY <2>1, <2>2, QuietGates
<1>5. CASE InsertIdempotency(t)
  <2>1. At(t, "key") /\ Then(t, <<>>) /\ UNCHANGED <<runs, log, interrupts, cast>>
    BY <1>5 DEF InsertIdempotency
  <2> QED BY <2>1, QuietGates
<1>6. CASE At(t, "launch") /\ Then(t, <<>>) /\ UNCHANGED <<runs, log, interrupts, cast>>
  BY <1>6, QuietGates
<1> QED BY <1>1, <1>2, <1>3, <1>4, <1>5, <1>6

LEMMA CreateInterruptGates ==
  ASSUME Inv, Gates, NEW t \in Slots, CreateInterrupt(t)
  PROVE  Gates'
<1> DEFINE r == th[t].run
           n == th[t].at
<1>1. /\ At(t, "mint") /\ Then(t, <<>>) /\ UNCHANGED <<runs, log>>
      /\ interrupts' = [interrupts EXCEPT ![r][n] = Minted(@)]
      /\ cast' = IF Open(r, n) THEN cast ELSE [cast EXCEPT ![r][n] = {}]
  BY DEF CreateInterrupt
<1>2. 1 \in DOMAIN th[t].todo /\ th[t].todo[1].op = "mint"
  BY <1>1, FirstFits
<1>3. Placed(th[t], runs, Deciders) /\ Stored /\ \A q \in Runs : Position(q)
  BY DEF Gates
<1>4. /\ r \in Runs /\ runs[r].status # "none" /\ n = runs[r].next
      /\ n \in 1 .. Length(r) /\ Kind(r, n) \in Asking
  BY <1>2, <1>3 DEF Placed, Sits, Made, On, KindIn, Kind, Length
<1> HIDE DEF r, n
<1>5. ASSUME NEW q \in Runs, NEW m \in Nodes, q # r \/ m # n
      PROVE  interrupts'[q][m] = interrupts[q][m] /\ cast'[q][m] = cast[q][m]
  BY <1>1, <1>3, <1>5 DEF Stored
<1>6. n \in Nodes => /\ interrupts'[r][n] = Minted(interrupts[r][n])
                     /\ cast'[r][n] = IF Open(r, n) THEN cast[r][n] ELSE {}
  BY <1>1, <1>3, <1>4 DEF Stored
<1>7. Tallied({}, {})
  BY FS_EmptySet DEF Tallied
<1>8. Stored'
  <2>1. \A q \in Runs : /\ DOMAIN interrupts'[q] = Nodes /\ DOMAIN cast'[q] = Nodes
    BY <1>1, <1>3 DEF Stored
  <2>2. n \in Nodes => DOMAIN interrupts'[r][n] = {"state", "votes"}
    BY <1>3, <1>4, <1>6 DEF Stored, Minted
  <2>3. DOMAIN log' = Runs /\ DOMAIN interrupts' = Runs /\ DOMAIN cast' = Runs
    BY <1>1, <1>3 DEF Stored
  <2>4. \A q \in Runs : \A m \in Nodes : DOMAIN interrupts'[q][m] = {"state", "votes"}
    BY <1>3, <1>5, <2>2 DEF Stored
  <2> QED BY <2>1, <2>3, <2>4 DEF Stored
<1>9. ASSUME NEW q \in Runs PROVE Position(q)'
  <2>1. Position(q)
    BY <1>3
  <2>2. (Decided(q)' <=> Decided(q)) /\ Length(q)' = Length(q) /\ \A m : Kind(q, m)' = Kind(q, m)
    BY <1>1 DEF Decided, Logged, Length, Kind
  <2>3. ASSUME NEW m \in 1 .. Length(q), m < runs[q].next PROVE Honoured(q, m)'
    <3>1. Honoured(q, m) /\ (q # r \/ m # n)
      BY <1>4, <2>1, <2>3 DEF Position
    <3>2. m \in Nodes
      BY <2>1, SqliteAssumption DEF Nodes, Position, Length
    <3>3. cast'[q][m] = cast[q][m]
      BY <1>5, <3>1, <3>2
    <3> QED BY <2>2, <3>1, <3>3 DEF Honoured
  <2>4. ASSUME NEW m \in Nodes
        PROVE  /\ IsFiniteSet(cast'[q][m])
               /\ Open(q, m)' => /\ m = runs[q].next /\ m \in 1 .. Length(q) /\ Kind(q, m) \in Asking
                                 /\ Tallied(interrupts'[q][m].votes, cast'[q][m])
    <3>1. CASE q # r \/ m # n
      BY <1>5, <2>1, <3>1 DEF Position, Open
    <3>2. CASE q = r /\ m = n
      <4>1. CASE Open(r, n)
        <5>1. interrupts'[q][m] = interrupts[q][m] /\ cast'[q][m] = cast[q][m]
          BY <1>6, <3>2, <4>1 DEF Open, Minted
        <5> QED BY <2>1, <5>1 DEF Position, Open
      <4>2. CASE ~Open(r, n)
        <5>1. interrupts'[q][m].votes = {} /\ cast'[q][m] = {}
          BY <1>6, <3>2, <4>2 DEF Open, Minted
        <5> QED BY <1>4, <1>7, <3>2, <5>1, FS_EmptySet
      <4> QED BY <4>1, <4>2
    <3> QED BY <3>1, <3>2
  <2>5. runs[q].status = "none" => \A m \in Nodes : ~Open(q, m)'
    <3> SUFFICES ASSUME runs[q].status = "none", NEW m \in Nodes PROVE ~Open(q, m)'
      OBVIOUS
    <3>1. q # r
      BY <1>4
    <3>2. interrupts'[q][m] = interrupts[q][m]
      BY <1>5, <3>1
    <3> QED BY <2>1, <3>2 DEF Position, Open
  <2> QED BY <1>1, <2>1, <2>2, <2>3, <2>4, <2>5 DEF Position
<1>10. Deciders' = Deciders /\ Grown(runs, runs')
  BY <1>1 DEF Deciders, Decided, Logged, Grown
<1>11. \A q \in Runs : ~Inserted(th[t], th[t].todo, q)
  BY <1>2 DEF Inserted
<1> QED BY <1>1, <1>8, <1>9, <1>10, <1>11, StatementGates

LEMMA InvalidateInterruptsGates ==
  ASSUME Inv, Gates, NEW t \in Slots, InvalidateInterrupts(t)
  PROVE  Gates'
<1> DEFINE c == First(t).run
<1>1. /\ At(t, "invalidate") /\ Then(t, <<>>) /\ UNCHANGED <<runs, log, cast>>
      /\ interrupts' = [interrupts EXCEPT ![c] =
           [n \in Nodes |-> IF @[n].state = "open" THEN [@[n] EXCEPT !.state = "invalidated"] ELSE @[n]]]
  BY DEF InvalidateInterrupts
<1>2. th[t].todo[1].op = "invalidate"
  BY <1>1, FirstFits
<1>3. Stored /\ \A q \in Runs : Position(q)
  BY DEF Gates
<1> HIDE DEF c
<1>4. ASSUME NEW q \in Runs, NEW m \in Nodes
      PROVE  /\ DOMAIN interrupts'[q] = Nodes /\ DOMAIN interrupts'[q][m] = {"state", "votes"}
             /\ interrupts'[q][m].state = "open" => interrupts'[q][m] = interrupts[q][m]
  <2>1. CASE q = c
    <3>1. interrupts'[q] = [n \in Nodes |-> IF interrupts[q][n].state = "open"
                                            THEN [interrupts[q][n] EXCEPT !.state = "invalidated"]
                                            ELSE interrupts[q][n]]
      BY <1>1, <1>3, <2>1 DEF Stored
    <3>2. DOMAIN interrupts[q][m] = {"state", "votes"}
      BY <1>3 DEF Stored
    <3> QED BY <3>1, <3>2
  <2>2. CASE q # c
    <3>1. interrupts'[q] = interrupts[q]
      BY <1>1, <1>3, <2>2 DEF Stored
    <3> QED BY <1>3, <3>1 DEF Stored
  <2> QED BY <2>1, <2>2
<1>5. Stored'
  <2>1. DOMAIN log' = Runs /\ DOMAIN interrupts' = Runs /\ DOMAIN cast' = Runs
    BY <1>1, <1>3 DEF Stored
  <2>2. \A q \in Runs : DOMAIN interrupts'[q] = Nodes
    <3>1. 0 \in Nodes
      BY DEF Nodes
    <3> QED BY <1>4, <3>1
  <2> QED BY <1>1, <1>3, <1>4, <2>1, <2>2 DEF Stored
<1>6. ASSUME NEW q \in Runs PROVE Position(q)'
  <2>1. Position(q)
    BY <1>3
  <2>2. /\ (Decided(q)' <=> Decided(q)) /\ Length(q)' = Length(q)
        /\ \A m : (Kind(q, m)' = Kind(q, m)) /\ (Honoured(q, m)' <=> Honoured(q, m))
    BY <1>1 DEF Decided, Logged, Length, Kind, Honoured
  <2>3. \A m \in Nodes : Open(q, m)' => Open(q, m) /\ interrupts'[q][m] = interrupts[q][m]
    BY <1>4 DEF Open
  <2> QED BY <1>1, <2>1, <2>2, <2>3 DEF Position
<1>7. Deciders' = Deciders /\ Grown(runs, runs')
  BY <1>1 DEF Deciders, Decided, Logged, Grown
<1>8. \A q \in Runs : ~Inserted(th[t], th[t].todo, q)
  BY <1>2 DEF Inserted
<1> QED BY <1>1, <1>5, <1>6, <1>7, <1>8, StatementGates

(* The handler of an answer is first, and alone: it found its votes.       *)
LEMMA AdvanceGates ==
  ASSUME Inv, Gates, NEW t \in Slots, Advance(t)
  PROVE  Gates'
<1> DEFINE r == th[t].run
           n == th[t].node
           row == IF Kind(r, n) = "external" THEN runs[r].next ELSE th[t].row
<1>1. /\ At(t, "advance") /\ Then(t, <<>>) /\ UNCHANGED <<log, interrupts, cast>>
      /\ runs' = [runs EXCEPT ![r].status = "running", ![r].next = row + 1]
  BY DEF Advance
<1>2. 1 \in DOMAIN th[t].todo /\ th[t].todo[1].op = "advance"
  BY <1>1, FirstFits
<1>3. Placed(th[t], runs, Deciders) /\ Stored /\ Ahead(r, n) /\ \A q \in Runs : Position(q)
  BY <1>2 DEF Gates, InOrder, Advances
<1>4. Answering(th[t], runs)
  BY <1>2, <1>3 DEF Placed, Sits
<1>5. r \in Runs /\ runs[r].status # "none" /\ runs[r].next = n /\ row = n /\ Executors(r) = {}
  BY <1>3, <1>4 DEF Answering, Made, Ahead, Found
<1>6. DOMAIN runs = Runs /\ \A q \in Runs : DOMAIN runs[q] = RunFields
  BY RowsTyped
<1>7. Kind(r, n) = "approval" => Cardinality(cast[r][n]) >= Required
  BY <1>3 DEF Ahead, Found, KindIn, Kind
<1>8. \A m \in Nodes : ~Open(r, m)
  BY <1>3 DEF Ahead, Found, Open
<1> HIDE DEF r, n, row
<1>9. /\ runs'[r].next = n + 1 /\ runs'[r].status = "running" /\ runs'[r].flow = runs[r].flow
      /\ \A q \in Runs \ {r} : runs'[q] = runs[q]
  BY <1>1, <1>5, <1>6 DEF RunFields
<1>10. Stored'
  BY <1>1, <1>3 DEF Stored
<1>11. ASSUME NEW q \in Runs PROVE Position(q)'
  <2>1. Position(q)
    BY <1>3
  <2>2. CASE q # r
    BY <1>1, <1>9, <2>1, <2>2, PositionStill
  <2>3. CASE q = r
    <3>1. runs'[q].flow = runs[q].flow
      BY <1>9, <2>3
    <3>2. /\ (Decided(q)' <=> Decided(q)) /\ Length(q)' = Length(q)
          /\ \A m : (Kind(q, m)' = Kind(q, m)) /\ (Honoured(q, m)' <=> Honoured(q, m)) /\ (Open(q, m)' <=> Open(q, m))
      BY <1>1, <3>1 DEF Decided, Logged, Length, Kind, Honoured, Open
    <3>3. n \in Nat \ {0} /\ runs'[q].next = n + 1 /\ runs[q].next = n
      BY <1>5, <1>9, <2>1, <2>3 DEF Position
    <3>4. ASSUME NEW m \in 1 .. Length(q), m < n + 1 PROVE Honoured(q, m)
      <4>1. m < n \/ m = n
        BY <3>3, <3>4
      <4>2. CASE m < n
        BY <2>1, <3>3, <4>2 DEF Position
      <4>3. CASE m = n
        BY <1>7, <2>3, <4>3 DEF Honoured
      <4> QED BY <4>1, <4>2, <4>3
    <3>5. Decided(q) => \E m \in 1 .. Length(q) : Kind(q, m) = "supervisor" /\ m <= n + 1
      <4> SUFFICES ASSUME Decided(q)
                   PROVE  \E m \in 1 .. Length(q) : Kind(q, m) = "supervisor" /\ m <= n + 1
        OBVIOUS
      <4>1. PICK m \in 1 .. Length(q) : Kind(q, m) = "supervisor" /\ m <= n
        BY <2>1, <3>3 DEF Position
      <4>2. m <= n + 1
        BY <3>3, <4>1
      <4> QED BY <4>1, <4>2
    <3>6. n + 1 \in Nat \ {0} /\ runs[q].flow \in DOMAIN Flow /\ \A m \in Nodes : IsFiniteSet(cast[q][m])
      BY <2>1, <3>3 DEF Position
    <3>7. \A m \in Nodes : ~Open(q, m)
      BY <1>8, <2>3
    <3>8. runs'[q].status # "none"
      BY <1>9, <2>3
    <3> QED BY <1>1, <3>1, <3>2, <3>3, <3>4, <3>5, <3>6, <3>7, <3>8 DEF Position
  <2> QED BY <2>2, <2>3
<1>12. Deciders' = Deciders
  BY <1>1 DEF Deciders, Decided, Logged
<1>13. Grown(runs, runs')
  BY <1>9 DEF Grown
<1>14. \A q \in Runs : runs'[q].next = runs[q].next \/ Executors(q) = {}
  BY <1>5, <1>9
<1>15. \A q \in Runs : ~Inserted(th[t], th[t].todo, q)
  BY <1>2 DEF Inserted
<1> QED BY <1>1, <1>10, <1>11, <1>12, <1>13, <1>14, <1>15, StatementGates

LEMMA InsertRunGates ==
  ASSUME Inv, Gates, NEW t \in Slots, InsertRun(t)
  PROVE  Gates'
<1> DEFINE r == th[t].run
           flow == First(t).flow
<1>1. /\ At(t, "insert run") /\ Then(t, <<>>) /\ UNCHANGED <<log, interrupts, cast>>
      /\ runs' = [runs EXCEPT ![r].status = "pending", ![r].flow = flow]
  BY DEF InsertRun
<1>2. 1 \in DOMAIN th[t].todo /\ First(t) = th[t].todo[1] /\ th[t].todo[1].op = "insert run"
  BY <1>1, FirstFits
<1>3. Placed(th[t], runs, Deciders) /\ Stored /\ \A q \in Runs : Position(q)
  BY DEF Gates
<1>4. r \in Runs /\ runs[r].status = "none" /\ flow \in DOMAIN Flow
  BY <1>2, <1>3 DEF Placed, Sits
<1>5. DOMAIN runs = Runs /\ \A q \in Runs : DOMAIN runs[q] = RunFields
  BY RowsTyped
<1>6. \A q \in Runs : Inserted(th[t], th[t].todo, q) => q = r
  BY <1>2 DEF Inserted
<1> HIDE DEF r, flow
<1>7. /\ runs'[r].next = runs[r].next /\ runs'[r].status = "pending" /\ runs'[r].flow = flow
      /\ \A q \in Runs \ {r} : runs'[q] = runs[q]
  BY <1>1, <1>4, <1>5 DEF RunFields
<1>8. Stored'
  BY <1>1, <1>3 DEF Stored
<1>9. ASSUME NEW q \in Runs PROVE Position(q)'
  <2>1. Position(q)
    BY <1>3
  <2>2. CASE q # r
    BY <1>1, <1>7, <2>1, <2>2, PositionStill
  <2>3. CASE q = r
    <3>1. /\ runs[q].next = 1 /\ ~Decided(q) /\ (\A m \in Nodes : ~Open(q, m))
          /\ \A m \in Nodes : IsFiniteSet(cast[q][m])
      BY <1>4, <2>1, <2>3 DEF Position
    <3>2. (Decided(q)' <=> Decided(q)) /\ \A m : (Open(q, m)' <=> Open(q, m))
      BY <1>1 DEF Decided, Logged, Open
    <3>3. runs'[q].next = 1 /\ runs'[q].status # "none" /\ runs'[q].flow \in DOMAIN Flow
      BY <1>4, <1>7, <2>3, <3>1
    <3>4. \A m \in 1 .. Length(q)' : ~(m < 1)
      OBVIOUS
    <3>5. \A m \in 1 .. Length(q)' : m < runs'[q].next => Honoured(q, m)'
      BY <3>3, <3>4
    <3>6. \A m \in Nodes : IsFiniteSet(cast'[q][m]) /\ ~Open(q, m)'
      BY <1>1, <3>1, <3>2
    <3>7. ~Decided(q)' /\ runs'[q].next \in Nat \ {0}
      BY <3>1, <3>2, <3>3
    <3> QED BY <3>3, <3>5, <3>6, <3>7 DEF Position
  <2> QED BY <2>2, <2>3
<1>10. Deciders' = Deciders
  BY <1>1 DEF Deciders, Decided, Logged
<1>11. Grown(runs, runs')
  BY <1>4, <1>7 DEF Grown
<1>12. \A q \in Runs : runs'[q].next = runs[q].next
  BY <1>7
<1>13. \A q \in Runs : Inserted(th[t], th[t].todo, q) => runs'[q].status # "none"
  BY <1>6, <1>7
<1> QED BY <1>1, <1>8, <1>9, <1>10, <1>11, <1>12, <1>13, StatementGates

LEMMA AbortGates ==
  ASSUME Inv, Gates, NEW t \in Slots, Abort(t)
  PROVE  Gates'
<1> DEFINE woken == Executors(First(t).run)
           asleep == {s \in woken \ {t} : ~th[s].aborted /\ (Parked(s, "sleep") \/ Parked(s, "nap"))}
<1>1. PICK x : x = [th[t] EXCEPT !.todo = Tail(th[t].todo)]
  OBVIOUS
<1>2. /\ At(t, "abort") /\ UNCHANGED <<runs, log, interrupts, cast>>
      /\ th' = [s \in Slots |-> IF s = t THEN (IF x.todo = <<>> THEN Idle ELSE x)
                                ELSE IF s \in woken THEN [th[s] EXCEPT !.aborted = TRUE] ELSE th[s]]
      /\ queue' = After(x) \o SetToSeq(asleep)
  BY <1>1 DEF Abort, Tables, Rest
<1>3. /\ Current(t) /\ th[t].todo # <<>> /\ First(t).op = "abort" /\ th[t].todo[1].op = "abort"
  BY <1>2, FirstFits
<1>4. SetToSeq(asleep) \in Seq(Slots)
  <2>1. asleep \subseteq Slots
    BY DEF Executors
  <2> HIDE DEF asleep
  <2>2. SetToSeq(asleep) \in Seq(asleep)
    BY <2>1, FiniteRuns, FS_Subset, Listed
  <2> QED BY <2>1, <2>2
<1>5. \A u \in Slots : DOMAIN th[u] = DOMAIN Idle
  BY DEF Inv, Programs, Proper, Program
<1>6. ASSUME NEW u \in Slots \ {t} PROVE Same(th[u], th'[u]) /\ th'[u].todo = th[u].todo
  <2>1. th'[u] = th[u] \/ th'[u] = [th[u] EXCEPT !.aborted = TRUE]
    BY <1>2
  <2> QED BY <1>5, <2>1 DEF Same, Idle
<1> HIDE DEF asleep, woken
<1>7. DOMAIN th' = Slots /\ th'[t] = (IF x.todo = <<>> THEN Idle ELSE x)
  BY <1>2
<1>8. /\ Stored' /\ \A r \in Runs : Position(r)'
      /\ Deciders \subseteq Deciders' /\ Grown(runs, runs')
      /\ \A r \in Runs : runs'[r].next = runs[r].next
  BY <1>2, RowsStill
<1>9. \A r \in Runs : ~Inserted(th[t], th[t].todo, r)
  BY <1>3 DEF Inserted
<1> QED BY <1>1, <1>2, <1>3, <1>4, <1>6, <1>7, <1>8, <1>9, RestGates

-----------------------------------------------------------------------------
(* Programs that open no run                                               *)

Inert(p) == \A i \in DOMAIN p : p[i].op \notin {"insert", "insert run", "advance", "launch", "body"} \cup Answers

LEMMA InertOrdered ==
  ASSUME NEW x, NEW table, Inert(x.todo), \E S : x.todo \in Seq(S)
  PROVE  /\ Ordered(x, x.todo, table)
         /\ \A r : ~Opens(x.todo, r)
         /\ ~Inserts(x.todo) /\ ~Advances(x.todo) /\ ~Attends(x.todo)
<1> DEFINE p == x.todo
<1>1. \A i \in DOMAIN p : p[i].op \notin {"insert", "insert run", "advance", "launch", "body"} \cup Answers
  BY DEF Inert
<1> HIDE DEF p
<1>2. Ordered(x, p, table)
  BY <1>1 DEF Ordered
<1>3. (\A r : ~Opens(p, r)) /\ ~Inserts(p) /\ ~Advances(p) /\ ~Attends(p)
  BY <1>1 DEF Opens, Inserts, Advances, Attends
<1> QED BY <1>2, <1>3 DEF p

LEMMA BecomesGates ==
  ASSUME Inv, Gates, NEW t \in Slots, Current(t), th[t].todo # <<>>,
         NEW x, Becomes(t, x), \E S : x.todo \in Seq(S), Inert(x.todo),
         x.kind = "exec" => th[t].kind = "exec" /\ x.run = th[t].run /\ x.at = runs'[x.run].next,
         \A i \in DOMAIN x.todo : Sits(x, x.todo[i], runs', Deciders'),
         Stored', \A r \in Runs : Position(r)', Grown(runs, runs'), Deciders \subseteq Deciders',
         \A r \in Runs : runs'[r].next = runs[r].next \/ Executors(r) \subseteq {t}
  PROVE  Gates'
<1>1. /\ Ordered(x, x.todo, runs') /\ (\A r : ~Opens(x.todo, r))
      /\ ~Advances(x.todo) /\ ~Attends(x.todo)
  BY InertOrdered
<1>2. Placed(th[t], runs, Deciders)
  BY DEF Gates
<1>3. x.kind = "exec" => Made(runs', x.run)
  BY <1>2, GrownSame DEF Placed
<1>4. Placed(x, runs', Deciders')
  BY <1>1, <1>3 DEF Placed
<1>5. /\ queue \in Seq(Slots) /\ DOMAIN th = Slots
      /\ th' = [th EXCEPT ![t] = IF x.todo = <<>> THEN Idle ELSE x] /\ queue' = After(x)
  BY DEF Becomes, Inv, Typed
<1>6. DOMAIN th' = Slots /\ th'[t] = (IF x.todo = <<>> THEN Idle ELSE x) /\ \A u \in Slots \ {t} : th'[u] = th[u]
  BY <1>5
<1>7. \A u \in Slots \ {t} : Same(th[u], th'[u]) /\ th'[u].todo = th[u].todo
  BY <1>6 DEF Same
<1>8. <<>> \in Seq(Slots) /\ queue' = After(x) \o <<>>
  <2>1. After(x) \in Seq(Slots)
    <3>1. queue # <<>>
      BY DEF Current
    <3>2. Tail(queue) \in Seq(Slots) /\ Head(queue) \in Slots
      BY <1>5, <3>1
    <3> QED BY <1>5, <3>2 DEF After
  <2> QED BY <1>5, <2>1, Joined
<1>9. x.kind = "exec" => th[t].kind = "exec" /\ x.run = th[t].run
  OBVIOUS
<1> QED BY <1>1, <1>4, <1>6, <1>7, <1>8, <1>9, TurnGates

(* Statements that say nothing of where their thread is.                   *)
Plain(s) ==
  /\ s.op \in {"append", "set", "release", "cascade", "request", "abort", "invalidate", "next", "out"}
  /\ s.op = "append" => s.type # Decision
  /\ s.op = "out" => s.outcome \notin {"completed", "loopback"}
Meek(p) == (\E S : p \in Seq(S)) /\ \A i \in DOMAIN p : Plain(p[i])

LEMMA PlainSits == ASSUME NEW s, Plain(s) PROVE \A x, table, decided : Sits(x, s, table, decided)
BY DEF Plain, Sits, Answers

LEMMA MeekInert == ASSUME NEW p, Meek(p) PROVE Inert(p)
BY DEF Meek, Plain, Inert, Answers

LEMMA MeekOne == ASSUME NEW e, Plain(e) PROVE Meek(<<e>>)
<1> DEFINE p == <<e>>
<1>1. p \in Seq({e}) /\ DOMAIN p = {1} /\ p[1] = e
  OBVIOUS
<1> HIDE DEF p
<1>2. Meek(p)
  BY <1>1 DEF Meek
<1> QED BY <1>2 DEF p

LEMMA MeekNone == Meek(<<>>)
<1>1. <<>> \in Seq({}) /\ DOMAIN <<>> = {}
  BY Slots1
<1> QED BY <1>1 DEF Meek

LEMMA MeekBoth == ASSUME NEW p, Meek(p), NEW q, Meek(q) PROVE Meek(p \o q)
<1> DEFINE w == p \o q
<1>1. /\ \E S : w \in Seq(S)
      /\ Len(p) \in Nat /\ Len(q) \in Nat
      /\ DOMAIN p = 1 .. Len(p) /\ DOMAIN q = 1 .. Len(q) /\ DOMAIN w = 1 .. Len(p) + Len(q)
      /\ \A i \in 1 .. Len(p) : w[i] = p[i]
      /\ \A i \in 1 .. Len(q) : w[Len(p) + i] = q[i]
  BY SeqUnion DEF Meek
<1> HIDE DEF w
<1>2. ASSUME NEW i \in DOMAIN w PROVE Plain(w[i])
  <2>1. CASE i <= Len(p)
    <3>1. i \in DOMAIN p /\ w[i] = p[i]
      BY <1>1, <2>1
    <3> QED BY <3>1 DEF Meek
  <2>2. CASE i > Len(p)
    <3>1. i - Len(p) \in DOMAIN q /\ w[i] = q[i - Len(p)]
      BY <1>1, <2>2
    <3> QED BY <3>1 DEF Meek
  <2> QED BY <1>1, <2>1, <2>2
<1>3. Meek(w)
  BY <1>1, <1>2 DEF Meek
<1> QED BY <1>3 DEF w

LEMMA MeekEnds ==
  ASSUME NEW r, NEW n
  PROVE  /\ \A status : Meek(Ends(r, status))
         /\ Meek(Fails(r)) /\ Meek(Cancels(r)) /\ Meek(FailRunDuration(r)) /\ Meek(Recursion(r, n))
         /\ \A p \in Completes(r) : Meek(p)
         /\ Meek(Cancelled(r))
<1>1. /\ \A status : Plain(Set(r, status))
      /\ \A op \in {"release", "invalidate", "request", "abort"} : Plain(Of(op, r))
      /\ \A m : \A type \in {"run.failed", "run.cancelled", "run.completed", "cap.breached", "memory.written"} :
           Plain(Ev(r, type, m))
  BY DEF Plain, Set, Of, Ev, Decision
<1>2. ASSUME NEW status PROVE Meek(Ends(r, status))
  BY <1>1, MeekOne, MeekBoth, Two DEF Ends
<1>3. Meek(Fails(r)) /\ Meek(Cancels(r))
  BY <1>1, <1>2, MeekOne, MeekBoth DEF Fails, Cancels
<1>4. Meek(FailRunDuration(r)) /\ Meek(Recursion(r, n))
  BY <1>1, <1>3, MeekOne, MeekBoth DEF FailRunDuration, Recursion
<1>5. \A p \in Completes(r) : Meek(p)
  <2>1. Meek(<<Ev(r, "run.completed", 0)>> \o Ends(r, "completed"))
    BY <1>1, <1>2, MeekOne, MeekBoth
  <2>2. Meek(<<Ev(r, "memory.written", 0)>> \o (<<Ev(r, "run.completed", 0)>> \o Ends(r, "completed")))
    BY <1>1, <2>1, MeekOne, MeekBoth
  <2> QED BY <2>1, <2>2 DEF Completes
<1>6. Meek(Cancelled(r))
  <2>1. Meek(EndWaiting(r))
    BY <1>1, <1>3, MeekOne, MeekBoth DEF EndWaiting
  <2>2. Meek(Ask(r))
    BY <1>1, MeekOne, MeekBoth, Two DEF Ask
  <2> QED BY <2>1, <2>2 DEF Cancelled
<1> QED BY <1>2, <1>3, <1>4, <1>5, <1>6

(* A cancellation begins: nothing that follows opens a run.                *)
LEMMA CancelsGates ==
  ASSUME Inv, Gates, NEW t \in Slots, NEW op \in {"cancel", "cascade"}, At(t, op), NEW p, Then(t, p),
         Meek(p), UNCHANGED <<runs, log, interrupts, cast>>
  PROVE  Gates'
<1>1. PICK x : x = [th[t] EXCEPT !.todo = p \o Tail(th[t].todo)]
  OBVIOUS
<1>2. Becomes(t, x)
  BY <1>1 DEF Then, Goes, Rest
<1>3. /\ Current(t) /\ th[t].todo # <<>> /\ Program(th[t]) /\ 1 \in DOMAIN th[t].todo /\ th[t].todo[1].op = op
  BY FirstFits
<1> DEFINE y == th[t]
           old == y.todo
           q == Tail(old)
           w == p \o q
<1>4. Same(y, x) /\ x.todo = w
  BY <1>1, <1>3, SameRetold DEF Program
<1>5. PICK S : old \in Seq(S)
  BY <1>3 DEF Program
<1>6. /\ q \in Seq(S) /\ Len(old) \in Nat /\ DOMAIN old = 1 .. Len(old) /\ DOMAIN q = 1 .. Len(old) - 1
      /\ \A i \in 1 .. Len(old) - 1 : q[i] = old[i + 1]
  BY <1>3, <1>5, Slots1
<1>7. Placed(y, runs, Deciders) /\ Program(y) /\ Ordered(y, old, runs)
  BY <1>3 DEF Gates, Placed
<1>8. \A i \in DOMAIN old : Sits(y, old[i], runs, Deciders) /\ (old[i].op = "body" => i = 1)
  BY <1>7 DEF Placed, Program, Fits
<1>9. \E T : q \in Seq(T)
  BY <1>6
<1>10. old[1].op \in {"cancel", "cascade"} /\ 1 \in DOMAIN old
  BY <1>3
<1> HIDE DEF q, old
<1>11. /\ \E T : w \in Seq(T)
       /\ Len(p) \in Nat /\ Len(q) \in Nat
       /\ DOMAIN p = 1 .. Len(p) /\ DOMAIN q = 1 .. Len(q) /\ DOMAIN w = 1 .. Len(p) + Len(q)
       /\ \A i \in 1 .. Len(p) : w[i] = p[i]
       /\ \A i \in 1 .. Len(q) : w[Len(p) + i] = q[i]
  BY <1>9, SeqUnion DEF Meek
<1> HIDE DEF w
<1>12. ASSUME NEW i \in DOMAIN q
       PROVE  /\ q[i].op \notin {"insert", "insert run", "advance", "launch", "body"} \cup Answers
              /\ Sits(y, q[i], runs, Deciders)
  <2>0. i + 1 \in DOMAIN old /\ q[i] = old[i + 1] /\ i + 1 # 1 /\ 1 \in 1 .. (i + 1) - 1
    BY <1>6, <1>12
  <2>1. PICK k \in DOMAIN old : q[i] = old[k] /\ k # 1 /\ 1 \in 1 .. k - 1
    BY <2>0
  <2>2. old[k].op \notin {"insert", "insert run"} \cup Answers
    BY <1>7, <1>10, <2>1 DEF Ordered
  <2>3. old[k].op # "advance"
    BY <1>7, <1>10, <2>1 DEF Ordered
  <2>4. old[k].op # "launch"
    BY <1>7, <1>10, <2>1 DEF Ordered
  <2> QED BY <1>8, <2>1, <2>2, <2>3, <2>4
<1>13. ASSUME NEW i \in DOMAIN w PROVE (i \in DOMAIN p /\ w[i] = p[i]) \/ \E k \in DOMAIN q : w[i] = q[k]
  <2>1. CASE i <= Len(p)
    BY <1>11, <2>1
  <2>2. CASE i > Len(p)
    <3>1. i - Len(p) \in DOMAIN q /\ w[i] = q[i - Len(p)]
      BY <1>11, <2>2
    <3> QED BY <3>1
  <2> QED BY <1>11, <2>1, <2>2
<1>14. Inert(w)
  BY <1>12, <1>13, MeekInert DEF Inert
<1>15. /\ Stored' /\ \A r \in Runs : Position(r)'
       /\ Deciders \subseteq Deciders' /\ Grown(runs, runs')
       /\ \A r \in Runs : runs'[r].next = runs[r].next
  BY RowsStill
<1>16. ASSUME NEW i \in DOMAIN w PROVE Sits(x, w[i], runs', Deciders')
  <2>1. CASE i \in DOMAIN p /\ w[i] = p[i]
    BY <2>1, PlainSits DEF Meek
  <2>2. ASSUME NEW k \in DOMAIN q, w[i] = q[k] PROVE Sits(x, w[i], runs', Deciders')
    <3>1. y.kind = "exec" => Made(runs, y.run)
      BY <1>7 DEF Placed
    <3>2. Sits(y, q[k], runs, Deciders) /\ q[k].op # "insert run"
      BY <1>12
    <3>3. Sits(x, q[k], runs', Deciders')
      BY <1>4, <1>15, <3>1, <3>2, SitsStill
    <3> QED BY <2>2, <3>3
  <2> QED BY <1>13, <2>1, <2>2
<1>17. x.kind = "exec" => th[t].kind = "exec" /\ x.run = th[t].run /\ x.at = runs'[x.run].next
  <2>1. y.kind = "exec" => y.at = runs[y.run].next
    BY <1>7 DEF Placed
  <2> QED BY <1>4, <2>1 DEF Same
<1>18. (\E T : x.todo \in Seq(T)) /\ Inert(x.todo) /\ \A i \in DOMAIN x.todo : Sits(x, x.todo[i], runs', Deciders')
  BY <1>4, <1>11, <1>14, <1>16
<1> QED BY <1>2, <1>3, <1>15, <1>17, <1>18, BecomesGates

LEMMA CancelGates ==
  ASSUME Inv, Gates, NEW t \in Slots, Cancel(t) \/ CancelRunInternal(t)
  PROVE  Gates'
<1>1. CASE CancelRunInternal(t)
  <2>1. /\ At(t, "cascade") /\ UNCHANGED <<runs, log, interrupts, cast>>
        /\ \E p \in {<<>>, Cancelled(First(t).run)} : Then(t, p)
    BY <1>1 DEF CancelRunInternal, Tables
  <2> QED BY <2>1, MeekNone, MeekEnds, CancelsGates
<1>2. CASE Cancel(t)
  <2> DEFINE r == th[t].run
             S == {c \in Kids : runs[c].parent.run = r /\ runs[c].status \notin Terminal \cup {"none"}}
             live == SetToSeq(S)
             each == [i \in DOMAIN live |-> Of("cascade", live[i])]
  <2>1. /\ At(t, "cancel") /\ UNCHANGED <<runs, log, interrupts, cast>>
        /\ \E p \in {<<>>, each \o Cancelled(r)} : Then(t, p)
    BY <1>2 DEF Cancel, Tables
  <2>2. live \in Seq(S)
    <3>1. IsFiniteSet(S)
      BY FiniteRuns, FS_Subset
    <3> HIDE DEF S
    <3> QED BY <3>1, Listed
  <2> HIDE DEF S, live
  <2>3. Len(live) \in Nat /\ DOMAIN live = 1 .. Len(live)
    BY <2>2
  <2>4. \E T : each \in Seq(T)
    <3> DEFINE T == {Of("cascade", c) : c \in S}
    <3>1. each \in [1 .. Len(live) -> T]
      BY <2>2, <2>3
    <3> HIDE DEF each, T
    <3>2. each \in Seq(T)
      BY <2>3, <3>1
    <3> QED BY <3>2
  <2>5. Meek(each)
    <3>1. \A i \in DOMAIN each : each[i] = Of("cascade", live[i])
      OBVIOUS
    <3> HIDE DEF each
    <3>2. \A i \in DOMAIN each : Plain(each[i])
      BY <3>1 DEF Of, Plain
    <3> QED BY <2>4, <3>2 DEF Meek
  <2> HIDE DEF each
  <2>6. Meek(each \o Cancelled(r))
    BY <2>5, MeekEnds, MeekBoth
  <2> QED BY <2>1, <2>6, MeekNone, CancelsGates
<1> QED BY <1>1, <1>2

-----------------------------------------------------------------------------
(* The executor                                                            *)

(* Statements a thread may make, given where it is.                        *)
Apt(y, s) ==
  /\ s.op \notin {"insert", "insert run", "advance", "launch", "body"} \cup Answers
  /\ Sits(y, s, runs, Deciders)
Fair(y, p) == (\E S : p \in Seq(S)) /\ \A i \in DOMAIN p : Apt(y, p[i])

LEMMA FairOne == ASSUME NEW y, NEW e, Apt(y, e) PROVE Fair(y, <<e>>)
<1> DEFINE p == <<e>>
<1>1. p \in Seq({e}) /\ DOMAIN p = {1} /\ p[1] = e
  OBVIOUS
<1> HIDE DEF p
<1>2. Fair(y, p)
  BY <1>1 DEF Fair
<1> QED BY <1>2 DEF p

LEMMA FairBoth == ASSUME NEW y, NEW p, Fair(y, p), NEW q, Fair(y, q) PROVE Fair(y, p \o q)
<1> DEFINE w == p \o q
<1>1. /\ \E S : w \in Seq(S)
      /\ Len(p) \in Nat /\ Len(q) \in Nat
      /\ DOMAIN p = 1 .. Len(p) /\ DOMAIN q = 1 .. Len(q) /\ DOMAIN w = 1 .. Len(p) + Len(q)
      /\ \A i \in 1 .. Len(p) : w[i] = p[i]
      /\ \A i \in 1 .. Len(q) : w[Len(p) + i] = q[i]
  BY SeqUnion DEF Fair
<1> HIDE DEF w
<1>2. ASSUME NEW i \in DOMAIN w PROVE Apt(y, w[i])
  <2>1. CASE i <= Len(p)
    <3>1. i \in DOMAIN p /\ w[i] = p[i]
      BY <1>1, <2>1
    <3> QED BY <3>1 DEF Fair
  <2>2. CASE i > Len(p)
    <3>1. i - Len(p) \in DOMAIN q /\ w[i] = q[i - Len(p)]
      BY <1>1, <2>2
    <3> QED BY <3>1 DEF Fair
  <2> QED BY <1>1, <2>1, <2>2
<1>3. Fair(y, w)
  BY <1>1, <1>2 DEF Fair
<1> QED BY <1>3 DEF w

LEMMA FairPut == ASSUME NEW y, NEW e, Apt(y, e), NEW p, Fair(y, p) PROVE Fair(y, <<e>> \o p)
BY FairOne, FairBoth

LEMMA MeekFair == ASSUME NEW y, NEW p, Meek(p) PROVE Fair(y, p)
BY PlainSits, MeekInert DEF Meek, Inert, Fair, Apt

LEMMA AptPlain == ASSUME NEW y, NEW s, Plain(s) PROVE Apt(y, s)
BY PlainSits DEF Apt, Plain, Answers

LEMMA AptStatements ==
  ASSUME NEW y
  PROVE  /\ \A r, n, type : type # Decision => Apt(y, Ev(r, type, n))
         /\ \A r, status : Apt(y, Set(r, status))
         /\ \A outcome \in {"failed", "cancelled", "suspended"} : Apt(y, Out(outcome))
         /\ Apt(y, Do("next"))
         /\ \A r : \A op \in {"cascade", "release"} : Apt(y, Of(op, r))
<1>1. /\ \A r, n, type : type # Decision => Plain(Ev(r, type, n))
      /\ \A r, status : Plain(Set(r, status))
      /\ \A outcome \in {"failed", "cancelled", "suspended"} : Plain(Out(outcome))
      /\ Plain(Do("next"))
      /\ \A r : \A op \in {"cascade", "release"} : Plain(Of(op, r))
  BY DEF Plain, Ev, Set, Out, Do, Of
<1> QED BY <1>1, AptPlain

LEMMA AptPassing ==
  ASSUME NEW y, Passing(y, runs)
  PROVE  /\ Apt(y, Out("completed")) /\ Apt(y, Do("sleep")) /\ Apt(y, Do("dispatch"))
         /\ y.run \in Deciders => Apt(y, Out("loopback"))
         /\ KindIn(runs, y.run, y.at) # "dispatch" \/ y.run \in Deciders =>
              \A op \in {"find", "poll", "nap"} : Apt(y, Do(op))
<1>1. /\ Out("completed").op = "out" /\ Out("completed").outcome = "completed"
      /\ Out("loopback").op = "out" /\ Out("loopback").outcome = "loopback"
      /\ \A op : Do(op).op = op
  BY DEF Out, Do
<1>2. Apt(y, Out("completed"))
  BY <1>1 DEF Apt, Sits, Answers
<1>3. Apt(y, Do("sleep")) /\ Apt(y, Do("dispatch"))
  BY <1>1 DEF Apt, Sits, Answers
<1>4. y.run \in Deciders => Apt(y, Out("loopback"))
  BY <1>1 DEF Apt, Sits, Answers
<1>5. KindIn(runs, y.run, y.at) # "dispatch" \/ y.run \in Deciders =>
        \A op \in {"find", "poll", "nap"} : Apt(y, Do(op))
  BY <1>1 DEF Apt, Sits, Answers
<1> QED BY <1>2, <1>3, <1>4, <1>5

LEMMA FairNode ==
  ASSUME NEW y, NEW r, NEW n
  PROVE  /\ Fair(y, Failed(r, n)) /\ Fair(y, Abandoned(r, n)) /\ Fair(y, <<Out("failed")>>)
         /\ Passing(y, runs) => Fair(y, Completed(r, n))
<1>1. "node.failed" # Decision /\ "node.cancelled" # Decision /\ "node.completed" # Decision
  BY DEF Decision
<1>2. Fair(y, <<Out("failed")>>) /\ Fair(y, <<Out("cancelled")>>)
  BY FairOne, AptStatements
<1>3. Fair(y, Failed(r, n)) /\ Fair(y, Abandoned(r, n))
  BY <1>1, <1>2, FairPut, AptStatements, Two DEF Failed, Abandoned
<1>4. Passing(y, runs) => Fair(y, Completed(r, n))
  <2> SUFFICES ASSUME Passing(y, runs) PROVE Fair(y, Completed(r, n))
    OBVIOUS
  <2>1. Fair(y, <<Out("completed")>>)
    BY FairOne, AptPassing
  <2> QED BY <1>1, <2>1, FairPut, AptStatements, Two DEF Completed
<1> QED BY <1>2, <1>3, <1>4

(* What a node's executor starts with, where it is.                        *)
LEMMA FairEnters ==
  ASSUME NEW y, y.kind = "exec", On(runs, y.run, y.at)
  PROVE  \A p \in Enters(y.run, y.at) : Fair(y, p)
<1> DEFINE r == y.run
           n == y.at
           kind == Kind(r, n)
<1>1. KindIn(runs, r, n) = kind /\ y.kind = "exec" /\ On(runs, r, n)
  BY DEF KindIn, Kind
<1>2. Fair(y, Failed(r, n)) /\ Fair(y, <<Out("failed")>>)
  BY FairNode
<1>3. kind \notin Asking => Passing(y, runs)
  BY <1>1 DEF Passing
<1>4. kind \notin Asking => Fair(y, Completed(r, n))
  BY <1>3, FairNode
<1>5. kind = "delay" => Fair(y, <<Do("sleep")>>)
  BY <1>3, FairOne, AptPassing DEF Asking
<1>6. kind = "dispatch" => Fair(y, <<Do("dispatch")>>)
  BY <1>3, FairOne, AptPassing DEF Asking
<1>7. kind = "sub" => Fair(y, <<Do("find")>>)
  BY <1>1, <1>3, FairOne, AptPassing DEF Asking
<1>8. kind = "supervisor" => Fair(y, <<Ev(r, Decision, n)>> \o Completed(r, n))
  <2> SUFFICES ASSUME kind = "supervisor" PROVE Fair(y, <<Ev(r, Decision, n)>> \o Completed(r, n))
    OBVIOUS
  <2>1. Ev(r, Decision, n).op = "append" /\ Ev(r, Decision, n).run = r
    BY DEF Ev
  <2>2. Apt(y, Ev(r, Decision, n))
    BY <1>1, <2>1 DEF Apt, Sits, Answers
  <2> QED BY <1>4, <2>2, FairPut DEF Asking
<1>9. kind \in Asking => Fair(y, Suspends(r, n))
  <2> SUFFICES ASSUME kind \in Asking PROVE Fair(y, Suspends(r, n))
    OBVIOUS
  <2>1. Apt(y, Do("mint"))
    <3>1. Do("mint").op = "mint"
      BY DEF Do
    <3> QED BY <1>1, <3>1 DEF Apt, Sits, Answers
  <2>2. Fair(y, <<Out("suspended")>>)
    BY FairOne, AptStatements
  <2>3. Fair(y, <<Ev(r, "node.suspended", n), Out("suspended")>>)
    BY <2>2, FairPut, AptStatements, Two DEF Decision
  <2>4. Fair(y, <<Do("mint")>> \o <<Ev(r, "node.suspended", n), Out("suspended")>>)
    BY <2>1, <2>3, FairPut
  <2> QED BY <2>4, Three DEF Suspends
<1>10. kind \notin Asking => Fair(y, <<Ev(r, "channel.written", n)>> \o Completed(r, n))
  BY <1>4, FairPut, AptStatements DEF Decision
<1> HIDE DEF r, n, kind
<1>11. ASSUME NEW p \in Body(r, n) PROVE Fair(y, p)
  <2>1. /\ kind \in {"noop", "identity"} => Body(r, n) = {Completed(r, n)}
        /\ kind = "secret" => Body(r, n) = SecretEcho(r, n)
        /\ kind = "channel" => Body(r, n) = ChannelWrite(r, n)
        /\ kind = "cost" => Body(r, n) = CostEmit(r, n)
        /\ kind = "delay" => Body(r, n) = {<<Do("sleep")>>}
        /\ kind = "approval" => Body(r, n) = ApprovalGate(r, n)
        /\ kind = "clarification" => Body(r, n) = ClarificationGate(r, n)
        /\ kind = "external" => Body(r, n) = Interrupt(r, n)
        /\ kind = "supervisor" => Body(r, n) = Supervisor(r, n)
        /\ kind = "dispatch" => Body(r, n) = {<<Do("dispatch")>>}
        /\ kind = "sub" => Body(r, n) = SubWorkflow(r, n)
        /\ kind \notin {"noop", "identity", "secret", "channel", "cost", "delay", "approval", "clarification",
                        "external", "supervisor", "dispatch", "sub"} => Body(r, n) = {Failed(r, n)}
    BY DEF Body, kind
  <2>2. kind \in {"noop", "identity", "secret", "channel", "cost", "delay", "supervisor", "dispatch", "sub"}
        => kind \notin Asking
    BY DEF Asking
  <2>3. CASE kind \in {"approval", "clarification", "external"}
    BY <1>2, <1>9, <1>11, <2>1, <2>3 DEF Asking, ApprovalGate, ClarificationGate, Interrupt
  <2>4. CASE kind \in {"noop", "identity", "secret", "channel", "cost"}
    BY <1>2, <1>4, <1>10, <1>11, <2>1, <2>2, <2>4 DEF SecretEcho, ChannelWrite, CostEmit
  <2>5. CASE kind \in {"delay", "supervisor", "dispatch", "sub"}
    BY <1>2, <1>5, <1>6, <1>7, <1>8, <1>11, <2>1, <2>5 DEF Supervisor, SubWorkflow, Decision
  <2> QED BY <1>2, <1>11, <2>1, <2>3, <2>4, <2>5
<1>12. ASSUME NEW p \in Enters(r, n) PROVE Fair(y, p)
  <2>1. CASE kind = "requires"
    BY <1>2, <1>12, <2>1 DEF Enters, kind
  <2>2. CASE kind = "model"
    <3>1. p = <<Ev(r, "model.capability.insufficient", n)>> \o Failed(r, n)
      BY <1>12, <2>2 DEF Enters, kind
    <3> QED BY <1>2, <3>1, FairPut, AptStatements DEF Decision
  <2>3. CASE kind \notin {"requires", "model"}
    <3>1. Enters(r, n) = {<<Ev(r, "node.started", n)>> \o body : body \in Body(r, n)}
      BY <2>3 DEF Enters, kind
    <3>2. PICK body \in Body(r, n) : p = <<Ev(r, "node.started", n)>> \o body
      BY <1>12, <3>1
    <3> QED BY <1>11, <3>2, FairPut, AptStatements DEF Decision
  <2> QED BY <2>1, <2>2, <2>3
<1> QED BY <1>12 DEF r, n

(* The executor goes on with a program that fits where it is.              *)
LEMMA FairGates ==
  ASSUME Inv, Gates, NEW t \in Slots, NEW op \in Going, At(t, op), NEW x, Becomes(t, x), Same(th[t], x),
         Fair(th[t], x.todo), UNCHANGED <<runs, log, interrupts, cast>>
  PROVE  Gates'
<1> DEFINE y == th[t]
           p == x.todo
<1>1. Current(t) /\ th[t].todo # <<>> /\ Placed(y, runs, Deciders)
  BY FirstFits DEF Gates
<1>2. /\ Stored' /\ (\A r \in Runs : Position(r)')
      /\ Deciders' = Deciders /\ Grown(runs, runs') /\ Deciders \subseteq Deciders'
      /\ \A r \in Runs : runs'[r].next = runs[r].next
  BY RowsStill
<1>3. y.kind = "exec" => Made(runs, y.run) /\ y.at = runs[y.run].next
  BY <1>1 DEF Placed
<1>4. /\ \E S : p \in Seq(S)
      /\ \A i \in DOMAIN p : Apt(y, p[i])
  BY DEF Fair
<1>5. Same(y, x) /\ Becomes(t, x) /\ runs' = runs
  OBVIOUS
<1> HIDE DEF y, p
<1>6. Inert(p)
  BY <1>4 DEF Inert, Apt
<1>7. \A s : Sits(y, s, runs, Deciders) /\ s.op # "insert run" => Sits(x, s, runs', Deciders')
  BY <1>2, <1>3, <1>5, SitsStill
<1>8. \A i \in DOMAIN p : Sits(x, p[i], runs', Deciders')
  <2> SUFFICES ASSUME NEW i \in DOMAIN p PROVE Sits(x, p[i], runs', Deciders')
    OBVIOUS
  <2>1. Sits(y, p[i], runs, Deciders) /\ p[i].op # "insert run"
    BY <1>4 DEF Apt
  <2> QED BY <1>7, <2>1
<1>9. x.kind = "exec" => th[t].kind = "exec" /\ x.run = th[t].run /\ x.at = runs'[x.run].next
  BY <1>3, <1>5 DEF Same, y
<1>10. (\E S : x.todo \in Seq(S)) /\ Inert(x.todo) /\ \A i \in DOMAIN x.todo : Sits(x, x.todo[i], runs', Deciders')
  BY <1>4, <1>6, <1>8 DEF p
<1> QED BY <1>1, <1>2, <1>5, <1>9, <1>10, BecomesGates

LEMMA FairGoes ==
  ASSUME Inv, Gates, NEW t \in Slots, NEW op \in Going, At(t, op), NEW p, Fair(th[t], p),
         Goes(t, p) \/ \E worker : Becomes(t, [th[t] EXCEPT !.worker = worker, !.todo = p]),
         UNCHANGED <<runs, log, interrupts, cast>>
  PROVE  Gates'
<1>1. DOMAIN th[t] = DOMAIN Idle
  BY FirstFits DEF Program
<1>2. PICK x : /\ Becomes(t, x)
               /\ x = [th[t] EXCEPT !.todo = p] \/ \E worker : x = [th[t] EXCEPT !.worker = worker, !.todo = p]
  BY DEF Goes
<1>3. Same(th[t], x) /\ x.todo = p
  BY <1>1, <1>2 DEF Same, Idle
<1> QED BY <1>2, <1>3, FairGates

(* Where the executor is that now goes on.                                 *)
LEMMA ExecutorIs ==
  ASSUME Inv, Gates, NEW t \in Slots, NEW op \in Going, At(t, op)
  PROVE  /\ Current(t) /\ th[t].todo # <<>> /\ th[t].kind = "exec" /\ DOMAIN th[t] = DOMAIN Idle
         /\ First(t).op = op /\ First(t) = th[t].todo[1] /\ 1 \in DOMAIN th[t].todo /\ Sits(th[t], First(t), runs, Deciders)
         /\ Placed(th[t], runs, Deciders) /\ Position(th[t].run)
         /\ th[t].run \in Runs /\ runs[th[t].run].status # "none" /\ th[t].at = runs[th[t].run].next
         /\ t \in Executors(th[t].run) /\ Executors(th[t].run) \subseteq {t}
         /\ Length(th[t].run) \in Nat /\ th[t].at \in Nat \ {0}
<1>1. /\ Current(t) /\ th[t].todo # <<>> /\ First(t).op = op /\ First(t) = th[t].todo[1]
      /\ 1 \in DOMAIN th[t].todo /\ Fits(th[t], 1) /\ DOMAIN th[t] = DOMAIN Idle
  BY FirstFits DEF Program
<1>2. th[t].kind = "exec" /\ Placed(th[t], runs, Deciders)
  BY <1>1 DEF Fits, Gates
<1>3. Sits(th[t], First(t), runs, Deciders)
  BY <1>1, <1>2 DEF Placed
<1>4. th[t].run \in Runs /\ runs[th[t].run].status # "none" /\ th[t].at = runs[th[t].run].next
  BY <1>2 DEF Placed, Made
<1>5. Position(th[t].run)
  BY <1>4 DEF Gates
<1>6. Length(th[t].run) \in Nat /\ th[t].at \in Nat \ {0}
  <2>1. Flow[runs[th[t].run].flow] \in Seq(STRING) /\ th[t].at \in Nat \ {0}
    BY <1>4, <1>5, SqliteAssumption DEF Position
  <2> QED BY <2>1 DEF Length
<1>7. t \in Executors(th[t].run) /\ Executors(th[t].run) \subseteq {t}
  BY <1>2 DEF Executors, Gates, OneEach
<1> QED BY <1>1, <1>2, <1>3, <1>4, <1>5, <1>6, <1>7

LEMMA NextNodeGates ==
  ASSUME Inv, Gates, NEW t \in Slots, NextNode(t)
  PROVE  Gates'
<1> DEFINE r == th[t].run
           n == th[t].at
<1>1. /\ At(t, "next") /\ "next" \in Going /\ UNCHANGED <<runs, log, interrupts, cast>>
      /\ \E p : Goes(t, p) /\ (p \in Completes(r) \cup {Recursion(r, n), Cancels(r)} \/ (~(n > Length(r)) /\ p \in Enters(r, n)))
  BY DEF NextNode, Tables, Going
<1>2. th[t].kind = "exec" /\ Length(r) \in Nat /\ n \in Nat \ {0}
  BY <1>1, ExecutorIs
<1>3. PICK p : Goes(t, p) /\ (p \in Completes(r) \cup {Recursion(r, n), Cancels(r)} \/ (~(n > Length(r)) /\ p \in Enters(r, n)))
  BY <1>1
<1>4. Fair(th[t], p)
  <2>1. CASE p \in Completes(r) \cup {Recursion(r, n), Cancels(r)}
    BY <2>1, MeekEnds, MeekFair
  <2>2. CASE ~(n > Length(r)) /\ p \in Enters(r, n)
    <3>1. On(runs, r, n)
      BY <1>2, <2>2 DEF On, Length
    <3> QED BY <1>2, <2>2, <3>1, FairEnters
  <2> QED BY <1>3, <2>1, <2>2
<1> QED BY <1>1, <1>3, <1>4, FairGoes

LEMMA AbortedGates ==
  ASSUME Inv, Gates, NEW t \in Slots, DelayAborted(t) \/ NapAborted(t)
  PROVE  Gates'
<1>1. CASE DelayAborted(t)
  <2>1. /\ At(t, "sleep") /\ "sleep" \in Going /\ UNCHANGED <<runs, log, interrupts, cast>>
        /\ Goes(t, Abandoned(th[t].run, th[t].at))
    BY <1>1 DEF DelayAborted, Tables, Going
  <2> QED BY <2>1, FairNode, FairGoes
<1>2. CASE NapAborted(t)
  <2>1. /\ At(t, "nap") /\ "nap" \in Going /\ UNCHANGED <<runs, log, interrupts, cast>>
        /\ Goes(t, <<Do("poll")>>)
    BY <1>2 DEF NapAborted, Tables, Going
  <2>2. Passing(th[t], runs) /\ (KindIn(runs, th[t].run, th[t].at) = "dispatch" => th[t].run \in Deciders)
    BY <2>1, ExecutorIs DEF Sits
  <2>3. Fair(th[t], <<Do("poll")>>)
    BY <2>2, AptPassing, FairOne
  <2> QED BY <2>1, <2>3, FairGoes
<1> QED BY <1>1, <1>2

LEMMA DispatchNodeGates ==
  ASSUME Inv, Gates, NEW t \in Slots, DispatchNode(t)
  PROVE  Gates'
<1> DEFINE r == th[t].run
           n == th[t].at
<1>1. /\ At(t, "dispatch") /\ "dispatch" \in Going /\ UNCHANGED <<runs, log, interrupts, cast>>
      /\ \E p : /\ Becomes(t, [th[t] EXCEPT !.worker = 0, !.todo = p])
                /\ p = Failed(r, n) \/ (Decided(r) /\ p \in {Completed(r, n), <<Do("find")>>})
  BY DEF DispatchNode, NextWorker, Tables, Going, Decided, Decision
<1>2. Passing(th[t], runs) /\ r \in Runs
  BY <1>1, ExecutorIs DEF Sits
<1>3. PICK p : /\ Becomes(t, [th[t] EXCEPT !.worker = 0, !.todo = p])
               /\ p = Failed(r, n) \/ (Decided(r) /\ p \in {Completed(r, n), <<Do("find")>>})
  BY <1>1
<1>4. Decided(r) => Fair(th[t], <<Do("find")>>)
  BY <1>2, AptPassing, FairOne DEF Deciders
<1>5. Fair(th[t], p)
  BY <1>2, <1>3, <1>4, FairNode
<1> QED BY <1>1, <1>3, <1>5, FairGoes

(* What the poll of a child may go on with.                                *)
LEMMA FairPoll ==
  ASSUME Inv, Gates, NEW t \in Slots, At(t, "poll"), NEW n, NEW status
  PROVE  LET r == th[t].run
             done == <<Set(r, "running"), Out("completed")>> IN
         /\ Passing(th[t], runs) /\ "poll" \in Going
         /\ Fair(th[t], <<Of("cascade", th[t].child)>> \o Abandoned(r, n))
         /\ Fair(th[t], Failed(r, n)) /\ Fair(th[t], Abandoned(r, n))
         /\ Fair(th[t], <<Do("nap")>>) /\ Fair(th[t], <<Do("find")>>) /\ Fair(th[t], <<Set(r, status), Do("nap")>>)
         /\ Fair(th[t], <<Ev(r, "node.completed", n)>> \o done)
         /\ Kind(r, th[t].at) = "dispatch" => Fair(th[t], <<Ev(r, "node.completed", n)>> \o <<Out("loopback")>>)
<1> DEFINE r == th[t].run
           y == th[t]
<1>1. Passing(y, runs) /\ (KindIn(runs, r, y.at) = "dispatch" => r \in Deciders) /\ "poll" \in Going
  BY ExecutorIs DEF Sits, Going
<1>2. Fair(y, <<Do("nap")>>) /\ Fair(y, <<Do("find")>>) /\ Fair(y, <<Out("completed")>>)
  BY <1>1, AptPassing, FairOne
<1>3. Kind(r, y.at) = "dispatch" => Fair(y, <<Out("loopback")>>)
  BY <1>1, AptPassing, FairOne DEF KindIn, Kind
<1>4. Fair(y, Failed(r, n)) /\ Fair(y, Abandoned(r, n))
  BY FairNode
<1> HIDE DEF y, r
<1>5. Fair(y, <<Of("cascade", y.child)>> \o Abandoned(r, n))
  BY <1>4, FairPut, AptStatements
<1>6. Fair(y, <<Set(r, status), Do("nap")>>) /\ Fair(y, <<Set(r, "running"), Out("completed")>>)
  BY <1>2, FairPut, AptStatements, Two
<1>7. \A p : Fair(y, p) => Fair(y, <<Ev(r, "node.completed", n)>> \o p)
  BY FairPut, AptStatements DEF Decision
<1> QED BY <1>1, <1>2, <1>3, <1>4, <1>5, <1>6, <1>7 DEF y, r

LEMMA PollSubGates ==
  ASSUME Inv, Gates, NEW t \in Slots, PollSub(t)
  PROVE  Gates'
<1> DEFINE r == th[t].run
           n == th[t].at
           c == th[t].child
           resumes == <<Ev(r, "node.completed", n), Set(r, "running"), Out("completed")>>
<1>1. /\ At(t, "poll") /\ UNCHANGED <<runs, log, interrupts, cast>>
      /\ \E p, status : /\ Goes(t, p)
                        /\ p \in {<<Of("cascade", c)>> \o Abandoned(r, n), resumes, Failed(r, n), Abandoned(r, n),
                                  <<Set(r, status), Do("nap")>>, <<Do("nap")>>}
  BY DEF PollSub, Tables
<1>2. PICK p, status : /\ Goes(t, p)
                       /\ p \in {<<Of("cascade", c)>> \o Abandoned(r, n), resumes, Failed(r, n), Abandoned(r, n),
                                 <<Set(r, status), Do("nap")>>, <<Do("nap")>>}
  BY <1>1
<1>3. resumes = <<Ev(r, "node.completed", n)>> \o <<Set(r, "running"), Out("completed")>>
  BY Three
<1>4. Fair(th[t], p) /\ "poll" \in Going
  BY <1>1, <1>2, <1>3, FairPoll
<1> QED BY <1>1, <1>2, <1>4, FairGoes

LEMMA PollWorkerGates ==
  ASSUME Inv, Gates, NEW t \in Slots, PollWorker(t)
  PROVE  Gates'
<1> DEFINE r == th[t].run
           n == th[t].at
           c == th[t].child
           onwards(tail) == <<Ev(r, "node.completed", n)>> \o tail
           back == <<Out("loopback")>>
           on == <<Set(r, "running"), Out("completed")>>
<1>1. At(t, "poll") /\ UNCHANGED <<runs, log, interrupts, cast>> /\ "poll" \in Going /\ Kind(r, n) = "dispatch"
  BY DEF PollWorker, Tables, Going
<1>2. \/ \E p \in {<<Of("cascade", c)>> \o Abandoned(r, n), Failed(r, n), <<Do("nap")>>} : Goes(t, p)
      \/ \E worker : \E p \in {onwards(back), onwards(on), <<Do("find")>>, Failed(r, n)} :
           Becomes(t, [th[t] EXCEPT !.worker = worker, !.todo = p])
  BY DEF PollWorker, NextWorker
<1>3. \A p \in {<<Of("cascade", c)>> \o Abandoned(r, n), Failed(r, n), <<Do("nap")>>,
                onwards(back), onwards(on), <<Do("find")>>} : Fair(th[t], p)
  BY <1>1, FairPoll
<1> HIDE DEF onwards, back, on, c, r, n
<1> QED BY <1>1, <1>2, <1>3, FairGoes

(* A node that asks nobody is passed, forwards or back to the supervisor.  *)
LEMMA MovesGates ==
  ASSUME Inv, Gates, NEW t \in Slots, At(t, "out"), Passing(th[t], runs),
         NEW m \in Nat \ {0}, m <= th[t].at + 1,
         Decided(th[t].run) => \E k \in 1 .. Length(th[t].run) : Kind(th[t].run, k) = "supervisor" /\ k <= m,
         Becomes(t, [th[t] EXCEPT !.at = m, !.todo = <<Do("next")>>]),
         runs' = [runs EXCEPT ![th[t].run].next = m], UNCHANGED <<log, interrupts, cast>>
  PROVE  Gates'
<1> DEFINE r == th[t].run
           n == th[t].at
<1>1. /\ Current(t) /\ th[t].todo # <<>> /\ th[t].kind = "exec" /\ DOMAIN th[t] = DOMAIN Idle
      /\ Position(r) /\ r \in Runs /\ runs[r].status # "none" /\ n = runs[r].next
      /\ Executors(r) \subseteq {t} /\ n \in Nat \ {0}
  BY ExecutorIs DEF Going
<1>2. PICK x : x = [th[t] EXCEPT !.at = m, !.todo = <<Do("next")>>] /\ Becomes(t, x)
  OBVIOUS
<1>3. x.kind = "exec" /\ x.run = r /\ x.at = m /\ x.todo = <<Do("next")>>
  BY <1>1, <1>2 DEF Idle
<1>4. DOMAIN runs = Runs /\ \A q \in Runs : DOMAIN runs[q] = RunFields
  BY RowsTyped
<1>5. n \in 1 .. Length(r) /\ Kind(r, n) \notin Asking
  BY DEF Passing, On, KindIn, Length, Kind
<1>6. \A q \in Runs : Position(q)
  BY DEF Gates
<1>7. /\ m <= n + 1 /\ runs' = [runs EXCEPT ![r].next = m]
      /\ Decided(r) => \E k \in 1 .. Length(r) : Kind(r, k) = "supervisor" /\ k <= m
  OBVIOUS
<1> HIDE DEF r, n
<1>8. /\ runs'[r].next = m /\ runs'[r].status = runs[r].status /\ runs'[r].flow = runs[r].flow
      /\ \A q \in Runs \ {r} : runs'[q] = runs[q]
  BY <1>1, <1>4, <1>7 DEF RunFields
<1>9. Stored'
  BY DEF Gates, Stored
<1>10. ASSUME NEW q \in Runs PROVE Position(q)'
  <2>1. CASE q # r
    BY <1>6, <1>8, <2>1, PositionStill
  <2>2. CASE q = r
    <3>1. runs'[q].flow = runs[q].flow
      BY <1>8, <2>2
    <3>2. /\ (Decided(q)' <=> Decided(q)) /\ Length(q)' = Length(q)
          /\ \A k : (Kind(q, k)' = Kind(q, k)) /\ (Honoured(q, k)' <=> Honoured(q, k)) /\ (Open(q, k)' <=> Open(q, k))
      BY <3>1 DEF Decided, Logged, Length, Kind, Honoured, Open
    <3>3. ASSUME NEW k \in 1 .. Length(q), k < m PROVE Honoured(q, k)
      <4>1. k < n \/ k = n
        BY <1>1, <1>7, <3>3
      <4>2. CASE k < n
        BY <1>1, <2>2, <4>2 DEF Position
      <4>3. CASE k = n
        BY <1>5, <2>2, <4>3 DEF Honoured, Asking
      <4> QED BY <4>1, <4>2, <4>3
    <3>4. ASSUME NEW k \in Nodes PROVE ~Open(q, k) /\ IsFiniteSet(cast[q][k])
      <4>1. Open(q, k) => k = n /\ Kind(q, k) \in Asking
        BY <1>1, <2>2 DEF Position
      <4> QED BY <1>1, <1>5, <2>2, <4>1 DEF Position
    <3>5. runs'[q].next = m /\ runs'[q].status # "none" /\ runs'[q].flow \in DOMAIN Flow
      BY <1>1, <1>8, <2>2 DEF Position
    <3>6. \A k \in 1 .. Length(q)' : k < runs'[q].next => Honoured(q, k)'
      BY <3>2, <3>3, <3>5
    <3>7. Decided(q)' => \E k \in 1 .. Length(q)' : Kind(q, k)' = "supervisor" /\ k <= runs'[q].next
      BY <1>7, <2>2, <3>2, <3>5
    <3>8. \A k \in Nodes : IsFiniteSet(cast'[q][k]) /\ ~Open(q, k)'
      BY <3>2, <3>4
    <3> QED BY <3>5, <3>6, <3>7, <3>8 DEF Position
  <2> QED BY <2>1, <2>2
<1>11. Deciders' = Deciders
  BY DEF Deciders, Decided, Logged
<1>12. Grown(runs, runs')
  BY <1>8 DEF Grown
<1>13. \A q \in Runs : runs'[q].next = runs[q].next \/ Executors(q) \subseteq {t}
  BY <1>1, <1>8
<1>14. Meek(<<Do("next")>>)
  BY MeekOne DEF Plain, Do
<1>15. (\E S : x.todo \in Seq(S)) /\ Inert(x.todo) /\ \A i \in DOMAIN x.todo : Sits(x, x.todo[i], runs', Deciders')
  BY <1>3, <1>14, MeekInert, PlainSits DEF Meek
<1>16. x.kind = "exec" => th[t].kind = "exec" /\ x.run = th[t].run /\ x.at = runs'[x.run].next
  BY <1>1, <1>3, <1>8 DEF r
<1> QED BY <1>1, <1>2, <1>9, <1>10, <1>11, <1>12, <1>13, <1>15, <1>16, BecomesGates

(* The first of a workflow's supervisors.                                  *)
LEMMA FirstSupervisor ==
  ASSUME NEW r, Length(r) \in Nat, NEW n \in 1 .. Length(r), Kind(r, n) = "supervisor"
  PROVE  SupervisorOf(r) \in 1 .. Length(r) /\ Kind(r, SupervisorOf(r)) = "supervisor" /\ SupervisorOf(r) <= n
<1> DEFINE S == {k \in 1 .. Length(r) : Kind(r, k) = "supervisor"}
<1>1. S \in SUBSET Nat /\ n \in S
  OBVIOUS
<1> HIDE DEF S
<1>2. PICK m \in S : \A k \in S : ~(<<k, m>> \in OpToRel(<, Nat))
  BY <1>1, WFMin, NatLessThanWellFounded
<1>3. \A k \in S : ~(k < m)
  BY <1>1, <1>2 DEF OpToRel
<1>4. \A k \in S : m <= k
  BY <1>1, <1>3
<1>5. m \in 1 .. Length(r) /\ Kind(r, m) = "supervisor" /\ \A k \in 1 .. Length(r) : Kind(r, k) = "supervisor" => m <= k
  BY <1>2, <1>4 DEF S
<1> QED BY <1>5 DEF SupervisorOf

LEMMA OutcomeGates ==
  ASSUME Inv, Gates, NEW t \in Slots, Outcome(t)
  PROVE  Gates'
<1> DEFINE r == th[t].run
           n == th[t].at
           o == IF th[t].late THEN "late" ELSE First(t).outcome
<1>1. At(t, "out") /\ UNCHANGED <<log, interrupts, cast>> /\ "out" \in Going
  BY DEF Outcome, Going
<1>2. /\ Current(t) /\ th[t].todo # <<>> /\ th[t].kind = "exec" /\ DOMAIN th[t] = DOMAIN Idle
      /\ First(t).op = "out" /\ Sits(th[t], First(t), runs, Deciders)
      /\ Position(r) /\ r \in Runs /\ runs[r].status # "none" /\ n = runs[r].next
      /\ Length(r) \in Nat /\ n \in Nat \ {0}
  BY <1>1, ExecutorIs
<1>3. First(t).outcome \in Verdicts
  BY <1>1, FirstFits DEF Fits
<1>4. \/ (\E p \in {FailRunDuration(r), Fails(r), Cancels(r)} : Goes(t, p)) /\ UNCHANGED runs
      \/ /\ o = "completed" /\ Becomes(t, [th[t] EXCEPT !.at = n + 1, !.todo = <<Do("next")>>])
         /\ runs' = [runs EXCEPT ![r].next = n + 1]
      \/ /\ o = "loopback" /\ Becomes(t, [th[t] EXCEPT !.at = SupervisorOf(r), !.todo = <<Do("next")>>])
         /\ runs' = [runs EXCEPT ![r].next = SupervisorOf(r)]
      \/ Goes(t, <<Of("release", r)>>) /\ runs' = [runs EXCEPT ![r].status = WaitingFor(Kind(r, n)), ![r].next = n]
  BY <1>3 DEF Outcome, Verdicts
<1>5. o \in {"completed", "loopback"} => First(t).outcome = o
  OBVIOUS
<1> HIDE DEF o
<1>6. ASSUME NEW p \in {FailRunDuration(r), Fails(r), Cancels(r)}, Goes(t, p), UNCHANGED runs PROVE Gates'
  <2>1. Fair(th[t], p)
    BY MeekEnds, MeekFair
  <2> QED BY <1>1, <1>6, <2>1, FairGoes
<1>7. CASE /\ o = "completed" /\ Becomes(t, [th[t] EXCEPT !.at = n + 1, !.todo = <<Do("next")>>])
           /\ runs' = [runs EXCEPT ![r].next = n + 1]
  <2>1. Passing(th[t], runs)
    BY <1>2, <1>5, <1>7 DEF Sits
  <2>2. n + 1 \in Nat \ {0} /\ n + 1 <= n + 1
    BY <1>2
  <2>3. Decided(r) => \E k \in 1 .. Length(r) : Kind(r, k) = "supervisor" /\ k <= n + 1
    <3> SUFFICES ASSUME Decided(r) PROVE \E k \in 1 .. Length(r) : Kind(r, k) = "supervisor" /\ k <= n + 1
      OBVIOUS
    <3>1. PICK k \in 1 .. Length(r) : Kind(r, k) = "supervisor" /\ k <= n
      BY <1>2 DEF Position
    <3>2. k <= n + 1
      BY <1>2, <3>1
    <3> QED BY <3>1, <3>2
  <2> QED BY <1>1, <1>7, <2>1, <2>2, <2>3, MovesGates
<1>8. CASE /\ o = "loopback" /\ Becomes(t, [th[t] EXCEPT !.at = SupervisorOf(r), !.todo = <<Do("next")>>])
           /\ runs' = [runs EXCEPT ![r].next = SupervisorOf(r)]
  <2>1. Passing(th[t], runs) /\ r \in Deciders
    BY <1>2, <1>5, <1>8 DEF Sits
  <2>2. PICK k \in 1 .. Length(r) : Kind(r, k) = "supervisor" /\ k <= n
    BY <1>2, <2>1 DEF Deciders, Position
  <2> DEFINE m == SupervisorOf(r)
  <2>3. m \in 1 .. Length(r) /\ Kind(r, m) = "supervisor" /\ m <= k
    BY <1>2, <2>2, FirstSupervisor
  <2>4. Becomes(t, [th[t] EXCEPT !.at = m, !.todo = <<Do("next")>>]) /\ runs' = [runs EXCEPT ![r].next = m]
    BY <1>8
  <2> HIDE DEF m
  <2>5. m \in Nat \ {0} /\ m <= n + 1
    BY <1>2, <2>2, <2>3
  <2>6. \E j \in 1 .. Length(r) : Kind(r, j) = "supervisor" /\ j <= m
    BY <2>3, <2>5
  <2> QED BY <1>1, <2>1, <2>4, <2>5, <2>6, MovesGates
<1>9. CASE Goes(t, <<Of("release", r)>>) /\ runs' = [runs EXCEPT ![r].status = WaitingFor(Kind(r, n)), ![r].next = n]
  <2>1. PICK x : x = [th[t] EXCEPT !.todo = <<Of("release", r)>>] /\ Becomes(t, x)
    BY <1>9 DEF Goes
  <2>2. x.kind = "exec" /\ x.run = r /\ x.at = n /\ x.todo = <<Of("release", r)>>
    BY <1>2, <2>1 DEF Idle
  <2>3. DOMAIN runs = Runs /\ \A q \in Runs : DOMAIN runs[q] = RunFields
    BY RowsTyped
  <2>4. WaitingFor(Kind(r, n)) # "none"
    BY DEF WaitingFor
  <2>5. \A q \in Runs : /\ runs'[q].flow = runs[q].flow /\ runs'[q].next = runs[q].next
                        /\ runs[q].status # "none" => runs'[q].status # "none"
    BY <1>2, <1>9, <2>3, <2>4 DEF RunFields
  <2>6. /\ Stored' /\ (\A q \in Runs : Position(q)')
        /\ Grown(runs, runs') /\ Deciders \subseteq Deciders'
        /\ \A q \in Runs : runs'[q].next = runs[q].next
    BY <1>1, <2>5, RowsStill
  <2>7. Meek(<<Of("release", r)>>)
    BY MeekOne DEF Plain, Of
  <2>8. (\E S : x.todo \in Seq(S)) /\ Inert(x.todo) /\ \A i \in DOMAIN x.todo : Sits(x, x.todo[i], runs', Deciders')
    BY <2>2, <2>7, MeekInert, PlainSits DEF Meek
  <2>9. x.kind = "exec" => th[t].kind = "exec" /\ x.run = th[t].run /\ x.at = runs'[x.run].next
    BY <1>2, <2>2, <2>6
  <2> QED BY <1>2, <2>1, <2>6, <2>8, <2>9, BecomesGates
<1> QED BY <1>4, <1>6, <1>7, <1>8, <1>9

LEMMA HasFirst == ASSUME NEW p, \E S : p \in Seq(S), NEW i \in DOMAIN p PROVE 1 \in DOMAIN p
<1>1. PICK S : p \in Seq(S)
  OBVIOUS
<1>2. Len(p) \in Nat /\ DOMAIN p = 1 .. Len(p)
  BY <1>1, Slots1
<1> QED BY <1>2

(* Nobody is about to launch a run there is none of.                       *)
LEMMA FreshFree ==
  ASSUME Inv, Gates, NEW c \in Runs, runs[c].status = "none",
         \A u \in Slots : \A i \in DOMAIN th[u].todo :
           th[u].todo[1].op \in {"insert", "insert run"} => ~Inserted(th[u], th[u].todo, c)
  PROVE  Free(c)
<1>1. Executors(c) = {}
  <2> SUFFICES ASSUME NEW u \in Executors(c) PROVE FALSE
    OBVIOUS
  <2>1. Placed(th[u], runs, Deciders) /\ th[u].kind = "exec" /\ th[u].run = c
    BY DEF Gates, Executors
  <2> QED BY <2>1 DEF Placed, Made
<1>2. ASSUME NEW u \in Slots, Opens(th[u].todo, c) PROVE FALSE
  <2> DEFINE p == th[u].todo
             y == th[u]
  <2>1. PICK i \in DOMAIN p : p[i].op = "launch" /\ p[i].run = c
    BY <1>2 DEF Opens
  <2>2. Ordered(y, p, runs)
    BY DEF Gates, Placed
  <2>3. ~Inserted(y, p, c)
    BY <2>1 DEF Inserted
  <2> HIDE DEF p, y
  <2> QED BY <2>1, <2>2, <2>3 DEF Ordered
<1> QED BY <1>1, <1>2 DEF Free

LEMMA FindChildGates ==
  ASSUME Inv, Gates, NEW t \in Slots, FindChild(t)
  PROVE  Gates'
<1> DEFINE there == Existing(th[t].run, th[t].at, th[t].worker)
           begins(c) == <<Do("insert"), Ev(th[t].run, "node.dispatched", th[t].at), Of("launch", c), Do("poll")>>
<1>1. At(t, "find") /\ UNCHANGED <<runs, log, interrupts, cast>> /\ "find" \in Going
  BY DEF FindChild, Tables, Going
<1>2. /\ Current(t) /\ th[t].todo # <<>> /\ th[t].kind = "exec" /\ DOMAIN th[t] = DOMAIN Idle
      /\ th[t].todo[1].op = "find" /\ Sits(th[t], First(t), runs, Deciders) /\ First(t).op = "find"
      /\ th[t].run \in Runs /\ runs[th[t].run].status # "none" /\ th[t].at = runs[th[t].run].next
  BY <1>1, ExecutorIs
<1>3. Passing(th[t], runs) /\ (KindIn(runs, th[t].run, th[t].at) = "dispatch" => th[t].run \in Deciders)
  BY <1>2 DEF Sits
<1>4. /\ Stored' /\ (\A r \in Runs : Position(r)')
      /\ Deciders' = Deciders /\ Grown(runs, runs') /\ Deciders \subseteq Deciders' /\ runs' = runs
      /\ \A r \in Runs : runs'[r].next = runs[r].next
  BY <1>1, RowsStill
<1>5. ASSUME NEW x, x.kind = th[t].kind, x.run = th[t].run, x.at = th[t].at
      PROVE  Sits(x, Do("poll"), runs', Deciders')
  <2>1. Passing(x, runs) /\ (KindIn(runs, x.run, x.at) = "dispatch" => x.run \in Deciders)
    BY <1>3, <1>5 DEF Passing
  <2>2. Do("poll").op = "poll"
    BY DEF Do
  <2> QED BY <1>4, <2>1, <2>2 DEF Sits, Answers
<1>6. ASSUME NEW c, Becomes(t, [th[t] EXCEPT !.child = c, !.todo = <<Do("poll")>>])
      PROVE  Gates'
  <2>1. PICK x : x = [th[t] EXCEPT !.child = c, !.todo = <<Do("poll")>>] /\ Becomes(t, x)
    BY <1>6
  <2>2. /\ x.todo = <<Do("poll")>> /\ x.kind = th[t].kind /\ x.run = th[t].run /\ x.at = th[t].at
    BY <1>2, <2>1 DEF Idle
  <2> DEFINE p == <<Do("poll")>>
  <2>3. p \in Seq({Do("poll")}) /\ DOMAIN p = {1} /\ p[1] = Do("poll") /\ x.todo = p /\ p[1].op = "poll"
    BY <2>2 DEF Do
  <2> HIDE DEF p
  <2>4. Inert(p)
    BY <2>3 DEF Inert, Answers
  <2>5. (\E S : x.todo \in Seq(S)) /\ Inert(x.todo) /\ \A i \in DOMAIN x.todo : Sits(x, x.todo[i], runs', Deciders')
    BY <1>5, <2>2, <2>3, <2>4
  <2>6. x.kind = "exec" => th[t].kind = "exec" /\ x.run = th[t].run /\ x.at = runs'[x.run].next
    BY <1>2, <1>4, <2>2
  <2> QED BY <1>2, <1>4, <2>1, <2>5, <2>6, BecomesGates
<1>7. ASSUME NEW c \in Runs, runs[c].status = "none", Becomes(t, [th[t] EXCEPT !.child = c, !.todo = begins(c)])
      PROVE  Gates'
  <2>1. PICK x : x = [th[t] EXCEPT !.child = c, !.todo = begins(c)] /\ Becomes(t, x)
    BY <1>7
  <2>2. PICK p : p = begins(c)
    OBVIOUS
  <2>3. /\ x.todo = p /\ x.kind = th[t].kind /\ x.run = th[t].run /\ x.at = th[t].at /\ x.child = c
    BY <1>2, <2>1, <2>2 DEF Idle
  <2>4. /\ p # <<>> /\ Len(p) = 4 /\ DOMAIN p = 1 .. 4 /\ \E S : p \in Seq(S)
    BY <2>2, FourLong
  <2>5. /\ p[1].op = "insert" /\ p[2].op = "append" /\ p[2].type # Decision
        /\ p[3].op = "launch" /\ p[3].run = c /\ p[4] = Do("poll") /\ p[4].op = "poll"
    BY <2>2 DEF Do, Ev, Of, Decision
  <2> HIDE DEF begins
  <2>6. \A i \in DOMAIN p : i \in {1, 2, 3, 4}
    BY <2>4
  <2>7. Ordered(x, p, runs')
    <3>1. Inserted(x, p, c)
      BY <2>3, <2>5 DEF Inserted
    <3>2. \A i \in DOMAIN p : p[i].op = "launch" => i = 3
      BY <2>5, <2>6
    <3>3. \A i \in DOMAIN p : p[i].op \notin {"cancel", "cascade", "advance"} \cup Answers
      BY <2>5, <2>6 DEF Answers
    <3>4. \A i \in DOMAIN p : p[i].op \in {"insert", "insert run"} => i = 1
      BY <2>5, <2>6
    <3> QED BY <2>5, <3>1, <3>2, <3>3, <3>4 DEF Ordered
  <2>8. \A i \in DOMAIN p : Sits(x, p[i], runs', Deciders')
    <3>1. Sits(x, p[4], runs', Deciders')
      BY <1>5, <2>3, <2>5
    <3>2. Sits(x, p[1], runs', Deciders') /\ Sits(x, p[2], runs', Deciders') /\ Sits(x, p[3], runs', Deciders')
      BY <2>5 DEF Sits, Answers
    <3> QED BY <2>6, <3>1, <3>2
  <2>9. Placed(x, runs', Deciders')
    BY <1>2, <1>4, <2>3, <2>7, <2>8 DEF Placed, Made
  <2>10. Free(c)
    <3>1. ASSUME NEW u \in Slots, NEW i \in DOMAIN th[u].todo, th[u].todo[1].op \in {"insert", "insert run"}
          PROVE  ~Inserted(th[u], th[u].todo, c)
      <4>1. \E S : th[u].todo \in Seq(S)
        BY DEF Inv, Programs, Proper, Program
      <4>2. 1 \in DOMAIN th[u].todo
        BY <3>1, <4>1, HasFirst
      <4>3. Inserts(th[u].todo)
        BY <3>1, <4>2 DEF Inserts
      <4>4. u = t
        BY <1>2, <4>3 DEF Gates, InOrder, Current
      <4> QED BY <1>2, <3>1, <4>4
    <3> QED BY <1>7, <3>1, FreshFree
  <2>11. \A r \in Runs : Opens(x.todo, r) => Opens(th[t].todo, r) \/ Free(r)
    <3>1. \A r : Opens(p, r) => r = c
      BY <2>5, <2>6 DEF Opens
    <3> QED BY <2>3, <2>10, <3>1
  <2>12. ~Attends(x.todo) /\ ~Advances(x.todo)
    <3>1. ~Attends(p) /\ ~Advances(p)
      BY <2>5, <2>6 DEF Attends, Advances, Answers
    <3> QED BY <2>3, <3>1
  <2>13. /\ queue \in Seq(Slots) /\ DOMAIN th = Slots
         /\ th' = [th EXCEPT ![t] = IF x.todo = <<>> THEN Idle ELSE x] /\ queue' = After(x)
    BY <2>1 DEF Becomes, Inv, Typed
  <2>14. DOMAIN th' = Slots /\ th'[t] = (IF x.todo = <<>> THEN Idle ELSE x) /\ \A u \in Slots \ {t} : th'[u] = th[u]
    BY <2>13
  <2>15. \A u \in Slots \ {t} : Same(th[u], th'[u]) /\ th'[u].todo = th[u].todo
    BY <2>14 DEF Same
  <2>16. <<>> \in Seq(Slots) /\ queue' = After(x) \o <<>>
    <3>1. After(x) \in Seq(Slots)
      <4>1. queue # <<>>
        BY <1>2 DEF Current
      <4>2. Tail(queue) \in Seq(Slots) /\ Head(queue) \in Slots
        BY <2>13, <4>1
      <4> QED BY <2>13, <4>2 DEF After
    <3> QED BY <2>13, <3>1, Joined
  <2>17. (\E S : x.todo \in Seq(S)) /\ (x.kind = "exec" => th[t].kind = "exec" /\ x.run = th[t].run)
    BY <2>3, <2>4
  <2> QED BY <1>2, <1>4, <2>9, <2>11, <2>12, <2>14, <2>15, <2>16, <2>17, TurnGates
<1>8. CASE there # {}
  <2>1. \E c : Becomes(t, [th[t] EXCEPT !.child = c, !.todo = <<Do("poll")>>])
    BY <1>8 DEF FindChild
  <2> QED BY <1>6, <2>1
<1>9. CASE there = {}
  <2> DEFINE c == CHOOSE x \in FreshKids : TRUE
  <2>1. FreshKids # {} /\ Becomes(t, [th[t] EXCEPT !.child = c, !.todo = begins(c)])
    BY <1>9 DEF FindChild
  <2> HIDE DEF begins
  <2>2. c \in Runs /\ runs[c].status = "none"
    BY <2>1 DEF FreshKids, Runs
  <2> HIDE DEF c
  <2> QED BY <1>7, <2>1, <2>2
<1> QED BY <1>8, <1>9

-----------------------------------------------------------------------------
(* Answering                                                               *)

(* Who answers is alone: nobody executes the run, or is about to.          *)
LEMMA AnswererIs ==
  ASSUME Inv, Gates, NEW t \in Slots, NEW op \in Answers, At(t, op)
  PROVE  LET r == th[t].run  n == th[t].node IN
         /\ Current(t) /\ th[t].todo # <<>> /\ th[t].kind = "call" /\ DOMAIN th[t] = DOMAIN Idle
         /\ Answering(th[t], runs) /\ r \in Runs /\ runs[r].status # "none" /\ Position(r)
         /\ queue = <<t>> /\ (op = "tally" => Kind(r, n) = "approval")
         /\ Open(r, n) => /\ n = runs[r].next /\ n \in 1 .. Length(r) /\ n \in Nodes /\ Kind(r, n) \in Asking
                          /\ Tallied(interrupts[r][n].votes, cast[r][n]) /\ Free(r)
<1> DEFINE r == th[t].run
           n == th[t].node
<1>1. /\ Current(t) /\ th[t].todo # <<>> /\ th[t].todo[1].op = op /\ 1 \in DOMAIN th[t].todo
      /\ Program(th[t]) /\ DOMAIN th[t] = DOMAIN Idle
  BY FirstFits DEF Program
<1>2. Placed(th[t], runs, Deciders) /\ queue = <<t>>
  BY <1>1 DEF Gates, InOrder, Attends
<1>3. Answering(th[t], runs) /\ (op = "tally" => KindIn(runs, r, n) = "approval")
  BY <1>1, <1>2 DEF Placed, Sits
<1>4. /\ r \in Runs /\ runs[r].status # "none" /\ th[t].kind = "call"
      /\ n \in 1 .. Length(r) /\ Kind(r, n) \in Asking
      /\ op = "tally" => Kind(r, n) = "approval"
  BY <1>3 DEF Answering, Made, On, KindIn, Kind, Length
<1>5. Position(r)
  BY <1>4 DEF Gates
<1>6. n \in Nodes
  BY <1>4, <1>5, SqliteAssumption DEF Nodes, Position, Length
<1>7. ASSUME Open(r, n)
      PROVE  n = runs[r].next /\ Tallied(interrupts[r][n].votes, cast[r][n])
  BY <1>5, <1>6, <1>7 DEF Position
<1>8. ASSUME NEW u \in Slots \ {t}, th[u].todo # <<>>
      PROVE  th[u].todo[1].op \in {"body", "sleep", "nap"}
  <2>1. ~Queued(u)
    <3> DEFINE q == <<t>>
    <3>1. DOMAIN q = {1} /\ q[1] = t /\ queue = q
      BY <1>2
    <3> HIDE DEF q
    <3> QED BY <1>8, <3>1 DEF Queued, Within
  <2> QED BY <1>8, <2>1 DEF Gates, InOrder
<1>9. ASSUME NEW u \in Slots, NEW q, Opens(th[u].todo, q) PROVE FALSE
  <2> DEFINE y == th[u]
             p == y.todo
  <2>1. PICK i \in DOMAIN p : p[i].op = "launch"
    BY <1>9 DEF Opens
  <2>2. Program(y)
    BY DEF Inv, Programs, Proper
  <2>3. p # <<>>
    <3>1. PICK S : p \in Seq(S)
      BY <2>2 DEF Program
    <3> QED BY <2>1, <3>1, Slots1
  <2>4. /\ Head(p) = p[1] /\ Len(p) \in Nat \ {0} /\ DOMAIN p = 1 .. Len(p)
        /\ Head(p).op \in Going \cup Answers \cup {"cancel"} => Len(p) = 1
        /\ Head(p).op = "body" => Len(p) = 2 /\ p[2].op \in Answers
    BY <2>2, <2>3, Started
  <2>5. p[1].op \in {"body", "sleep", "nap"} \cup Answers
    BY <1>1, <1>8, <2>3
  <2> HIDE DEF y, p
  <2>6. CASE p[1].op = "body"
    <3>1. i \in {1, 2} /\ p[2].op \in Answers
      BY <2>1, <2>4, <2>6
    <3> QED BY <2>1, <2>6, <3>1 DEF Answers
  <2>7. CASE p[1].op \in {"sleep", "nap"} \cup Answers
    <3>1. i = 1
      BY <2>1, <2>4, <2>7 DEF Going
    <3> QED BY <2>1, <2>7, <3>1 DEF Answers
  <2> QED BY <2>5, <2>6, <2>7
<1>10. ASSUME Open(r, n), NEW u \in Executors(r) PROVE FALSE
  <2>1. u \in Slots /\ th[u].kind = "exec" /\ th[u].run = r /\ u # t
    BY <1>4 DEF Executors
  <2>2. Placed(th[u], runs, Deciders) /\ Program(th[u]) /\ th[u].todo # <<>>
    BY <2>1 DEF Gates, Inv, Programs, Proper
  <2>3. th[u].at = n
    BY <1>7, <1>10, <2>1, <2>2 DEF Placed
  <2>4. 1 \in DOMAIN th[u].todo
    <3>1. PICK S : th[u].todo \in Seq(S)
      BY <2>2 DEF Program
    <3> QED BY <2>2, <3>1, Slots1
  <2>5. Sits(th[u], th[u].todo[1], runs, Deciders)
    BY <2>2, <2>4 DEF Placed
  <2>6. th[u].todo[1].op \in {"body", "sleep", "nap"}
    BY <1>8, <2>1, <2>2
  <2>7. CASE th[u].todo[1].op = "body"
    BY <2>1, <2>5, <2>7 DEF Sits, Answering
  <2>8. CASE th[u].todo[1].op \in {"sleep", "nap"}
    BY <1>4, <2>1, <2>3, <2>5, <2>8 DEF Sits, Passing, KindIn, Kind
  <2> QED BY <2>6, <2>7, <2>8
<1>11. Open(r, n) => Free(r)
  BY <1>9, <1>10 DEF Free
<1> QED BY <1>1, <1>2, <1>3, <1>4, <1>5, <1>6, <1>7, <1>11

(* What is said of an answer; a launch comes last, an advance after it.    *)
Tells(r, p) ==
  /\ \E S : p \in Seq(S)
  /\ \A i \in DOMAIN p :
       /\ (Plain(p[i]) /\ p[i].op # "cascade") \/ p[i].op \in {"advance", "launch"}
       /\ p[i].op = "launch" => p[i].run = r /\ i = Len(p)
       /\ p[i].op = "advance" => \A j \in 1 .. i - 1 : p[j].op = "append"

LEMMA TellsMeek == ASSUME NEW r, NEW p, Meek(p), \A i \in DOMAIN p : p[i].op # "cascade" PROVE Tells(r, p)
BY DEF Meek, Plain, Tells

LEMMA TellsPut ==
  ASSUME NEW r, NEW q, Tells(r, q), NEW type, type # Decision, NEW n
  PROVE  /\ Tells(r, <<Ev(r, type, n)>> \o q)
         /\ Advances(<<Ev(r, type, n)>> \o q) => Advances(q)
<1> DEFINE e == Ev(r, type, n)
           w == <<e>> \o q
<1>1. e.op = "append" /\ Plain(e)
  BY DEF Ev, Plain
<1> HIDE DEF e
<1>2. /\ \E S : w \in Seq(S)
      /\ Len(q) \in Nat /\ DOMAIN q = 1 .. Len(q)
      /\ Len(w) = Len(q) + 1 /\ DOMAIN w = 1 .. Len(q) + 1
      /\ w[1] = e /\ \A i \in 1 .. Len(q) : w[i + 1] = q[i]
  BY Put DEF Tells
<1> HIDE DEF w
<1>3. ASSUME NEW i \in DOMAIN w, i # 1 PROVE i - 1 \in DOMAIN q /\ w[i] = q[i - 1] /\ i \in Nat
  <2>1. i - 1 \in 1 .. Len(q) /\ (i - 1) + 1 = i
    BY <1>2, <1>3
  <2> QED BY <1>2, <2>1
<1>4. ASSUME NEW i \in DOMAIN w
      PROVE  /\ (Plain(w[i]) /\ w[i].op # "cascade") \/ w[i].op \in {"advance", "launch"}
             /\ w[i].op = "launch" => w[i].run = r /\ i = Len(w)
             /\ w[i].op = "advance" => \A j \in 1 .. i - 1 : w[j].op = "append"
  <2>1. CASE i = 1
    BY <1>1, <1>2, <2>1
  <2>2. CASE i # 1
    <3>1. i - 1 \in DOMAIN q /\ w[i] = q[i - 1] /\ i \in Nat
      BY <1>3, <2>2
    <3>2. /\ (Plain(q[i - 1]) /\ q[i - 1].op # "cascade") \/ q[i - 1].op \in {"advance", "launch"}
          /\ q[i - 1].op = "launch" => q[i - 1].run = r /\ i - 1 = Len(q)
          /\ q[i - 1].op = "advance" => \A j \in 1 .. (i - 1) - 1 : q[j].op = "append"
      BY <3>1 DEF Tells
    <3>3. ASSUME w[i].op = "advance", NEW j \in 1 .. i - 1 PROVE w[j].op = "append"
      <4>1. CASE j = 1
        BY <1>1, <1>2, <4>1
      <4>2. CASE j # 1
        <5>1. j \in DOMAIN w /\ j - 1 \in 1 .. (i - 1) - 1
          BY <1>2, <3>1, <3>3, <4>2
        <5>2. w[j] = q[j - 1]
          BY <1>3, <4>2, <5>1
        <5> QED BY <3>1, <3>2, <3>3, <5>1, <5>2
      <4> QED BY <4>1, <4>2
    <3> QED BY <1>2, <3>1, <3>2, <3>3
  <2> QED BY <2>1, <2>2
<1>5. Tells(r, w)
  BY <1>2, <1>4 DEF Tells
<1>6. Advances(w) => Advances(q)
  <2> SUFFICES ASSUME NEW i \in DOMAIN w, w[i].op = "advance" PROVE Advances(q)
    BY DEF Advances
  <2>1. i # 1
    BY <1>1, <1>2
  <2> QED BY <1>3, <2>1 DEF Advances
<1> QED BY <1>5, <1>6 DEF w, e

LEMMA TellsPair ==
  ASSUME NEW r, NEW e, e.op = "advance" \/ e.op = "set"
  PROVE  /\ Tells(r, <<e, Of("launch", r)>>)
         /\ e.op = "set" => ~Advances(<<e, Of("launch", r)>>)
<1> DEFINE p == <<e, Of("launch", r)>>
<1>1. p \in Seq({e, Of("launch", r)}) /\ Len(p) = 2 /\ DOMAIN p = {1, 2} /\ p[1] = e /\ p[2] = Of("launch", r)
  OBVIOUS
<1>2. p[2].op = "launch" /\ p[2].run = r
  BY <1>1 DEF Of
<1>3. \E S : p \in Seq(S)
  BY <1>1
<1> HIDE DEF p
<1>4. Tells(r, p)
  BY <1>1, <1>2, <1>3 DEF Tells, Plain
<1>5. e.op = "set" => ~Advances(p)
  BY <1>1, <1>2 DEF Advances
<1> QED BY <1>4, <1>5 DEF p

LEMMA TellsAll ==
  ASSUME NEW r, NEW n
  PROVE  /\ Tells(r, Resumes(r, n)) /\ Tells(r, Recorded(r, n) \o Resumes(r, n))
         /\ LET p == Recorded(r, n) \o <<Set(r, "running"), Of("launch", r)>> IN Tells(r, p) /\ ~Advances(p)
         /\ Meek(Recorded(r, n) \o <<Ev(r, "node.completed", n)>> \o Fails(r))
         /\ Meek(<<Ev(r, "interrupt.vote", n)>>)
<1>1. Tells(r, <<Do("advance"), Of("launch", r)>>)
  BY TellsPair DEF Do
<1>2. Tells(r, <<Ev(r, "node.completed", n)>> \o <<Do("advance"), Of("launch", r)>>)
  BY <1>1, TellsPut DEF Decision
<1>3. Tells(r, <<Ev(r, "node.resumed", n)>> \o (<<Ev(r, "node.completed", n)>> \o <<Do("advance"), Of("launch", r)>>))
  BY <1>2, TellsPut DEF Decision
<1>4. Resumes(r, n) = <<Ev(r, "node.resumed", n)>> \o (<<Ev(r, "node.completed", n)>> \o <<Do("advance"), Of("launch", r)>>)
  <2>1. PICK a, b, c, d : a = Ev(r, "node.resumed", n) /\ b = Ev(r, "node.completed", n) /\ c = Do("advance") /\ d = Of("launch", r)
    OBVIOUS
  <2>2. <<a, b, c, d>> = <<a>> \o (<<b>> \o <<c, d>>)
    <3>1. PICK q : q = <<b, c, d>>
      OBVIOUS
    <3>2. q = <<b>> \o <<c, d>>
      BY ONLY <3>1, Three
    <3>3. <<a, b, c, d>> = <<a>> \o q
      BY ONLY <3>1
    <3> QED BY ONLY <3>2, <3>3
  <2> QED BY <2>1, <2>2, Zenon DEF Resumes
<1>5. Tells(r, Resumes(r, n)) /\ Tells(r, Recorded(r, n) \o Resumes(r, n))
  BY <1>3, <1>4, TellsPut DEF Recorded, Decision
<1>6. LET q == <<Set(r, "running"), Of("launch", r)>> IN Tells(r, q) /\ ~Advances(q)
  BY TellsPair DEF Set
<1>7. LET p == Recorded(r, n) \o <<Set(r, "running"), Of("launch", r)>> IN Tells(r, p) /\ ~Advances(p)
  BY <1>6, TellsPut DEF Recorded, Decision
<1>8. \A type \in {"interrupt.resolved", "node.completed", "interrupt.vote"} : Meek(<<Ev(r, type, n)>>)
  BY MeekOne DEF Plain, Ev, Decision
<1> QED BY <1>5, <1>7, <1>8, MeekEnds, MeekBoth DEF Recorded

(* The handler goes on with what follows its answer.                       *)
LEMMA TellsGates ==
  ASSUME Inv, Gates, NEW t \in Slots, NEW op \in Answers, At(t, op), NEW p, Goes(t, p), Tells(th[t].run, p),
         \A r : Opens(p, r) => Open(th[t].run, th[t].node),
         Advances(p) => Found(th[t].run, th[t].node, runs, interrupts', cast') /\ Open(th[t].run, th[t].node),
         UNCHANGED <<runs, log>>, Stored', \A r \in Runs : Position(r)'
  PROVE  Gates'
<1>1. PICK x : x = [th[t] EXCEPT !.todo = p] /\ Becomes(t, x)
  BY DEF Goes
<1> DEFINE y == th[t]
           r == y.run
           n == y.node
<1>2. /\ Current(t) /\ th[t].todo # <<>> /\ y.kind = "call" /\ DOMAIN y = DOMAIN Idle
      /\ Answering(y, runs) /\ r \in Runs /\ runs[r].status # "none" /\ queue = <<t>>
      /\ Open(r, n) => Free(r)
  BY AnswererIs
<1>3. x.kind = "call" /\ x.run = r /\ x.node = n /\ x.row = y.row /\ x.todo = p
  BY <1>1, <1>2 DEF Idle
<1>4. runs' = runs /\ Deciders' = Deciders /\ Grown(runs, runs')
  BY DEF Deciders, Decided, Logged, Grown
<1>5. Answering(x, runs')
  BY <1>2, <1>3, <1>4 DEF Answering
<1>6. /\ \E S : p \in Seq(S)
      /\ \A i \in DOMAIN p :
           /\ (Plain(p[i]) /\ p[i].op # "cascade") \/ p[i].op \in {"advance", "launch"}
           /\ p[i].op = "launch" => p[i].run = r /\ i = Len(p)
           /\ p[i].op = "advance" => \A j \in 1 .. i - 1 : p[j].op = "append"
      /\ \A q : Opens(p, q) => Open(r, n)
      /\ Advances(p) => Found(r, n, runs, interrupts', cast') /\ Open(r, n)
  BY DEF Tells
<1>7. Stored' /\ \A q \in Runs : Position(q)'
  OBVIOUS
<1> HIDE DEF r, n, y
<1>8. \A i \in DOMAIN p : p[i].op \notin {"insert", "insert run", "cancel", "cascade", "body"} \cup Answers
  BY <1>6 DEF Plain, Answers
<1>9. \A i \in DOMAIN p : Sits(x, p[i], runs', Deciders')
  <2> SUFFICES ASSUME NEW i \in DOMAIN p PROVE Sits(x, p[i], runs', Deciders')
    OBVIOUS
  <2>1. CASE Plain(p[i])
    BY <2>1, PlainSits
  <2>2. CASE p[i].op \in {"advance", "launch"}
    BY <1>5, <2>2 DEF Sits, Answers
  <2> QED BY <1>6, <2>1, <2>2
<1>10. Ordered(x, p, runs')
  <2>1. \A i \in DOMAIN p : p[i].op = "launch" => /\ p[i].run = r /\ i = Len(p)
    BY <1>6
  <2> QED BY <1>2, <1>4, <1>6, <1>8, <2>1 DEF Ordered
<1>11. Placed(x, runs', Deciders')
  BY <1>3, <1>9, <1>10 DEF Placed
<1>12. \A q \in Runs : Opens(x.todo, q) => Opens(th[t].todo, q) \/ Free(q)
  <2>1. \A q : Opens(p, q) => q = r
    BY <1>6 DEF Opens
  <2> QED BY <1>2, <1>3, <1>6, <2>1
<1>13. /\ queue \in Seq(Slots) /\ DOMAIN th = Slots
       /\ th' = [th EXCEPT ![t] = IF x.todo = <<>> THEN Idle ELSE x] /\ queue' = After(x)
  BY <1>1 DEF Becomes, Inv, Typed
<1>14. DOMAIN th' = Slots /\ th'[t] = (IF x.todo = <<>> THEN Idle ELSE x) /\ \A u \in Slots \ {t} : th'[u] = th[u]
  BY <1>13
<1>15. \A u \in Slots \ {t} : Same(th[u], th'[u]) /\ th'[u].todo = th[u].todo
  BY <1>14 DEF Same
<1>16. PICK woken \in Seq(Slots) : woken = <<>> /\ queue' = After(x) \o woken
  <2>1. After(x) \in Seq(Slots)
    <3>1. queue # <<>>
      BY <1>2 DEF Current
    <3>2. Tail(queue) \in Seq(Slots) /\ Head(queue) \in Slots
      BY <1>13, <3>1
    <3> QED BY <1>13, <3>2 DEF After
  <2>2. <<>> \in Seq(Slots) /\ queue' = After(x) \o <<>>
    BY <1>13, <2>1, Joined
  <2> QED BY <2>2
<1>17. Attends(x.todo) => queue = <<t>> /\ woken = <<>>
  BY <1>2, <1>16
<1>18. Advances(x.todo) => /\ x.run \in Runs /\ Executors(x.run) = {}
                           /\ Found(x.run, x.node, runs', interrupts', cast')
  BY <1>2, <1>3, <1>4, <1>6 DEF Free
<1>19. (\E S : x.todo \in Seq(S)) /\ x.kind # "exec"
  BY <1>3, <1>6
<1>20. \A q \in Runs : runs'[q].next = runs[q].next
  BY <1>4
<1> QED BY <1>2, <1>4, <1>7, <1>11, <1>12, <1>14, <1>15, <1>16, <1>17, <1>18, <1>19, <1>20, TurnGates

(* The gate a run is at is marked: nothing it has passed changes.          *)
LEMMA MarkedStill ==
  ASSUME Gates, NEW r \in Runs, runs[r].status # "none", NEW n, n \in Nodes, n = runs[r].next,
         n \in 1 .. Length(r), Kind(r, n) \in Asking, UNCHANGED <<runs, log>>,
         DOMAIN interrupts' = Runs, DOMAIN cast' = Runs,
         \A q \in Runs : DOMAIN interrupts'[q] = Nodes /\ DOMAIN cast'[q] = Nodes,
         \A q \in Runs : \A m \in Nodes : q # r \/ m # n =>
           interrupts'[q][m] = interrupts[q][m] /\ cast'[q][m] = cast[q][m],
         DOMAIN interrupts'[r][n] = {"state", "votes"}, IsFiniteSet(cast'[r][n]),
         interrupts'[r][n].state = "open" => Tallied(interrupts'[r][n].votes, cast'[r][n])
  PROVE  /\ Stored' /\ \A q \in Runs : Position(q)'
         /\ Open(r, n) /\ interrupts'[r][n].state # "open" => \A m \in Nodes : interrupts'[r][m].state # "open"
<1>1. Stored /\ \A q \in Runs : Position(q)
  BY DEF Gates
<1>2. Stored'
  BY <1>1 DEF Stored
<1>3. ASSUME NEW q \in Runs PROVE Position(q)'
  <2>1. Position(q)
    BY <1>1
  <2>2. (Decided(q)' <=> Decided(q)) /\ Length(q)' = Length(q) /\ \A m : Kind(q, m)' = Kind(q, m)
    BY DEF Decided, Logged, Length, Kind
  <2>3. ASSUME NEW m \in 1 .. Length(q), m < runs[q].next PROVE Honoured(q, m)'
    <3>1. Honoured(q, m) /\ (q # r \/ m # n)
      BY <2>1, <2>3 DEF Position
    <3>2. m \in Nodes
      BY <2>1, SqliteAssumption DEF Nodes, Position, Length
    <3>3. cast'[q][m] = cast[q][m]
      BY <3>1, <3>2
    <3> QED BY <2>2, <3>1, <3>3 DEF Honoured
  <2>4. ASSUME NEW m \in Nodes
        PROVE  /\ IsFiniteSet(cast'[q][m])
               /\ Open(q, m)' => /\ m = runs[q].next /\ m \in 1 .. Length(q) /\ Kind(q, m) \in Asking
                                 /\ Tallied(interrupts'[q][m].votes, cast'[q][m])
    <3>1. CASE q # r \/ m # n
      <4>1. interrupts'[q][m] = interrupts[q][m] /\ cast'[q][m] = cast[q][m]
        BY <3>1
      <4> QED BY <2>1, <4>1 DEF Position, Open
    <3>2. CASE q = r /\ m = n
      BY <3>2 DEF Open
    <3> QED BY <3>1, <3>2
  <2>5. runs[q].status = "none" => \A m \in Nodes : ~Open(q, m)'
    <3> SUFFICES ASSUME runs[q].status = "none", NEW m \in Nodes PROVE ~Open(q, m)'
      OBVIOUS
    <3>1. interrupts'[q][m] = interrupts[q][m]
      OBVIOUS
    <3> QED BY <2>1, <3>1 DEF Position, Open
  <2> QED BY <2>1, <2>2, <2>3, <2>4, <2>5 DEF Position
<1>4. ASSUME Open(r, n), interrupts'[r][n].state # "open", NEW m \in Nodes
      PROVE  interrupts'[r][m].state # "open"
  <2>1. CASE m = n
    BY <1>4, <2>1
  <2>2. CASE m # n
    <3>1. interrupts'[r][m] = interrupts[r][m]
      BY <2>2
    <3>2. Open(r, m) => m = runs[r].next
      BY <1>1 DEF Position
    <3> QED BY <2>2, <3>1, <3>2 DEF Open
  <2> QED BY <2>1, <2>2
<1> QED BY <1>2, <1>3, <1>4

(* The votes after one more, of which the last of each voter counts.       *)
LEMMA VotesTallied ==
  ASSUME NEW votes, NEW voters, Tallied(votes, voters), IsFiniteSet(voters), NEW ballot
  PROVE  LET others == voters \ {ballot.voter}
             voted == IF ballot.choice = "accept" THEN others \cup {ballot.voter} ELSE others IN
         /\ IsFiniteSet(voted) /\ Tallied(LastOfEach(votes, ballot), voted)
<1> DEFINE others == voters \ {ballot.voter}
           voted == IF ballot.choice = "accept" THEN others \cup {ballot.voter} ELSE others
           before == {b \in votes : b.voter # ballot.voter}
<1>1. IsFiniteSet(others)
  BY FS_RemoveElement
<1>2. IsFiniteSet(others \cup {ballot.voter})
  BY <1>1, FS_AddElement
<1>3. IsFiniteSet(before \cup {ballot})
  <2>1. IsFiniteSet(before)
    BY FS_Subset DEF Tallied
  <2> QED BY <2>1, FS_AddElement
<1>4. LastOfEach(votes, ballot) = before \cup {ballot}
  BY DEF LastOfEach
<1>5. \A a, b \in before \cup {ballot} : a.voter = b.voter => a = b
  BY DEF Tallied
<1>6. \A b \in before \cup {ballot} : b.choice = "accept" => b.voter \in voted
  BY DEF Tallied
<1>7. IsFiniteSet(voted)
  BY <1>1, <1>2
<1> HIDE DEF voted, before
<1>8. Tallied(before \cup {ballot}, voted)
  BY <1>3, <1>5, <1>6 DEF Tallied
<1> QED BY <1>4, <1>7, <1>8 DEF voted

(* As many accept as there are votes that do.                              *)
LEMMA VotesCounted ==
  ASSUME NEW votes, NEW voters, Tallied(votes, voters), IsFiniteSet(voters),
         Chose(votes, "accept") >= Required
  PROVE  Cardinality(voters) >= Required
<1> DEFINE A == {b \in votes : b.choice = "accept"}
           f == [b \in A |-> b.voter]
<1>1. f \in [A -> voters] /\ \A a, b \in A : f[a] = f[b] => a = b
  BY DEF Tallied
<1>2. Chose(votes, "accept") = Cardinality(A)
  BY DEF Chose
<1> HIDE DEF A, f
<1>3. f \in Injection(A, voters)
  BY <1>1 DEF Injection, IsInjective
<1>4. IsFiniteSet(A) /\ Cardinality(A) <= Cardinality(voters)
  BY <1>3, FS_Injection
<1>5. Cardinality(A) \in Nat /\ Cardinality(voters) \in Nat /\ Required \in Nat
  BY <1>4, FS_CardinalityType, SqliteAssumption
<1> QED BY <1>2, <1>4, <1>5

LEMMA ResolveApprovalGates ==
  ASSUME Inv, Gates, NEW t \in Slots, ResolveApproval(t)
  PROVE  Gates'
<1> DEFINE r == th[t].run
           n == th[t].node
           ballot == th[t].ballot
           votes == LastOfEach(interrupts[r][n].votes, ballot)
           others == cast[r][n] \ {ballot.voter}
           voted == IF ballot.choice = "accept" THEN others \cup {ballot.voter} ELSE others
           reject == Recorded(r, n) \o <<Ev(r, "node.completed", n)>> \o Fails(r)
           again == Recorded(r, n) \o <<Set(r, "running"), Of("launch", r)>>
           accept == Recorded(r, n) \o Resumes(r, n)
           voting == <<Ev(r, "interrupt.vote", n)>>
           Marks(state, voters) ==
             /\ interrupts' = [interrupts EXCEPT ![r][n] = [state |-> state, votes |-> votes]]
             /\ cast' = [cast EXCEPT ![r][n] = voters]
<1>1. /\ At(t, "tally") /\ "tally" \in Answers /\ UNCHANGED <<runs, log>>
      /\ \/ ~Open(r, n) /\ Goes(t, <<>>) /\ UNCHANGED <<interrupts, cast>>
         \/ Open(r, n) /\ Marks("refined", {}) /\ Goes(t, again)
         \/ Open(r, n) /\ Marks("accepted", voted) /\ Goes(t, accept) /\ Chose(votes, "accept") >= Required
         \/ Open(r, n) /\ Marks("rejected", voted) /\ Goes(t, reject)
         \/ Open(r, n) /\ Marks("open", voted) /\ Goes(t, voting)
  BY DEF ResolveApproval, Answers
<1>2. /\ Answering(th[t], runs) /\ r \in Runs /\ runs[r].status # "none" /\ Kind(r, n) = "approval" /\ Position(r)
      /\ Open(r, n) => /\ n = runs[r].next /\ n \in 1 .. Length(r) /\ n \in Nodes /\ Kind(r, n) \in Asking
                       /\ Tallied(interrupts[r][n].votes, cast[r][n])
  BY <1>1, AnswererIs
<1>3. Stored
  BY DEF Gates
<1>4. Open(r, n) => IsFiniteSet(voted) /\ Tallied(votes, voted)
  <2> SUFFICES ASSUME Open(r, n) PROVE IsFiniteSet(voted) /\ Tallied(votes, voted)
    OBVIOUS
  <2>1. IsFiniteSet(cast[r][n]) /\ Tallied(interrupts[r][n].votes, cast[r][n])
    BY <1>2 DEF Position
  <2> QED BY <2>1, VotesTallied
<1>5. /\ Tells(r, again) /\ ~Advances(again) /\ Tells(r, accept)
      /\ Meek(reject) /\ Meek(voting) /\ Meek(<<>>)
  BY TellsAll, MeekNone
<1> HIDE DEF again, accept, reject, voting, votes, voted
<1>6. ASSUME NEW state, NEW voters, Marks(state, voters), Open(r, n), IsFiniteSet(voters),
             state = "open" => Tallied(votes, voters)
      PROVE  /\ Stored' /\ \A q \in Runs : Position(q)'
             /\ state # "open" => \A m \in Nodes : interrupts'[r][m].state # "open"
             /\ cast'[r][n] = voters
  <2>1. /\ interrupts'[r][n] = [state |-> state, votes |-> votes] /\ cast'[r][n] = voters
        /\ DOMAIN interrupts' = Runs /\ DOMAIN cast' = Runs
    BY <1>2, <1>3, <1>6 DEF Stored
  <2>2. /\ \A q \in Runs : DOMAIN interrupts'[q] = Nodes /\ DOMAIN cast'[q] = Nodes
        /\ \A q \in Runs : \A m \in Nodes : q # r \/ m # n =>
             interrupts'[q][m] = interrupts[q][m] /\ cast'[q][m] = cast[q][m]
    BY <1>2, <1>3, <1>6 DEF Stored
  <2>3. /\ DOMAIN interrupts'[r][n] = {"state", "votes"}
        /\ interrupts'[r][n].state = state /\ interrupts'[r][n].votes = votes
    BY <2>1
  <2> HIDE DEF Marks, r, n
  <2> QED BY <1>1, <1>2, <1>6, <2>1, <2>2, <2>3, MarkedStill
<1> HIDE DEF Marks
<1>7. CASE ~Open(r, n) /\ Goes(t, <<>>) /\ UNCHANGED <<interrupts, cast>>
  <2>1. /\ Stored' /\ \A q \in Runs : Position(q)'
    BY <1>1, <1>7, RowsStill
  <2>2. DOMAIN <<>> = {}
    BY Slots1
  <2>3. Tells(r, <<>>) /\ (\A q : ~Opens(<<>>, q)) /\ ~Advances(<<>>)
    BY <1>5, <2>2, TellsMeek DEF Opens, Advances
  <2> QED BY <1>1, <1>7, <2>1, <2>3, TellsGates
<1>8. CASE Open(r, n) /\ Marks("refined", {}) /\ Goes(t, again)
  <2>1. /\ Stored' /\ \A q \in Runs : Position(q)'
    BY <1>6, <1>8, FS_EmptySet
  <2> QED BY <1>1, <1>5, <1>8, <2>1, TellsGates
<1>9. CASE Open(r, n) /\ Marks("accepted", voted) /\ Goes(t, accept) /\ Chose(votes, "accept") >= Required
  <2>1. /\ Stored' /\ (\A q \in Runs : Position(q)') /\ (\A m \in Nodes : interrupts'[r][m].state # "open")
        /\ cast'[r][n] = voted
    BY <1>4, <1>6, <1>9
  <2>2. Cardinality(voted) >= Required
    BY <1>4, <1>9, VotesCounted
  <2>3. Found(r, n, runs, interrupts', cast')
    BY <1>2, <1>9, <2>1, <2>2 DEF Found
  <2> QED BY <1>1, <1>5, <1>9, <2>1, <2>3, TellsGates
<1>10. ASSUME NEW state, NEW p \in {reject, voting}, Open(r, n), Marks(state, voted), Goes(t, p) PROVE Gates'
  <2>1. /\ Stored' /\ \A q \in Runs : Position(q)'
    BY <1>4, <1>6, <1>10
  <2>2. \A i \in DOMAIN p : p[i].op \notin {"advance", "launch"} /\ Plain(p[i])
    BY <1>5, <1>10 DEF Meek, Plain
  <2>3. ~Advances(p)
    BY <2>2 DEF Advances
  <2>4. Meek(p)
    BY <1>5, <1>10
  <2>5. \A i \in DOMAIN p : p[i].op # "cascade"
    <3>1. CASE p = voting
      <4>1. voting[1].op = "append" /\ DOMAIN voting = {1}
        BY DEF voting, Ev
      <4> QED BY <3>1, <4>1
    <3>2. CASE p = reject
      <4>1. \A i \in DOMAIN p : p[i].op # "cascade"
        BY <3>2 DEF reject, Recorded, Fails, Ends, Ev, Set, Of
      <4> QED BY <4>1
    <3> QED BY <1>10, <3>1, <3>2
  <2>6. Tells(r, p)
    BY <2>4, <2>5, TellsMeek
  <2> QED BY <1>1, <1>10, <2>1, <2>3, <2>6, TellsGates
<1> QED BY <1>1, <1>7, <1>8, <1>9, <1>10

LEMMA ResolveAnswerGates ==
  ASSUME Inv, Gates, NEW t \in Slots, ResolveClarification(t) \/ ResolveExternalEvent(t)
  PROVE  Gates'
<1> DEFINE r == th[t].run
           n == th[t].node
           Marks(state) == interrupts' = [interrupts EXCEPT ![r][n].state = state]
<1>1. /\ At(t, "answer") /\ "answer" \in Answers /\ UNCHANGED <<runs, log, cast>>
      /\ Kind(r, n) \in {"clarification", "external"}
      /\ \/ Goes(t, <<>>) /\ UNCHANGED interrupts
         \/ \E state \in {"resolved", "expired"} : \E p \in {<<>>, Resumes(r, n), Recorded(r, n) \o Resumes(r, n)} :
              Open(r, n) /\ Marks(state) /\ Goes(t, p)
  BY DEF ResolveClarification, ResolveExternalEvent, Answers
<1>2. /\ Answering(th[t], runs) /\ r \in Runs /\ runs[r].status # "none" /\ Position(r)
      /\ Open(r, n) => /\ n = runs[r].next /\ n \in 1 .. Length(r) /\ n \in Nodes /\ Kind(r, n) \in Asking
                       /\ Tallied(interrupts[r][n].votes, cast[r][n])
  BY <1>1, AnswererIs
<1>3. Stored
  BY DEF Gates
<1>4. /\ Tells(r, <<>>) /\ (\A q : ~Opens(<<>>, q)) /\ ~Advances(<<>>)
      /\ Tells(r, Resumes(r, n)) /\ Tells(r, Recorded(r, n) \o Resumes(r, n))
  <2>1. DOMAIN <<>> = {}
    BY Slots1
  <2> QED BY <2>1, MeekNone, TellsMeek, TellsAll DEF Opens, Advances
<1>5. CASE Goes(t, <<>>) /\ UNCHANGED interrupts
  <2>1. /\ Stored' /\ \A q \in Runs : Position(q)'
    BY <1>1, <1>5, RowsStill
  <2> QED BY <1>1, <1>4, <1>5, <2>1, TellsGates
<1>6. ASSUME NEW state \in {"resolved", "expired"},
             NEW p \in {<<>>, Resumes(r, n), Recorded(r, n) \o Resumes(r, n)},
             Open(r, n), Marks(state), Goes(t, p)
      PROVE  Gates'
  <2>1. Tells(r, p)
    BY <1>4, <1>6
  <2>2. /\ DOMAIN interrupts' = Runs /\ DOMAIN cast' = Runs
        /\ interrupts'[r][n].state = state /\ DOMAIN interrupts'[r][n] = {"state", "votes"}
    <3>1. r \in DOMAIN interrupts /\ n \in DOMAIN interrupts[r] /\ DOMAIN interrupts[r][n] = {"state", "votes"}
      BY <1>2, <1>3, <1>6 DEF Stored
    <3>2. interrupts'[r][n] = [interrupts[r][n] EXCEPT !.state = state]
      BY <1>6, <3>1
    <3>3. DOMAIN interrupts' = Runs /\ DOMAIN cast' = Runs
      BY <1>1, <1>3, <1>6 DEF Stored
    <3> QED BY <3>1, <3>2, <3>3
  <2>3. /\ \A q \in Runs : DOMAIN interrupts'[q] = Nodes /\ DOMAIN cast'[q] = Nodes
        /\ \A q \in Runs : \A m \in Nodes : q # r \/ m # n =>
             interrupts'[q][m] = interrupts[q][m] /\ cast'[q][m] = cast[q][m]
    BY <1>1, <1>2, <1>3, <1>6 DEF Stored
  <2>4. state # "open" /\ IsFiniteSet(cast'[r][n])
    BY <1>1, <1>2, <1>6 DEF Position
  <2> HIDE DEF Marks, r, n
  <2>5. /\ Stored' /\ (\A q \in Runs : Position(q)') /\ \A m \in Nodes : interrupts'[r][m].state # "open"
    BY <1>1, <1>2, <1>6, <2>2, <2>3, <2>4, MarkedStill
  <2>6. Found(r, n, runs, interrupts', cast')
    BY <1>1, <1>2, <1>6, <2>5 DEF Found, KindIn, Kind
  <2> USE DEF r, n
  <2> HIDE DEF Marks
  <2>7. (\A q : Opens(p, q) => Open(r, n)) /\ (Advances(p) => Found(r, n, runs, interrupts', cast') /\ Open(r, n))
    BY <1>6, <2>6
  <2> QED BY <1>1, <1>6, <2>1, <2>5, <2>7, TellsGates
<1> QED BY <1>1, <1>5, <1>6

-----------------------------------------------------------------------------
(* Executors                                                               *)

LEMMA AfterHas ==
  ASSUME queue \in Seq(Slots), NEW t \in Slots, Current(t),
         NEW x, x.todo # <<>>, Head(x.todo) = x.todo[1], x.todo[1].op \notin {"body", "sleep", "nap"}
  PROVE  Within(After(x), t)
<1>1. /\ Len(queue) \in Nat \ {0} /\ DOMAIN queue = 1 .. Len(queue) /\ queue[1] = t /\ Head(queue) = t
      /\ Tail(queue) \in Seq(Slots) /\ Len(Tail(queue)) = Len(queue) - 1
  BY Slots1 DEF Current
<1>2. CASE x.todo[1].op = "out"
  <2> DEFINE q == Append(Tail(queue), t)
  <2>1. After(x) = q
    BY <1>1, <1>2 DEF After, Parks
  <2>2. q \in Seq(Slots) /\ DOMAIN q = 1 .. Len(queue) /\ q[Len(queue)] = t
    BY <1>1
  <2> HIDE DEF q
  <2>3. Len(queue) \in DOMAIN q
    BY <1>1, <2>2
  <2> QED BY <2>1, <2>2, <2>3 DEF Within
<1>3. CASE x.todo[1].op # "out"
  <2>1. After(x) = queue
    BY <1>3 DEF After, Parks
  <2>2. 1 \in DOMAIN queue
    BY <1>1
  <2> QED BY <1>1, <2>1, <2>2 DEF Within
<1> QED BY <1>2, <1>3

LEMMA BegunMeek ==
  ASSUME NEW r, NEW event, event # Decision
  PROVE  Meek(<<Set(r, "running"), Ev(r, event, 0), Do("next")>>)
<1>1. Plain(Set(r, "running")) /\ Plain(Ev(r, event, 0)) /\ Plain(Do("next"))
  BY DEF Plain, Set, Ev, Do
<1> DEFINE a == Set(r, "running")
           b == Ev(r, event, 0)
           d == Do("next")
<1>2. Meek(<<a>>) /\ Meek(<<b>>) /\ Meek(<<d>>)
  BY <1>1, MeekOne
<1> HIDE DEF a, b, d
<1>3. Meek(<<b>> \o <<d>>)
  BY <1>2, MeekBoth
<1>4. Meek(<<b, d>>)
  BY <1>3, Two
<1>5. Meek(<<a>> \o <<b, d>>)
  BY <1>2, <1>4, MeekBoth
<1>6. Meek(<<a, b, d>>)
  BY <1>5, Three
<1> QED BY <1>6 DEF a, b, d

(* A claim is won: the run's one executor begins, ahead of its launcher.   *)
LEMMA LaunchGates ==
  ASSUME Inv, Gates, NEW t \in Slots, Launch(t)
  PROVE  Gates'
<1>0. PICK c : c = First(t).run
  OBVIOUS
<1> DEFINE x == th[t]
           event == IF Logged(c, "run.started", 0) THEN "run.resumed" ELSE "run.started"
           p == <<Set(c, "running"), Ev(c, event, 0), Do("next")>>
           begun == [Idle EXCEPT !.kind = "exec", !.run = c, !.at = runs[c].next, !.todo = p]
           y == [x EXCEPT !.todo = Tail(x.todo)]
           z == IF y.todo = <<>> THEN Idle ELSE y
<1>1. /\ At(t, "launch") /\ UNCHANGED <<log, interrupts, cast>>
      /\ IF ~Claimable(c) THEN Then(t, <<>>) /\ UNCHANGED runs
         ELSE /\ FreeSlots # {}
              /\ runs' = [runs EXCEPT ![c].holder = life, ![c].fresh = TRUE]
              /\ th' = [th EXCEPT ![t] = z, ![NewSlot] = begun]
              /\ queue' = <<NewSlot>> \o After(y)
  BY <1>0 DEF Launch, Rest
<1>2. CASE ~Claimable(c)
  <2>1. At(t, "launch") /\ Then(t, <<>>) /\ UNCHANGED <<runs, log, interrupts, cast>>
    BY <1>1, <1>2
  <2> QED BY <2>1, QuietGatesSteps
<1>3. CASE Claimable(c)
  <2>0. PICK s : s = NewSlot
    OBVIOUS
  <2>1. /\ Current(t) /\ x.todo # <<>> /\ Program(x) /\ x.todo[1] = First(t) /\ x.todo[1].op = "launch"
        /\ x.todo[1].run = c /\ 1 \in DOMAIN x.todo /\ DOMAIN x = DOMAIN Idle /\ x.kind # "free"
    BY <1>0, <1>1, FirstFits DEF Program, Inv, Programs, Proper
  <2>2. /\ s \in Slots /\ th[s].kind = "free" /\ s # t /\ th[s].todo = <<>>
        /\ runs' = [runs EXCEPT ![c].holder = life, ![c].fresh = TRUE]
        /\ th' = [th EXCEPT ![t] = z, ![s] = begun]
        /\ queue' = <<s>> \o After(y)
    BY <1>1, <1>3, <2>0, <2>1, FreeSlotTaken DEF FreeSlots, Inv, Programs, Proper
  <2>3. /\ DOMAIN th' = Slots /\ th'[t] = z /\ th'[s] = begun /\ \A u \in Slots \ {t, s} : th'[u] = th[u]
    BY <2>2 DEF Inv, Typed
  <2>4. Placed(x, runs, Deciders)
    BY DEF Gates
  <2>5. c \in Runs /\ runs[c].status # "none"
    <3>1. Ordered(x, x.todo, runs) /\ ~Inserted(x, x.todo, c)
      BY <2>1, <2>4 DEF Placed, Inserted
    <3> QED BY <2>1, <3>1 DEF Ordered
  <2>6. Opens(x.todo, c)
    BY <2>1 DEF Opens
  <2>7. Executors(c) = {} /\ \A u \in Slots : Opens(th[u].todo, c) => u = t
    BY <2>5, <2>6 DEF Gates, OneEach
  <2>8. \A r \in Runs : /\ runs'[r].flow = runs[r].flow /\ runs'[r].next = runs[r].next
                        /\ runs[r].status # "none" => runs'[r].status # "none"
    BY <2>2, RowsTyped DEF RunFields
  <2>9. /\ Stored' /\ (\A r \in Runs : Position(r)')
        /\ Deciders' = Deciders /\ Grown(runs, runs')
    BY <1>1, <2>8, RowsStill
  <2>10. y.todo = Tail(x.todo) /\ Same(x, y)
    BY <2>1, SameRetold
  <2>11. begun.kind = "exec" /\ begun.run = c /\ begun.at = runs[c].next /\ begun.todo = p
    BY DEF Idle
  <2>12. Meek(p)
    <3>1. event # Decision
      BY DEF Decision
    <3> HIDE DEF event
    <3> QED BY <3>1, BegunMeek
  <2> HIDE DEF x, y, z, begun, p
  <2>13. Placed(begun, runs', Deciders')
    <3>1. Ordered(begun, begun.todo, runs')
      BY <2>11, <2>12, MeekInert, InertOrdered DEF Meek
    <3>2. \A i \in DOMAIN p : Sits(begun, p[i], runs', Deciders')
      BY <2>12, PlainSits DEF Meek
    <3>3. Made(runs', begun.run) /\ begun.at = runs'[begun.run].next
      BY <2>5, <2>8, <2>11 DEF Made
    <3> QED BY <2>11, <3>1, <3>2, <3>3 DEF Placed
  <2>14. /\ \A r : ~Opens(begun.todo, r)
         /\ ~Inserts(begun.todo) /\ ~Advances(begun.todo) /\ ~Attends(begun.todo)
    BY <2>11, <2>12, MeekInert, InertOrdered DEF Meek
  <2>15. /\ Placed(y, runs', Deciders') /\ ~Inserts(y.todo)
         /\ \A r : Opens(y.todo, r) => Opens(x.todo, r) /\ r # c
         /\ ~Advances(y.todo) /\ ~Attends(y.todo)
    <3>1. Rests(x, y)
      BY <2>1, <2>10 DEF Rests, Program
    <3>2. x.kind = "exec" => runs'[x.run].next = runs[x.run].next
      BY <2>4, <2>8 DEF Placed, Made
    <3>3. Leaves(x, runs, runs', Deciders, Deciders')
      BY <2>1, <2>9, <3>2 DEF Leaves, Inserted
    <3>4. /\ Placed(y, runs', Deciders') /\ ~Inserts(y.todo)
          /\ \A r : Opens(y.todo, r) => Opens(x.todo, r) /\ ~(x.todo[1].op = "launch" /\ x.todo[1].run = r)
          /\ Advances(y.todo) => Advances(x.todo) /\ x.todo[1].op = "append"
          /\ Attends(y.todo) => Advances(y.todo)
      BY <2>4, <3>1, <3>3, PlacedRest
    <3> QED BY <2>1, <3>4
  <2>16. /\ Placed(z, runs', Deciders') /\ ~Inserts(z.todo) /\ ~Advances(z.todo) /\ ~Attends(z.todo)
         /\ \A r : Opens(z.todo, r) => Opens(th[t].todo, r) /\ r # c
         /\ z.kind = "exec" => th[t].kind = "exec" /\ z.run = th[t].run
    BY <2>10, <2>15, IdlePlaced DEF z, x, Same, Idle
  <2>17. ASSUME NEW u \in Slots \ {t} PROVE ~Inserts(th[u].todo) /\ ~Advances(th[u].todo) /\ ~Attends(th[u].todo)
    <3>1. queue # <<u>> /\ ~Current(u)
      BY <2>1 DEF Current
    <3> QED BY <3>1 DEF Gates, InOrder, Attends
  <2>18. \A u \in Slots : Placed(th'[u], runs', Deciders')
    <3> SUFFICES ASSUME NEW u \in Slots \ {t, s} PROVE Placed(th[u], runs', Deciders')
      BY <2>3, <2>13, <2>16
    <3>1. Placed(th[u], runs, Deciders) /\ Same(th[u], th[u]) /\ ~Inserts(th[u].todo)
      BY <2>17 DEF Gates, Same
    <3>2. th[u].kind = "exec" => runs'[th[u].run].next = runs[th[u].run].next
      BY <2>8, <3>1 DEF Placed, Made
    <3> QED BY <2>9, <3>1, <3>2, PlacedStill
  <2>19. ASSUME NEW u \in Slots, th'[u].kind = "exec", u # s
         PROVE  th[u].kind = "exec" /\ th'[u].run = th[u].run /\ th[u].run # c
    <3>1. th[u].kind = "exec" /\ th'[u].run = th[u].run
      BY <2>3, <2>16, <2>19
    <3> QED BY <2>7, <3>1 DEF Executors
  <2>20. ASSUME NEW u \in Slots, NEW r, Opens(th'[u].todo, r) PROVE Opens(th[u].todo, r) /\ r # c
    <3>1. u # s
      BY <2>3, <2>14, <2>20
    <3> QED BY <2>3, <2>7, <2>16, <2>20, <3>1
  <2>21. OneEach'
    <3>1. ASSUME NEW u \in Slots, NEW v \in Slots, th'[u].kind = "exec", th'[v].kind = "exec", th'[u].run = th'[v].run
          PROVE  u = v
      <4>1. CASE u # s /\ v # s
        BY <2>19, <3>1, <4>1 DEF Gates, OneEach
      <4>2. u = s => th'[u].run = c
        BY <2>3, <2>11
      <4>3. v = s => th'[v].run = c
        BY <2>3, <2>11
      <4> QED BY <2>19, <3>1, <4>1, <4>2, <4>3
    <3>2. ASSUME NEW u \in Slots, NEW r \in Runs, Opens(th'[u].todo, r) PROVE Executors(r)' = {}
      <4>1. Executors(r) = {} /\ r # c
        BY <2>20, <3>2 DEF Gates, OneEach
      <4> SUFFICES ASSUME NEW v \in Slots, th'[v].kind = "exec", th'[v].run = r PROVE FALSE
        BY DEF Executors
      <4>2. v # s
        BY <2>3, <2>11, <4>1
      <4>3. v \in Executors(r)
        BY <2>19, <4>2 DEF Executors
      <4> QED BY <4>1, <4>3
    <3>3. ASSUME NEW u \in Slots, NEW r \in Runs, Opens(th'[u].todo, r), NEW v \in Slots, Opens(th'[v].todo, r)
          PROVE  v = u
      BY <2>20, <3>3 DEF Gates, OneEach
    <3> QED BY <3>1, <3>2, <3>3 DEF OneEach
  <2>22. PICK S : x.todo \in Seq(S)
    BY <2>1 DEF Program
  <2>23. /\ y.todo # <<>> => Head(y.todo) = y.todo[1]
    BY <2>1, <2>10, <2>22, Slots1
  <2>24. /\ queue \in Seq(Slots) /\ After(y) \in Seq(Slots)
         /\ \A u \in Slots \ {t} : Queued(u) => Within(After(y), u)
    <3>1. "launch" \notin Going \cup {"release"} /\ Head(x.todo).op = "launch" /\ \A status : Head(x.todo) # Set(x.run, status)
      <4>1. Head(x.todo) = x.todo[1]
        BY <2>1, <2>22, Slots1
      <4> QED BY <2>1, <4>1 DEF Going, Set
    <3>2. x.kind = "exec" => Tail(x.todo) # <<>>
      BY <2>1, <3>1, RestThere
    <3>3. Program(y)
      BY <2>1, <3>2, RestFits DEF y
    <3>4. queue \in Seq(Slots)
      BY DEF Inv, Typed
    <3> QED BY <2>1, <3>3, <3>4, AfterKeeps
  <2>25. \A u : Within(After(y), u) \/ u = s => Queued(u)'
    <3> DEFINE q == After(y)
    <3>1. q \in Seq(Slots) /\ <<s>> \in Seq(Slots) /\ Len(<<s>>) = 1 /\ <<s>>[1] = s
      BY <2>2, <2>24
    <3> HIDE DEF q
    <3>2. /\ queue' \in Seq(Slots) /\ Len(queue') = 1 + Len(q) /\ queue'[1] = s /\ Len(q) \in Nat
          /\ DOMAIN queue' = 1 .. 1 + Len(q) /\ DOMAIN q = 1 .. Len(q)
          /\ \A i \in 1 .. Len(q) : queue'[1 + i] = q[i]
      BY <2>2, <3>1, Joined, Slots1 DEF q
    <3>3. (\A i \in DOMAIN q : 1 + i \in DOMAIN queue' /\ queue'[1 + i] = q[i]) /\ 1 \in DOMAIN queue'
      BY <3>2
    <3> QED BY <3>2, <3>3 DEF q, Within, Queued
  <2>26. ASSUME NEW u \in Slots, th'[u].todo # <<>>, ~Queued(u)'
         PROVE  th'[u].todo[1].op \in {"body", "sleep", "nap"}
    <3>1. u # s /\ ~Within(After(y), u)
      BY <2>25, <2>26
    <3>2. CASE u # t
      <4>1. th'[u] = th[u] /\ ~Queued(u)
        BY <2>3, <2>24, <3>1, <3>2
      <4> QED BY <2>26, <4>1 DEF Gates, InOrder
    <3>3. CASE u = t
      <4>1. z.todo # <<>> /\ th'[u] = z
        BY <2>3, <2>26, <3>3
      <4>2. z = y
        BY <4>1 DEF z, Idle
      <4> QED BY <2>1, <2>23, <2>24, <3>1, <3>3, <4>1, <4>2, AfterHas
    <3> QED BY <3>2, <3>3
  <2>27. ASSUME NEW u \in Slots PROVE ~Attends(th'[u].todo) /\ ~Advances(th'[u].todo) /\ ~Inserts(th'[u].todo)
    BY <2>3, <2>14, <2>16, <2>17
  <2>28. InOrder'
    BY <2>26, <2>27 DEF InOrder
  <2> QED BY <2>9, <2>18, <2>21, <2>28 DEF Gates
<1> QED BY <1>2, <1>3

-----------------------------------------------------------------------------
(* Timers and requests                                                     *)

LEMMA NobodyQueued ==
  ASSUME Gates, queue = <<>>
  PROVE  \A u \in Slots : ~Queued(u) /\ ~Attends(th[u].todo) /\ ~Advances(th[u].todo) /\ ~Inserts(th[u].todo)
<1>1. \A u \in Slots : queue # <<u>> /\ ~Current(u)
  BY DEF Current
<1>2. \A u : ~Queued(u)
  BY Slots1 DEF Queued, Within
<1> QED BY <1>1, <1>2 DEF Gates, InOrder, Attends

(* The event loop, which was idle, takes up a thread.                      *)
LEMMA TakesGates ==
  ASSUME Inv, Gates, NEW t \in Slots, NEW x, \E S : x.todo \in Seq(S), x.todo # <<>>,
         queue = <<>>, queue' = <<t>>, th' = [th EXCEPT ![t] = x], UNCHANGED <<runs, log, interrupts, cast>>,
         Placed(x, runs, Deciders), x.kind = "exec" => th[t].kind = "exec" /\ x.run = th[t].run,
         \A r \in Runs : Opens(x.todo, r) => Opens(th[t].todo, r) \/ Free(r),
         ~Advances(x.todo)
  PROVE  Gates'
<1>1. DOMAIN th' = Slots /\ th'[t] = x /\ \A u \in Slots \ {t} : th'[u] = th[u]
  BY DEF Inv, Typed
<1>2. /\ Stored' /\ (\A r \in Runs : Position(r)')
      /\ Deciders' = Deciders
  BY RowsStill
<1>3. runs' = runs
  OBVIOUS
<1>4. \A u \in Slots : Placed(th'[u], runs', Deciders')
  BY <1>1, <1>2, <1>3 DEF Gates
<1>5. ASSUME NEW r \in Runs PROVE Executors(r)' \subseteq Executors(r)
  BY <1>1 DEF Executors
<1>6. ASSUME NEW u \in Slots, NEW r \in Runs, Opens(th'[u].todo, r)
      PROVE  Opens(th[u].todo, r) \/ (u = t /\ Free(r))
  BY <1>1, <1>6
<1>7. OneEach'
  <2>1. ASSUME NEW u \in Slots, NEW v \in Slots, th'[u].kind = "exec", th'[v].kind = "exec", th'[u].run = th'[v].run
        PROVE  u = v
    <3>1. \A w \in {u, v} : th[w].kind = "exec" /\ th[w].run = th'[w].run
      BY <1>1, <2>1
    <3> QED BY <2>1, <3>1 DEF Gates, OneEach
  <2>2. ASSUME NEW u \in Slots, NEW r \in Runs, Opens(th'[u].todo, r) PROVE Executors(r)' = {}
    <3>1. Executors(r) = {}
      BY <1>6, <2>2 DEF Gates, OneEach, Free
    <3> QED BY <1>5, <3>1
  <2>3. ASSUME NEW u \in Slots, NEW r \in Runs, Opens(th'[u].todo, r), NEW v \in Slots, Opens(th'[v].todo, r)
        PROVE  v = u
    <3>1. Opens(th[u].todo, r) \/ (u = t /\ Free(r))
      BY <1>6, <2>3
    <3>2. Opens(th[v].todo, r) \/ (v = t /\ Free(r))
      BY <1>6, <2>3
    <3>3. Opens(th[u].todo, r) /\ Opens(th[v].todo, r) => v = u
      BY DEF Gates, OneEach
    <3> QED BY <3>1, <3>2, <3>3 DEF Free
  <2> QED BY <2>1, <2>2, <2>3 DEF OneEach
<1>8. Queued(t)' /\ Current(t)'
  BY DEF Queued, Within, Current
<1>9. \A u \in Slots \ {t} : /\ th'[u].todo # <<>> => th'[u].todo[1].op \in {"body", "sleep", "nap"}
                             /\ ~Attends(th'[u].todo) /\ ~Advances(th'[u].todo) /\ ~Inserts(th'[u].todo)
  BY <1>1, NobodyQueued DEF Gates, InOrder
<1>10. InOrder'
  <2>1. ASSUME NEW u \in Slots
        PROVE  /\ th'[u].todo # <<>> /\ ~Queued(u)' => th'[u].todo[1].op \in {"body", "sleep", "nap"}
               /\ Attends(th'[u].todo) => queue' = <<u>>
               /\ Inserts(th'[u].todo) => Current(u)'
               /\ ~Advances(th'[u].todo)
    BY <1>1, <1>8, <1>9
  <2> QED BY <2>1 DEF InOrder
<1> QED BY <1>2, <1>4, <1>7, <1>10 DEF Gates

(* As it is for an executor, which goes on from where it waited.           *)
LEMMA WakesGates ==
  ASSUME Inv, Gates, NEW t \in Slots, NEW p, Fair(th[t], p), p # <<>>, Takes(t, [th[t] EXCEPT !.todo = p]),
         UNCHANGED <<runs, log, interrupts, cast>>
  PROVE  Gates'
<1>1. PICK x : x = [th[t] EXCEPT !.todo = p]
  OBVIOUS
<1>2. DOMAIN th[t] = DOMAIN Idle /\ Placed(th[t], runs, Deciders)
  BY DEF Inv, Programs, Proper, Program, Gates
<1>3. Same(th[t], x) /\ x.todo = p
  BY <1>1, <1>2, SameRetold
<1>4. queue = <<>> /\ queue' = <<t>> /\ th' = [th EXCEPT ![t] = x]
  BY <1>1 DEF Takes
<1> DEFINE y == th[t]
<1>5. /\ \E S : p \in Seq(S)
      /\ \A i \in DOMAIN p : Apt(y, p[i])
  BY DEF Fair
<1>6. Inert(p)
  BY <1>5 DEF Inert, Apt
<1>7. y.kind = "exec" => Made(runs, y.run) /\ y.at = runs[y.run].next
  BY <1>2 DEF Placed
<1>8. Same(y, x) /\ Grown(runs, runs) /\ Deciders \subseteq Deciders
  BY <1>3 DEF Grown
<1> HIDE DEF y
<1>9. \A s : Sits(y, s, runs, Deciders) /\ s.op # "insert run" => Sits(x, s, runs, Deciders)
  BY <1>7, <1>8, SitsStill
<1>10. \A i \in DOMAIN p : Sits(x, p[i], runs, Deciders)
  BY <1>5, <1>9 DEF Apt
<1>11. /\ Ordered(x, x.todo, runs) /\ \A r : ~Opens(x.todo, r)
       /\ ~Advances(x.todo)
  BY <1>3, <1>5, <1>6, InertOrdered
<1>12. Placed(x, runs, Deciders)
  BY <1>3, <1>7, <1>8, <1>10, <1>11 DEF Placed, Same
<1>13. x.kind = "exec" => th[t].kind = "exec" /\ x.run = th[t].run
  BY <1>3 DEF Same
<1> QED BY <1>3, <1>4, <1>5, <1>11, <1>12, <1>13, TakesGates

LEMMA ElapsesGates ==
  ASSUME Inv, Gates, NEW t \in Slots, Elapses(t)
  PROVE  Gates'
<1>1. UNCHANGED <<runs, log, interrupts, cast>>
  BY DEF Elapses, DelayOver, NapOver, BodyRead, Tables
<1>2. ASSUME NEW op, Parked(t, op)
      PROVE  Program(th[t]) /\ th[t].todo # <<>> /\ 1 \in DOMAIN th[t].todo /\ th[t].todo[1].op = op
             /\ Fits(th[t], 1) /\ Sits(th[t], th[t].todo[1], runs, Deciders)
             /\ Placed(th[t], runs, Deciders)
  BY <1>2, ParkedFits DEF Gates, Placed
<1>3. CASE DelayOver(t)
  <2> DEFINE p == Completed(th[t].run, th[t].at)
  <2>1. Parked(t, "sleep") /\ Takes(t, [th[t] EXCEPT !.todo = p])
    BY <1>3 DEF DelayOver
  <2>2. Passing(th[t], runs)
    BY <1>2, <2>1 DEF Sits
  <2>3. Fair(th[t], p) /\ p # <<>>
    <3>1. p # <<>>
      BY DEF Completed
    <3> QED BY <2>2, <3>1, FairNode
  <2> HIDE DEF p
  <2> QED BY <1>1, <2>1, <2>3, WakesGates
<1>4. CASE NapOver(t)
  <2> DEFINE p == <<Do("poll")>>
  <2>1. Parked(t, "nap") /\ Takes(t, [th[t] EXCEPT !.todo = p])
    BY <1>4 DEF NapOver
  <2>2. Passing(th[t], runs) /\ (KindIn(runs, th[t].run, th[t].at) = "dispatch" => th[t].run \in Deciders)
    BY <1>2, <2>1 DEF Sits
  <2>3. Fair(th[t], p) /\ p # <<>>
    BY <2>2, AptPassing, FairOne
  <2> HIDE DEF p
  <2> QED BY <1>1, <2>1, <2>3, WakesGates
<1>5. CASE BodyRead(t)
  <2> DEFINE y == th[t]
  <2>1. PICK x : x = [y EXCEPT !.todo = Tail(y.todo)]
    OBVIOUS
  <2>2. Parked(t, "body") /\ Takes(t, x)
    BY <1>5, <2>1 DEF BodyRead, Rest
  <2>3. /\ Program(y) /\ y.todo # <<>> /\ y.todo[1].op = "body" /\ Placed(y, runs, Deciders)
        /\ Head(y.todo).op = "body"
    BY <1>2, <2>2, ParkedFits
  <2>4. PICK S : y.todo \in Seq(S)
    BY <2>3 DEF Program
  <2>5. Len(y.todo) = 2 /\ y.todo[2].op \in Answers
    BY <2>3, Started
  <2>6. Same(y, x) /\ x.todo = Tail(y.todo)
    BY <2>1, <2>3, SameRetold DEF Program
  <2> DEFINE q == x.todo
  <2>7. q \in Seq(S) /\ q # <<>> /\ DOMAIN q = {1} /\ q[1] = y.todo[2] /\ 2 \in DOMAIN y.todo
    <3> DEFINE w == y.todo
    <3>0. w \in Seq(S) /\ w # <<>> /\ Len(w) = 2 /\ q = Tail(w)
      BY <2>3, <2>4, <2>5, <2>6
    <3> HIDE DEF w, q
    <3>4. /\ DOMAIN w = 1 .. Len(w) /\ Tail(w) \in Seq(S) /\ DOMAIN Tail(w) = 1 .. Len(w) - 1
          /\ \A i \in 1 .. Len(w) - 1 : Tail(w)[i] = w[i + 1]
      BY <3>0, Slots1
    <3>5. q \in Seq(S) /\ DOMAIN q = 1 .. 1 /\ q[1] = w[1 + 1] /\ DOMAIN w = 1 .. 2
      BY <3>0, <3>4
    <3>1. q \in Seq(S) /\ DOMAIN q = 1 .. 1 /\ q[1] = y.todo[1 + 1] /\ DOMAIN y.todo = 1 .. 2
      BY <3>5 DEF w
    <3>2. q # <<>>
      BY <3>0, Longer
    <3> QED BY <3>1, <3>2
  <2>8. th' = [th EXCEPT ![t] = x] /\ queue = <<>> /\ queue' = <<t>>
    BY <2>2 DEF Takes
  <2>9. y.kind = th[t].kind /\ y.run = th[t].run
    OBVIOUS
  <2> HIDE DEF y, q
  <2>10. Sits(y, y.todo[2], runs, Deciders)
    BY <2>3, <2>7 DEF Placed
  <2>11. Sits(x, q[1], runs, Deciders)
    <3>1. y.kind = "exec" => Made(runs, y.run)
      BY <2>3 DEF Placed
    <3>2. Grown(runs, runs) /\ Deciders \subseteq Deciders
      BY DEF Grown
    <3>3. y.todo[2].op # "insert run"
      BY <2>5 DEF Answers
    <3> QED BY <2>6, <2>7, <2>10, <3>1, <3>2, <3>3, SitsStill
  <2>12. Ordered(x, q, runs) /\ (\A r : ~Opens(q, r)) /\ ~Advances(q)
    BY <2>5, <2>7 DEF Ordered, Opens, Advances, Answers
  <2>13. x.kind = "exec" => Made(runs, x.run) /\ x.at = runs[x.run].next
    BY <2>3, <2>6 DEF Placed, Same
  <2>14. Placed(x, runs, Deciders)
    BY <2>7, <2>11, <2>12, <2>13 DEF Placed, q
  <2>15. x.kind = "exec" => th[t].kind = "exec" /\ x.run = th[t].run
    BY <2>6, <2>9 DEF Same
  <2>16. (\E T : x.todo \in Seq(T)) /\ x.todo # <<>> /\ (\A r : ~Opens(x.todo, r)) /\ ~Advances(x.todo)
    BY <2>7, <2>12 DEF q
  <2> QED BY <1>1, <2>8, <2>14, <2>15, <2>16, TakesGates
<1> QED BY <1>3, <1>4, <1>5 DEF Elapses

LEMMA DeadlineGates ==
  ASSUME Inv, Gates, NEW t \in Slots, Deadline(t)
  PROVE  Gates'
<1>1. PICK x : x = [th[t] EXCEPT !.late = TRUE, !.aborted = TRUE]
  OBVIOUS
<1>2. Takes(t, x) /\ UNCHANGED <<runs, log, interrupts, cast>> /\ th[t].kind = "exec"
  BY <1>1 DEF Deadline, Tables
<1>3. /\ Program(th[t]) /\ DOMAIN th[t] = DOMAIN Idle /\ Placed(th[t], runs, Deciders) /\ th[t].todo # <<>>
  BY <1>2 DEF Inv, Programs, Proper, Program, Gates
<1>4. Same(th[t], x) /\ x.todo = th[t].todo
  BY <1>1, <1>3 DEF Same, Idle
<1>5. queue = <<>> /\ queue' = <<t>> /\ th' = [th EXCEPT ![t] = x]
  BY <1>2 DEF Takes
<1>6. ~Advances(th[t].todo) /\ ~Inserts(th[t].todo)
  BY <1>5, NobodyQueued
<1>7. Grown(runs, runs) /\ Deciders \subseteq Deciders
  BY DEF Grown
<1>8. Placed(x, runs, Deciders)
  BY <1>3, <1>4, <1>6, <1>7, PlacedStill
<1>9. \E S : x.todo \in Seq(S)
  BY <1>3, <1>4 DEF Program
<1>10. x.kind = "exec" => th[t].kind = "exec" /\ x.run = th[t].run
  BY <1>4 DEF Same
<1>11. x.todo # <<>> /\ ~Advances(x.todo) /\ \A r : Opens(x.todo, r) => Opens(th[t].todo, r)
  BY <1>3, <1>4, <1>6
<1> QED BY <1>2, <1>5, <1>8, <1>9, <1>10, <1>11, TakesGates

LEMMA CreateRunGates ==
  ASSUME Inv, Gates, NEW r \in Roots, NEW flow \in RootFlows, NEW withKey \in BOOLEAN, CreateRun(r, flow, withKey)
  PROVE  Gates'
<1> DEFINE a == [op |-> "insert run", flow |-> flow]
           b == Of("key", r)
           c == Of("launch", r)
           key == IF withKey THEN <<b>> ELSE <<>>
           p == <<a>> \o (key \o <<c>>)
<1>1. PICK x : x = Handler(r, <<a>> \o key \o <<c>>)
  OBVIOUS
<1>2. /\ FreeSlots # {} /\ Takes(NewSlot, x) /\ UNCHANGED <<runs, log, interrupts, cast>>
      /\ runs[r].status = "none" /\ r \in Runs
  BY <1>1 DEF CreateRun, Tables, Runs
<1>3. PICK s : s = NewSlot
  OBVIOUS
<1>4. s \in Slots /\ th[s].kind = "free" /\ queue = <<>> /\ queue' = <<s>> /\ th' = [th EXCEPT ![s] = x]
  BY <1>2, <1>3, FreeSlotTaken DEF FreeSlots, Takes
<1>5. /\ a.op = "insert run" /\ a.flow = flow
      /\ b.op = "key" /\ c.op = "launch" /\ c.run = r
  BY DEF Of
<1> HIDE DEF a, b, c
<1>6. <<a>> \o key \o <<c>> = p
  <2> DEFINE S == {a, b, c}
             l == <<a>>
             m == <<c>>
  <2>1. l \in Seq(S) /\ m \in Seq(S)
    OBVIOUS
  <2>2. key \in Seq(S)
    <3>1. <<b>> \in Seq(S) /\ <<>> \in Seq(S)
      OBVIOUS
    <3> HIDE DEF S
    <3> QED BY <3>1
  <2> HIDE DEF key, S, l, m
  <2>3. (l \o key) \o m = l \o (key \o m)
    BY <2>1, <2>2
  <2> QED BY <2>3 DEF l, m
<1>7. /\ \E S : p \in Seq(S)
      /\ Len(p) \in {2, 3} /\ DOMAIN p = 1 .. Len(p) /\ p[1] = a /\ p[Len(p)] = c
      /\ Len(p) = 3 => p[2] = b
  <2> DEFINE q == key \o <<c>>
  <2>1. /\ \E S : q \in Seq(S)
        /\ Len(q) \in {1, 2} /\ q[Len(q)] = c /\ (Len(q) = 2 => q[1] = b)
    <3>1. CASE withKey
      <4>1. q = <<b, c>>
        BY <3>1, Two
      <4>2. <<b, c>> \in Seq({b, c}) /\ Len(<<b, c>>) = 2 /\ <<b, c>>[2] = c /\ <<b, c>>[1] = b
        OBVIOUS
      <4> HIDE DEF q
      <4>3. q \in Seq({b, c}) /\ Len(q) = 2 /\ q[2] = c /\ q[1] = b
        BY <4>1, <4>2
      <4> QED BY <4>3
    <3>2. CASE ~withKey
      <4>1. q = <<c>>
        <5>1. <<c>> \in Seq({c})
          OBVIOUS
        <5> QED BY <3>2, <5>1, Joined
      <4>2. <<c>> \in Seq({c}) /\ Len(<<c>>) = 1 /\ <<c>>[1] = c
        OBVIOUS
      <4> HIDE DEF q
      <4>3. q \in Seq({c}) /\ Len(q) = 1 /\ q[1] = c
        BY <4>1, <4>2
      <4> QED BY <4>3
    <3> QED BY <3>1, <3>2
  <2>2. p = <<a>> \o q
    OBVIOUS
  <2> HIDE DEF p, q
  <2>3. /\ \E S : p \in Seq(S)
        /\ DOMAIN p = 1 .. Len(q) + 1 /\ Len(p) = Len(q) + 1 /\ p[1] = a
        /\ \A i \in 1 .. Len(q) : p[i + 1] = q[i]
    BY <2>1, <2>2, Put
  <2>4. CASE Len(q) = 1
    BY <2>1, <2>3, <2>4
  <2>5. CASE Len(q) = 2
    BY <2>1, <2>3, <2>5
  <2> QED BY <2>1, <2>4, <2>5
<1> HIDE DEF p
<1>8. x.kind = "call" /\ x.run = r /\ x.todo = p
  <2>1. x = Handler(r, p)
    BY <1>1, <1>6
  <2> QED BY <2>1, HandlerFields
<1>9. /\ 1 \in DOMAIN p /\ Len(p) \in DOMAIN p /\ Len(p) # 1
      /\ \A i \in DOMAIN p : i = 1 \/ i = Len(p) \/ (p[i] = b /\ i # Len(p))
  BY <1>7
<1>10. \A i \in DOMAIN p : /\ p[i].op \in {"insert run", "key", "launch"}
                           /\ p[i].op = "insert run" => i = 1 /\ p[i] = a
                           /\ p[i].op = "launch" => i = Len(p) /\ p[i].run = r
  BY <1>5, <1>7, <1>9
<1>11. Ordered(x, p, runs)
  <2>1. Inserted(x, p, r)
    BY <1>5, <1>7, <1>8 DEF Inserted
  <2>2. \A i \in DOMAIN p : p[i].op \notin {"cancel", "cascade", "advance", "insert"} \cup Answers
    BY <1>10 DEF Answers
  <2> QED BY <1>2, <1>10, <2>1, <2>2 DEF Ordered
<1>12. \A i \in DOMAIN p : Sits(x, p[i], runs, Deciders)
  <2>1. flow \in DOMAIN Flow
    BY SqliteAssumption
  <2> QED BY <1>2, <1>5, <1>8, <1>10, <2>1 DEF Sits, Answers
<1>13. Placed(x, runs, Deciders)
  BY <1>8, <1>11, <1>12 DEF Placed
<1>14. Free(r)
  <2>1. ASSUME NEW u \in Slots, NEW i \in DOMAIN th[u].todo PROVE th[u].todo[1].op \notin {"insert", "insert run"}
    <3>1. \E S : th[u].todo \in Seq(S)
      BY DEF Inv, Programs, Proper, Program
    <3>2. 1 \in DOMAIN th[u].todo
      BY <2>1, <3>1, HasFirst
    <3>3. ~Inserts(th[u].todo)
      BY <1>4, NobodyQueued
    <3> QED BY <3>2, <3>3 DEF Inserts
  <2> QED BY <1>2, <2>1, FreshFree
<1>15. /\ \A q : Opens(p, q) => q = r
       /\ ~Advances(p)
  BY <1>10 DEF Opens, Advances
<1>16. p # <<>> /\ \E S : p \in Seq(S)
  BY <1>7, <1>9, Slots1
<1>17. /\ x.todo # <<>> /\ (\E S : x.todo \in Seq(S)) /\ ~Advances(x.todo) /\ x.kind # "exec"
       /\ \A q \in Runs : Opens(x.todo, q) => Opens(th[s].todo, q) \/ Free(q)
  BY <1>8, <1>14, <1>15, <1>16
<1> QED BY <1>2, <1>4, <1>13, <1>17, TakesGates

LEMMA CallCancelGates ==
  ASSUME Inv, Gates, NEW r \in Runs, CallCancel(r)
  PROVE  Gates'
<1>1. PICK p : p = <<Do("cancel")>>
  OBVIOUS
<1>2. PICK x : x = Handler(r, p)
  OBVIOUS
<1>3. FreeSlots # {} /\ Takes(NewSlot, x) /\ UNCHANGED <<runs, log, interrupts, cast>>
  BY <1>1, <1>2 DEF CallCancel, Arrives, Tables
<1>4. PICK s : s = NewSlot
  OBVIOUS
<1>5. s \in Slots /\ th[s].kind = "free" /\ queue = <<>> /\ queue' = <<s>> /\ th' = [th EXCEPT ![s] = x]
  BY <1>3, <1>4, FreeSlotTaken DEF FreeSlots, Takes
<1>6. x.kind = "call" /\ x.todo = p
  BY <1>2, HandlerFields
<1>7. /\ p # <<>> /\ (\E S : p \in Seq(S)) /\ DOMAIN p = {1} /\ p[1].op = "cancel"
  <2>1. <<Do("cancel")>> \in Seq({Do("cancel")}) /\ DOMAIN <<Do("cancel")>> = {1} /\ <<Do("cancel")>>[1].op = "cancel"
    BY DEF Do
  <2>2. <<Do("cancel")>> # <<>>
    OBVIOUS
  <2> QED BY <1>1, <2>1, <2>2
<1>8. Ordered(x, p, runs) /\ (\A q : ~Opens(p, q)) /\ ~Advances(p)
  BY <1>7 DEF Ordered, Opens, Advances, Answers
<1>9. Sits(x, p[1], runs, Deciders)
  BY <1>7 DEF Sits, Answers
<1>10. Placed(x, runs, Deciders)
  BY <1>6, <1>7, <1>8, <1>9 DEF Placed
<1>11. /\ x.todo # <<>> /\ (\E S : x.todo \in Seq(S)) /\ ~Advances(x.todo) /\ x.kind # "exec"
       /\ \A q : ~Opens(x.todo, q)
  BY <1>6, <1>7, <1>8
<1> QED BY <1>3, <1>5, <1>10, <1>11, TakesGates

(* An answer arrives for what is open, which is the run's next node; until *)
(* its body is read nothing keeps that so.                                 *)
LEMMA CallResolveGates ==
  ASSUME Inv, Gates, NEW r \in Runs, NEW n \in Nodes, CallResolve(r, n)
  PROVE  Gates'
<1> DEFINE op == IF Kind(r, n) = "approval" THEN "tally" ELSE "answer"
           answer(ballot) == [Handler(r, <<Do("body"), Do(op)>>) EXCEPT !.row = runs[r].next, !.node = n, !.ballot = ballot]
<1>1. /\ FreeSlots # {} /\ queue = <<>> /\ UNCHANGED <<runs, log, interrupts, cast, queue>>
      /\ \E ballot : th' = [th EXCEPT ![NewSlot] = answer(ballot)]
      /\ n \in 1 .. Length(r) /\ Open(r, n)
  BY DEF CallResolve, Tables
<1>2. PICK ballot : th' = [th EXCEPT ![NewSlot] = answer(ballot)]
  BY <1>1
<1>3. PICK s : s = NewSlot
  OBVIOUS
<1>4. s \in Slots
  BY <1>1, <1>3, FreeSlotTaken DEF FreeSlots
<1>5. PICK p : p = <<Do("body"), Do(op)>>
  OBVIOUS
<1>6. PICK x : x = answer(ballot)
  OBVIOUS
<1>7. x.kind = "call" /\ x.run = r /\ x.todo = p /\ x.row = runs[r].next /\ x.node = n
  BY <1>5, <1>6 DEF Handler, Idle
<1>8. /\ p # <<>> /\ (\E S : p \in Seq(S)) /\ DOMAIN p = {1, 2} /\ p[1].op = "body" /\ p[2].op = op
  <2> DEFINE a == Do("body")
             b == Do(op)
  <2>1. a.op = "body" /\ b.op = op
    BY DEF Do
  <2> HIDE DEF a, b
  <2>2. <<a, b>> \in Seq({a, b}) /\ DOMAIN <<a, b>> = {1, 2} /\ <<a, b>>[1] = a /\ <<a, b>>[2] = b /\ <<a, b>> # <<>>
    OBVIOUS
  <2>3. p = <<a, b>>
    BY <1>5 DEF a, b
  <2> QED BY <2>1, <2>2, <2>3
<1>9. DOMAIN th' = Slots /\ th'[s] = x /\ \A u \in Slots \ {s} : th'[u] = th[u]
  BY <1>2, <1>3, <1>4, <1>6 DEF Inv, Typed
<1>10. Position(r)
  BY DEF Gates
<1>11. /\ n = runs[r].next /\ Kind(r, n) \in Asking /\ runs[r].status # "none"
  BY <1>1, <1>10 DEF Position
<1>12. Answering(x, runs) /\ KindIn(runs, x.run, x.node) = Kind(r, n)
  BY <1>1, <1>7, <1>11 DEF Answering, Made, On, KindIn, Kind, Length
<1>13. op \in Answers /\ (op = "tally" => Kind(r, n) = "approval")
  BY DEF Answers
<1> HIDE DEF op
<1>14. \A i \in DOMAIN p : Sits(x, p[i], runs, Deciders)
  <2>1. Sits(x, p[1], runs, Deciders)
    BY <1>8, <1>12 DEF Sits, Answers
  <2>2. Sits(x, p[2], runs, Deciders)
    BY <1>8, <1>12, <1>13 DEF Sits, Answers
  <2> QED BY <1>8, <2>1, <2>2
<1>15. /\ Ordered(x, p, runs) /\ (\A q : ~Opens(p, q))
       /\ ~Advances(p) /\ ~Inserts(p) /\ ~Attends(p)
  BY <1>8, <1>13 DEF Ordered, Opens, Advances, Inserts, Attends, Answers
<1>16. Placed(x, runs, Deciders)
  BY <1>7, <1>14, <1>15 DEF Placed
<1>17. /\ Stored' /\ (\A q \in Runs : Position(q)')
       /\ Deciders' = Deciders
  BY <1>1, RowsStill
<1>18. \A u \in Slots : Placed(th'[u], runs', Deciders')
  <2>1. runs' = runs
    BY <1>1
  <2> QED BY <1>9, <1>16, <1>17, <2>1 DEF Gates
<1>19. ASSUME NEW u \in Slots, th'[u].kind = "exec" PROVE th[u] = th'[u] /\ u # s
  BY <1>7, <1>9, <1>19
<1>20. ASSUME NEW u \in Slots, NEW q, Opens(th'[u].todo, q) PROVE th[u] = th'[u] /\ u # s
  BY <1>7, <1>9, <1>15, <1>20
<1>21. OneEach'
  <2>1. ASSUME NEW u \in Slots, NEW v \in Slots, th'[u].kind = "exec", th'[v].kind = "exec", th'[u].run = th'[v].run
        PROVE  u = v
    BY <1>19, <2>1 DEF Gates, OneEach
  <2>2. ASSUME NEW u \in Slots, NEW q \in Runs, Opens(th'[u].todo, q) PROVE Executors(q)' = {}
    <3>1. Executors(q) = {}
      BY <1>20, <2>2 DEF Gates, OneEach
    <3> QED BY <1>19, <3>1 DEF Executors
  <2>3. ASSUME NEW u \in Slots, NEW q \in Runs, Opens(th'[u].todo, q), NEW v \in Slots, Opens(th'[v].todo, q)
        PROVE  v = u
    BY <1>20, <2>3 DEF Gates, OneEach
  <2> QED BY <2>1, <2>2, <2>3 DEF OneEach
<1>22. InOrder'
  <2>1. ASSUME NEW u \in Slots
        PROVE  /\ th'[u].todo # <<>> => th'[u].todo[1].op \in {"body", "sleep", "nap"}
               /\ ~Attends(th'[u].todo) /\ ~Advances(th'[u].todo) /\ ~Inserts(th'[u].todo)
    <3>1. CASE u = s
      BY <1>7, <1>8, <1>9, <1>15, <3>1
    <3>2. CASE u # s
      BY <1>1, <1>9, <3>2, NobodyQueued DEF Gates, InOrder
    <3> QED BY <3>1, <3>2
  <2> QED BY <2>1 DEF InOrder
<1> QED BY <1>17, <1>18, <1>21, <1>22 DEF Gates

-----------------------------------------------------------------------------
(* Processes                                                               *)

LEMMA LapseGates ==
  ASSUME Inv, Gates, NEW q \in Runs, Lapse(q)
  PROVE  Gates'
<1>1. runs' = [runs EXCEPT ![q].fresh = FALSE] /\ UNCHANGED <<log, interrupts, cast, queue, th>>
  BY DEF Lapse
<1>2. \A r \in Runs : /\ runs'[r].flow = runs[r].flow /\ runs'[r].next = runs[r].next
                      /\ runs'[r].status = runs[r].status
  BY <1>1, RowsTyped DEF RunFields
<1>3. /\ Stored' /\ (\A r \in Runs : Position(r)')
      /\ Deciders' = Deciders /\ Grown(runs, runs')
  BY <1>1, <1>2, RowsStill
<1>4. ASSUME NEW u \in Slots PROVE Placed(th[u], runs', Deciders')
  <2> DEFINE x == th[u]
             p == x.todo
  <2>1. Placed(x, runs, Deciders)
    BY DEF Gates
  <2>2. Same(x, x)
    BY DEF Same
  <2> HIDE DEF x, p
  <2>3. x.kind = "exec" => Made(runs, x.run)
    BY <2>1 DEF Placed
  <2>4. \A s : Sits(x, s, runs, Deciders) /\ s.op # "insert run" => Sits(x, s, runs', Deciders')
    BY <1>3, <2>2, <2>3, SitsStill
  <2>5. \A s : Sits(x, s, runs, Deciders) /\ s.op = "insert run" => Sits(x, s, runs', Deciders')
    BY <1>2 DEF Sits, Answers
  <2>6. \A i \in DOMAIN p : Sits(x, p[i], runs', Deciders')
    BY <2>1, <2>4, <2>5 DEF Placed, p
  <2>7. Ordered(x, p, runs')
    <3>1. Ordered(x, p, runs)
      BY <2>1 DEF Placed, p
    <3> QED BY <1>2, <3>1 DEF Ordered
  <2>8. x.kind = "exec" => Made(runs', x.run) /\ x.at = runs'[x.run].next
    BY <1>2, <2>1 DEF Placed, Made
  <2>9. Placed(x, runs', Deciders')
    BY <2>6, <2>7, <2>8 DEF Placed, p
  <2> QED BY <2>9 DEF x
<1>5. \A r : Executors(r)' = Executors(r)
  BY <1>1 DEF Executors
<1>6. OneEach'
  BY <1>1, <1>5 DEF Gates, OneEach
<1>7. InOrder'
  <2>1. ASSUME NEW t \in Slots, Advances(th[t].todo) PROVE Ahead(th[t].run, th[t].node)'
    <3>1. PICK r, n : r = th[t].run /\ n = th[t].node
      OBVIOUS
    <3>2. Ahead(r, n)
      BY <2>1, <3>1 DEF Gates, InOrder
    <3>3. r \in Runs
      <4>1. PICK i \in DOMAIN th[t].todo : th[t].todo[i].op = "advance"
        BY <2>1 DEF Advances
      <4>2. Sits(th[t], th[t].todo[i], runs, Deciders)
        BY DEF Gates, Placed
      <4> QED BY <3>1, <4>1, <4>2 DEF Sits, Answering, Made
    <3>4. Ahead(r, n)'
      BY <1>1, <1>2, <1>5, <3>2, <3>3 DEF Ahead, Found, KindIn
    <3>5. th' = th
      BY <1>1
    <3> QED BY <3>1, <3>4, <3>5 DEF Ahead, Found, Executors
  <2> QED BY <1>1, <2>1 DEF Gates, InOrder, Queued, Current
<1> QED BY <1>1, <1>3, <1>4, <1>6, <1>7 DEF Gates

(* Without threads nobody is anywhere.                                     *)
Dead == Stored /\ (\A r \in Runs : Position(r)) /\ \A t \in Slots : th[t] = Idle

LEMMA DeadGates == Dead => Gates
<1> SUFFICES ASSUME Dead PROVE Gates
  OBVIOUS
<1>0. (\A t \in Slots : th[t] = Idle) /\ Stored /\ \A r \in Runs : Position(r)
  BY DEF Dead
<1>1. \A t \in Slots : Placed(th[t], runs, Deciders)
  BY <1>0, IdlePlaced
<1>2. \A t \in Slots : th[t].kind = "free" /\ th[t].todo = <<>>
  BY <1>0 DEF Idle
<1>3. OneEach
  BY <1>0, <1>2, IdlePlaced DEF OneEach
<1>4. InOrder
  BY <1>0, <1>2, IdlePlaced DEF InOrder
<1> QED BY <1>0, <1>1, <1>3, <1>4 DEF Gates

LEMMA DeathGates ==
  ASSUME Inv, Gates, Crash \/ Shutdown
  PROVE  Gates'
<1>1. th' = [t \in Slots |-> Idle] /\ UNCHANGED <<log, interrupts, cast>>
  BY DEF Crash, Shutdown, Dies
<1>2. \A r \in Runs : /\ runs'[r].flow = runs[r].flow /\ runs'[r].next = runs[r].next
                      /\ runs'[r].status = runs[r].status
  <2>1. CASE runs' = runs
    BY <2>1
  <2>2. CASE runs' = [r \in Runs |-> IF runs[r].holder = life THEN [runs[r] EXCEPT !.holder = 0, !.fresh = FALSE] ELSE runs[r]]
    BY <2>2, RowsTyped DEF RunFields
  <2> QED BY <2>1, <2>2 DEF Crash, Shutdown
<1>3. Stored' /\ (\A r \in Runs : Position(r)')
  BY <1>1, <1>2, RowsStill
<1>4. Dead'
  BY <1>1, <1>3 DEF Dead
<1> QED BY <1>4, DeadGates, PTL

(* The next process begins with what it is to launch.                      *)
LEMMA BootGates ==
  ASSUME Inv, Gates, Boot
  PROVE  Gates'
<1> DEFINE S == {r \in Runs : Orphan(r)}
           orphans == SetToSeq(S)
           p == [i \in DOMAIN orphans |-> Of("launch", orphans[i])]
<1>1. PICK x : x = Handler("none", p)
  OBVIOUS
<1>2. /\ ~up /\ UNCHANGED <<runs, log, interrupts, cast>>
      /\ IF orphans = <<>> THEN UNCHANGED <<th, queue>> ELSE th' = [th EXCEPT ![1] = x] /\ queue' = <<1>>
  BY <1>1 DEF Boot, Tables
<1>3. queue = <<>> /\ (\A t \in Slots : th[t] = Idle) /\ 1 \in Slots
  BY <1>2, FiniteRuns DEF Inv, Typed, Slots
<1>4. CASE orphans = <<>>
  <2>1. Stored' /\ (\A r \in Runs : Position(r)')
    BY <1>2, RowsStill
  <2>2. Dead'
    BY <1>2, <1>3, <1>4, <2>1 DEF Dead
  <2> QED BY <2>2, DeadGates, PTL
<1>5. CASE orphans # <<>>
  <2>1. IsFiniteSet(S)
    BY FiniteRuns, FS_Subset
  <2>2. S \subseteq Runs /\ \A r \in S : runs[r].status # "none"
    BY DEF Orphan
  <2> HIDE DEF S
  <2>3. /\ orphans \in Seq(S) /\ \A i, j \in DOMAIN orphans : orphans[i] = orphans[j] => i = j
    BY <2>1, Listed
  <2> HIDE DEF orphans
  <2>4. Len(orphans) \in Nat /\ DOMAIN orphans = 1 .. Len(orphans) /\ 1 \in DOMAIN orphans
        /\ \A i \in DOMAIN orphans : orphans[i] \in S
    BY <1>5, <2>3, Slots1
  <2>5. \E T : p \in Seq(T)
    <3> DEFINE T == {Of("launch", r) : r \in S}
    <3>1. p \in [1 .. Len(orphans) -> T]
      BY <2>4
    <3> HIDE DEF p, T
    <3>2. p \in Seq(T)
      BY <2>4, <3>1
    <3> QED BY <3>2
  <2>6. DOMAIN p = DOMAIN orphans /\ \A i \in DOMAIN p : p[i].op = "launch" /\ p[i].run = orphans[i]
    BY DEF Of
  <2> HIDE DEF p
  <2>7. x.kind = "call" /\ x.todo = p
    BY <1>1, HandlerFields
  <2>8. Ordered(x, p, runs) /\ ~Advances(p)
    BY <2>2, <2>3, <2>4, <2>6 DEF Ordered, Advances, Answers
  <2>9. \A i \in DOMAIN p : Sits(x, p[i], runs, Deciders)
    BY <2>6 DEF Sits, Answers
  <2>10. Placed(x, runs, Deciders)
    BY <2>7, <2>8, <2>9 DEF Placed
  <2>11. \A r : Free(r)
    <3>1. \A u \in Slots : th[u].kind = "free"
      BY <1>3 DEF Idle
    <3> QED BY <1>3, <3>1, IdlePlaced DEF Free, Executors
  <2>12. x.todo # <<>> /\ (\E T : x.todo \in Seq(T)) /\ ~Advances(x.todo)
    <3>1. p # <<>>
      BY <2>4, <2>5, <2>6, Slots1
    <3> QED BY <2>5, <2>7, <2>8, <3>1
  <2> QED BY <1>2, <1>3, <1>5, <2>7, <2>10, <2>11, <2>12, TakesGates
<1> QED BY <1>4, <1>5

-----------------------------------------------------------------------------
(* The theorem                                                             *)

LEMMA InitGates == Init => Gates
<1> SUFFICES ASSUME Init PROVE Gates
  OBVIOUS
<1>1. /\ DOMAIN log = Runs /\ DOMAIN interrupts = Runs /\ DOMAIN cast = Runs
      /\ \A t \in Slots : th[t] = Idle
      /\ \A r \in Runs : /\ runs[r].status = "none" /\ runs[r].next = 1 /\ runs[r].flow = ChildFlow
                         /\ log[r] = EmptyBag
                         /\ DOMAIN interrupts[r] = Nodes /\ DOMAIN cast[r] = Nodes
                         /\ \A n \in Nodes : interrupts[r][n] = NoRow /\ cast[r][n] = {}
  BY DEF Init
<1>2. Stored
  BY <1>1 DEF Stored, NoRow
<1>3. ASSUME NEW r \in Runs PROVE Position(r)
  <2>1. ChildFlow \in DOMAIN Flow /\ Flow[ChildFlow] \in Seq(STRING)
    BY SqliteAssumption
  <2>2. Length(r) \in Nat
    BY <1>1, <2>1 DEF Length
  <2>3. ~Decided(r)
    <3>1. log[r] = EmptyBag /\ DOMAIN EmptyBag = {}
      BY <1>1 DEF EmptyBag, SetToBag
    <3> QED BY <3>1 DEF Decided, Logged, In, BagIn, BagToSet
  <2>4. \A n \in Nodes : ~Open(r, n)
    BY <1>1 DEF Open, NoRow
  <2>5. \A n \in 1 .. Length(r) : ~(n < runs[r].next)
    BY <1>1, <2>2
  <2>6. \A n \in Nodes : IsFiniteSet(cast[r][n])
    BY <1>1, FS_EmptySet
  <2> QED BY <1>1, <2>1, <2>3, <2>4, <2>5, <2>6 DEF Position
<1> QED BY <1>1, <1>2, <1>3, DeadGates DEF Dead

LEMMA NextGates == Inv /\ Gates /\ [Next]_vars => Gates'
<1> SUFFICES ASSUME Inv, Gates, [Next]_vars PROVE Gates'
  OBVIOUS
<1>1. CASE Turn
  BY <1>1, AppendEventGates, QuietGatesSteps, LaunchGates, NextNodeGates, OutcomeGates, AbortedGates,
     CreateInterruptGates, FindChildGates, PollSubGates, DispatchNodeGates, PollWorkerGates, CancelGates,
     InvalidateInterruptsGates, AbortGates, ResolveApprovalGates, ResolveAnswerGates, AdvanceGates,
     InsertRunGates DEF Turn
<1>2. CASE \E t \in Slots : Elapses(t) \/ Deadline(t)
  BY <1>2, ElapsesGates, DeadlineGates
<1>3. CASE \E r \in Roots, flow \in RootFlows, withKey \in BOOLEAN : CreateRun(r, flow, withKey)
  BY <1>3, CreateRunGates
<1>4. CASE \E r \in Runs : CallCancel(r) \/ Lapse(r) \/ \E n \in Nodes : CallResolve(r, n)
  BY <1>4, CallCancelGates, LapseGates, CallResolveGates
<1>5. CASE Crash \/ Shutdown
  BY <1>5, DeathGates
<1>6. CASE Boot
  BY <1>6, BootGates
<1>7. CASE UNCHANGED vars
  <2>1. runs' = runs /\ log' = log /\ interrupts' = interrupts /\ cast' = cast /\ queue' = queue /\ th' = th
    BY <1>7 DEF vars
  <2>2. Stored' /\ (\A r \in Runs : Position(r)') /\ Deciders' = Deciders
    BY <2>1, RowsStill
  <2>3. \A t \in Slots : Placed(th'[t], runs', Deciders')
    BY <2>1, <2>2 DEF Gates
  <2>4. OneEach'
    BY <2>1 DEF Gates, OneEach, Executors
  <2>5. InOrder'
    BY <2>1 DEF Gates, InOrder, Queued, Current, Ahead, Found, Executors
  <2> QED BY <2>2, <2>3, <2>4, <2>5 DEF Gates
<1> QED BY <1>1, <1>2, <1>3, <1>4, <1>5, <1>6, <1>7 DEF Next

(* A run's executor is where its row says, and that is past no gate that   *)
(* was not granted.                                                        *)
LEMMA GatesHonour == Gates => GateHonoured
<1> SUFFICES ASSUME Gates, NEW r \in Runs, NEW n \in 1 .. Length(r), Kind(r, n) = "approval",
                    runs[r].next > n \/ \E t \in Executors(r) : th[t].at > n
             PROVE  Cardinality(cast[r][n]) >= Required
  BY DEF GateHonoured
<1>1. Position(r)
  BY DEF Gates
<1>2. \A t \in Executors(r) : th[t].at = runs[r].next
  BY DEF Gates, Placed, Executors
<1>3. n < runs[r].next
  <2>1. runs[r].next > n
    BY <1>2
  <2>2. n \in Nat /\ runs[r].next \in Nat
    BY <1>1 DEF Position
  <2> QED BY <2>1, <2>2
<1> QED BY <1>1, <1>3 DEF Position, Honoured

(* In the SQLite host neither a run's row nor its executor is past an      *)
(* approval gate but by the votes of as many different approvers as it     *)
(* asks for, each of whom voted last to accept, since the gate last asked: *)
(* however requests, cancellations, deadlines, crashes and resumed orphans *)
(* interleave (resolveApproval, handleResolveInterrupt).                   *)
THEOREM GatesAreHonoured == Spec => []GateHonoured
<1>1. Inv /\ Gates /\ [Next]_vars => (Inv /\ Gates)'
  BY NextInv, NextGates
<1> QED BY <1>1, InitInv, InitGates, GatesHonour, PTL DEF Spec
=============================================================================
