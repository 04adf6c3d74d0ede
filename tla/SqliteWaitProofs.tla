--------------------------- MODULE SqliteWaitProofs ---------------------------
(***************************************************************************)
(* A run of the SQLite host that waits at a gate can be answered: for any  *)
(* runs, workflows and bounds, whatever is answered, sent back, cancelled  *)
(* or shut down, until a crash or a deadline comes.                        *)
(*                                                                         *)
(* The argument, on the invariants of SqliteProofs: an executor suspends   *)
(* its run only behind the statement that opens the interrupt; an open     *)
(* interrupt is invalidated only in a program that then ends the run, with *)
(* nothing else run in between, and not of a run whose executor is about   *)
(* to suspend it; and an answer is recorded only by a program that then    *)
(* moves the run on or ends it.  So a run that waits without an interrupt  *)
(* to answer has a thread that makes it stop waiting, and such a thread is *)
(* in the queue.  A parent mirrors the status of its child while it polls, *)
(* and waits at no gate then.                                              *)
(***************************************************************************)
EXTENDS SqliteProofs

(* A thread that will make run r go on, or end it.                         *)
Mends(x, r) == \E i \in DOMAIN x.todo :
  \/ x.todo[i].op = "set" /\ x.todo[i].run = r /\ x.todo[i].status \notin Waiting
  \/ x.todo[i].op = "advance" /\ x.run = r

(* What the i-th statement of a program says of a wait: an executor that   *)
(* suspends its run has opened the interrupt, and finds no run waiting but *)
(* that of a child's parent, whose status it mirrors.                      *)
Bides(x, i, table, rows) ==
  LET s == x.todo[i] IN
  /\ s.op = "set" /\ s.status \in Waiting =>
       /\ x.kind = "exec" /\ s.run = x.run
       /\ On(table, x.run, x.at) /\ KindIn(table, x.run, x.at) = "sub"
       /\ \A j \in DOMAIN x.todo : x.todo[j].op \in Going => x.todo[j].op = "nap"
  /\ s.op = "invalidate" =>
       /\ \E j \in DOMAIN x.todo : j > i /\ x.todo[j] = Set(s.run, "cancelled")
       /\ \A j \in 1 .. i - 1 : Stops(x.todo[j])
  /\ s.op = "out" /\ s.outcome = "suspended" =>
       /\ On(table, x.run, x.at) /\ KindIn(table, x.run, x.at) \in Asking
       /\ \A j \in DOMAIN x.todo : x.todo[j].op \notin {"set", "cascade", "invalidate"}
       /\ rows[x.run][x.at].state = "open" \/ \E j \in DOMAIN x.todo : x.todo[j].op = "mint"
  /\ s.op \in Going /\ x.kind = "exec" /\ table[x.run].status \in Waiting =>
       \/ \E j \in DOMAIN x.todo : x.todo[j] = Set(x.run, "running")
       \/ /\ KindIn(table, x.run, x.at) = "sub"
          /\ s.op \in {"poll", "nap"} \/ (s.op = "out" /\ s.outcome \in {"failed", "cancelled"})

Bided(x, table, rows) == \A i \in DOMAIN x.todo : Bides(x, i, table, rows)

(* A run that waits at a node that asks can be answered, or a thread is at *)
(* it, while no process crashed and no deadline fired.                     *)
Asked(r) ==
  runs[r].status \in Waiting =>
    /\ On(runs, r, runs[r].next)
    /\ faults = 0 /\ Kind(r, runs[r].next) \in Asking =>
         \/ interrupts[r][runs[r].next].state \in {"open", "expired"}
         \/ \E t \in Slots : Mends(th[t], r)

(* Interrupts are invalidated at once, and none of a run that suspends.    *)
Suspending(x) == \E i \in DOMAIN x.todo : x.todo[i].op = "out" /\ x.todo[i].outcome = "suspended"
Withdraws(x) == \E i \in DOMAIN x.todo : x.todo[i].op = "invalidate"
WithdrawsOf(x, r) == \E i \in DOMAIN x.todo : x.todo[i].op = "invalidate" /\ x.todo[i].run = r

Waits ==
  /\ \A t \in Slots : Bided(th[t], runs, interrupts)
  /\ \A t \in Slots : Withdraws(th[t]) => Current(t)
  /\ \A t \in Slots : \A r \in Runs : WithdrawsOf(th[t], r) => \A u \in Executors(r) : ~Suspending(th[u])
  /\ \A r \in Runs : Asked(r)

-----------------------------------------------------------------------------
(* One step                                                                *)

(* Who is about to change a run's status, or to leave a node, is queued.   *)
LEMMA Behind ==
  ASSUME Inv, Gates, NEW u \in Slots,
         NEW i \in DOMAIN th[u].todo, th[u].todo[i].op \in {"out", "invalidate", "set", "advance"}
  PROVE  Queued(u)
<1> DEFINE x == th[u]
<1>1. Program(x) /\ (x.todo # <<>> /\ ~Queued(u) => x.todo[1].op \in {"body", "sleep", "nap"})
  BY DEF Inv, Programs, Proper, Gates, InOrder
<1>2. x.todo # <<>> /\ DOMAIN x.todo = 1 .. Len(x.todo) /\ Len(x.todo) \in Nat \ {0} /\ 1 \in DOMAIN x.todo
  BY <1>1, Slots1 DEF Program
<1> HIDE DEF x
<1>3. Fits(x, 1)
  BY <1>1, <1>2 DEF Program
<1>4. i \in 1 .. Len(x.todo) /\ x.todo[i].op \in {"out", "invalidate", "set", "advance"}
  BY <1>2 DEF x
<1>5. CASE x.todo[1].op \in {"sleep", "nap"}
  <2>1. Len(x.todo) = 1
    BY <1>3, <1>5 DEF Fits, Going
  <2> QED BY <1>4, <1>5, <2>1
<1>6. CASE x.todo[1].op = "body"
  <2>1. Len(x.todo) = 2 /\ x.todo[2].op \in Answers
    BY <1>3, <1>6 DEF Fits
  <2>2. i = 1 \/ i = 2
    BY <1>2, <1>4, <2>1
  <2> QED BY <1>4, <1>6, <2>1, <2>2 DEF Answers
<1> QED BY <1>1, <1>2, <1>5, <1>6

LEMMA AskedStill ==
  ASSUME NEW r \in Runs, Asked(r), faults' = faults,
         runs'[r].status \in Waiting =>
           runs[r].status \in Waiting /\ runs'[r].flow = runs[r].flow /\ runs'[r].next = runs[r].next,
         \A n : interrupts[r][n].state \in {"open", "expired"} => interrupts'[r][n].state \in {"open", "expired"},
         \A t \in Slots : Mends(th[t], r) => \E u \in Slots : Mends(th'[u], r)
  PROVE  Asked(r)'
BY DEF Asked, On, Kind

(* A thread that is where it was, with the same program.                   *)
LEMMA BidedStill ==
  ASSUME NEW x, NEW y, Same(x, y), y.todo = x.todo, NEW table, NEW old, Grown(old, table),
         x.kind = "exec" => Made(old, x.run),
         \A i \in DOMAIN x.todo : x.todo[i].op = "out" => x.kind = "exec",
         x.kind = "exec" /\ table[x.run].status \in Waiting => old[x.run].status \in Waiting,
         NEW rows, NEW before, Bided(x, old, before),
         Suspending(x) /\ before[x.run][x.at].state = "open" => rows[x.run][x.at].state = "open"
  PROVE  Bided(y, table, rows)
<1> SUFFICES ASSUME NEW i \in DOMAIN y.todo PROVE Bides(y, i, table, rows)
  BY DEF Bided
<1>1. /\ y.kind = x.kind /\ y.run = x.run /\ y.at = x.at
      /\ i \in DOMAIN x.todo /\ Bides(x, i, old, before)
  BY DEF Same, Bided
<1>2. x.kind = "exec" => \A n : KindIn(table, x.run, n) = KindIn(old, x.run, n) /\ (On(table, x.run, n) <=> On(old, x.run, n))
  BY GrownSame
<1>3. x.todo[i].op = "out" /\ x.todo[i].outcome = "suspended" => Suspending(x) /\ x.kind = "exec"
  BY <1>1 DEF Suspending
<1> QED BY <1>1, <1>2, <1>3 DEF Bides

(* The first thread of the queue takes a step; another may begin.          *)
Novel(y) ==
  /\ Bided(y, runs', interrupts')
  /\ ~Withdraws(y) /\ ~Suspending(y)

LEMMA TurnWaits ==
  ASSUME Inv, Gates, Waits, NEW t \in Slots, Current(t),
         NEW x, DOMAIN th' = Slots, th'[t] = (IF x.todo = <<>> THEN Idle ELSE x),
         \A u \in Slots \ {t} : (Same(th[u], th'[u]) /\ th'[u].todo = th[u].todo) \/ Novel(th'[u]),
         Withdraws(x) => Current(t)',
         Grown(runs, runs'),
         \A u \in Slots \ {t} : th[u].kind = "exec" =>
           (runs'[th[u].run].status \in Waiting => runs[th[u].run].status \in Waiting),
         \A u \in Slots \ {t} : Suspending(th[u]) /\ interrupts[th[u].run][th[u].at].state = "open" =>
           interrupts'[th[u].run][th[u].at].state = "open",
         Bided(x, runs', interrupts'),
         \A r \in Runs : WithdrawsOf(x, r) => WithdrawsOf(th[t], r) \/ runs[r].status \in Waiting,
         Suspending(x) => ~Withdraws(x),
         \A r \in Runs : Asked(r)'
  PROVE  Waits'
<1> DEFINE z == IF x.todo = <<>> THEN Idle ELSE x
<1>1. /\ Bided(z, runs', interrupts') /\ (Withdraws(z) => Withdraws(x)) /\ (Suspending(z) => Suspending(x))
      /\ \A r \in Runs : WithdrawsOf(z, r) => WithdrawsOf(x, r)
  BY IdleProper DEF Bided, Withdraws, Suspending, WithdrawsOf
<1>2. th'[t] = z
  OBVIOUS
<1> HIDE DEF z
<1>3. ASSUME NEW u \in Slots \ {t}
      PROVE  Bided(th'[u], runs', interrupts') /\ ~Withdraws(th'[u]) /\ (Suspending(th'[u]) => Suspending(th[u]) /\ Same(th[u], th'[u]))
  <2>1. CASE Novel(th'[u])
    BY <2>1 DEF Novel
  <2>2. CASE Same(th[u], th'[u]) /\ th'[u].todo = th[u].todo
    <3>1. ~Withdraws(th[u])
      BY DEF Waits, Current
    <3>2. /\ \A i \in DOMAIN th[u].todo : th[u].todo[i].op = "out" => th[u].kind = "exec"
          /\ th[u].kind = "exec" => Made(runs, th[u].run)
      BY DEF Inv, Programs, Proper, Program, Fits, Going, Gates, Placed
    <3>3. Bided(th[u], runs, interrupts)
      BY DEF Waits
    <3>4. /\ th[u].kind = "exec" /\ runs'[th[u].run].status \in Waiting => runs[th[u].run].status \in Waiting
          /\ Suspending(th[u]) /\ interrupts[th[u].run][th[u].at].state = "open" =>
               interrupts'[th[u].run][th[u].at].state = "open"
      OBVIOUS
    <3>5. Bided(th'[u], runs', interrupts')
      BY <2>2, <3>2, <3>3, <3>4, BidedStill
    <3> QED BY <2>2, <3>1, <3>5 DEF Withdraws, Suspending
  <2> QED BY <2>1, <2>2
<1>4. \A u \in Slots : Bided(th'[u], runs', interrupts')
  BY <1>1, <1>2, <1>3
<1>5. \A u \in Slots : Withdraws(th'[u]) => Current(u)'
  BY <1>1, <1>2, <1>3
<1>6. ASSUME NEW u \in Slots, NEW r \in Runs, WithdrawsOf(th'[u], r), NEW v \in Slots, th'[v].kind = "exec", th'[v].run = r
      PROVE  ~Suspending(th'[v])
  <2>1. u = t /\ WithdrawsOf(x, r) /\ Withdraws(x)
    BY <1>1, <1>2, <1>3, <1>6 DEF WithdrawsOf, Withdraws
  <2>2. CASE v = t
    BY <1>1, <1>2, <2>1, <2>2
  <2>3. CASE v # t
    <3> SUFFICES ASSUME Suspending(th'[v]) PROVE FALSE
      OBVIOUS
    <3>1. Suspending(th[v]) /\ th[v].kind = "exec" /\ th[v].run = r
      BY <1>3, <1>6, <2>3 DEF Same
    <3>2. ~WithdrawsOf(th[t], r)
      BY <3>1 DEF Waits, Executors
    <3>3. runs[r].status \in Waiting
      BY <2>1, <3>2
    <3>4. PICK i \in DOMAIN th[v].todo : th[v].todo[i].op = "out" /\ th[v].todo[i].outcome = "suspended"
      BY <3>1 DEF Suspending
    <3>5. Bides(th[v], i, runs, interrupts)
      BY DEF Waits, Bided
    <3>6. \A j \in DOMAIN th[v].todo : th[v].todo[j].op \notin {"set", "cascade", "invalidate"}
      BY <3>4, <3>5 DEF Bides
    <3>7. KindIn(runs, th[v].run, th[v].at) # "sub"
      BY <3>4, <3>5 DEF Bides, Asking
    <3>8. \E j \in DOMAIN th[v].todo : th[v].todo[j] = Set(r, "running")
      BY <3>1, <3>3, <3>4, <3>5, <3>7 DEF Bides, Going
    <3> QED BY <3>6, <3>8 DEF Set
  <2> QED BY <2>2, <2>3
<1>7. \A u \in Slots : \A r \in Runs : WithdrawsOf(th'[u], r) => \A v \in Executors(r)' : ~Suspending(th'[v])
  BY <1>6 DEF Executors
<1> QED BY <1>4, <1>5, <1>7 DEF Waits
-----------------------------------------------------------------------------
(* Statements                                                              *)

LEMMA BidedRest ==
  ASSUME NEW x, Program(x), x.todo # <<>>, NEW y, Same(x, y), y.todo = Tail(x.todo),
         NEW old, NEW table, Grown(old, table), x.kind = "exec" => Made(old, x.run),
         NEW before, NEW rows, Bided(x, old, before),
         x.kind = "exec" /\ table[x.run].status \in Waiting =>
           \/ old[x.run].status \in Waiting /\ x.todo[1] # Set(x.run, "running")
           \/ x.todo[1].op = "set" /\ x.todo[1].status \in Waiting,
         Suspending(x) /\ before[x.run][x.at].state = "open" => rows[x.run][x.at].state = "open",
         x.todo[1].op = "mint" /\ x.kind = "exec" => rows[x.run][x.at].state = "open"
  PROVE  Bided(y, table, rows)
<1> DEFINE p == x.todo
           q == y.todo
<1>1. /\ Len(p) \in Nat \ {0} /\ DOMAIN p = 1 .. Len(p)
      /\ DOMAIN q = 1 .. Len(p) - 1 /\ \A i \in 1 .. Len(p) - 1 : q[i] = p[i + 1]
  BY Slots1 DEF Program
<1>2. y.kind = x.kind /\ y.run = x.run /\ y.at = x.at
  BY DEF Same
<1>3. x.kind = "exec" => \A n : KindIn(table, x.run, n) = KindIn(old, x.run, n) /\ (On(table, x.run, n) <=> On(old, x.run, n))
  BY GrownSame
<1>4. \A i \in DOMAIN p : Bides(x, i, old, before)
  BY DEF Bided
<1>5. \A i \in DOMAIN p : Fits(x, i)
  BY DEF Program
<1> HIDE DEF p, q
<1> SUFFICES ASSUME NEW i \in DOMAIN q PROVE Bides(y, i, table, rows)
  BY DEF Bided, q
<1>6. /\ i \in Nat /\ i + 1 \in DOMAIN p /\ q[i] = p[i + 1] /\ 1 \in DOMAIN p /\ i + 1 # 1
      /\ \A j \in DOMAIN p : j # 1 => j - 1 \in DOMAIN q /\ q[j - 1] = p[j]
      /\ \A j \in DOMAIN q : j + 1 \in DOMAIN p /\ q[j] = p[j + 1]
  BY <1>1
<1> DEFINE s == p[i + 1]
<1>7. Bides(x, i + 1, old, before) /\ Fits(x, i + 1) /\ Bides(x, 1, old, before)
  BY <1>4, <1>5, <1>6
<1>8. /\ s.op \in Going => x.kind = "exec"
      /\ s.op = "set" /\ s.status \in Waiting => x.kind = "exec"
  BY <1>7 DEF Fits, Bides, p
<1>9. s.op = "set" /\ s.status \in Waiting =>
        /\ x.kind = "exec" /\ s.run = x.run
        /\ On(table, x.run, x.at) /\ KindIn(table, x.run, x.at) = "sub"
        /\ \A j \in DOMAIN q : q[j].op \in Going => q[j].op = "nap"
  <2> SUFFICES ASSUME s.op = "set", s.status \in Waiting
               PROVE  /\ x.kind = "exec" /\ s.run = x.run
                      /\ On(table, x.run, x.at) /\ KindIn(table, x.run, x.at) = "sub"
                      /\ \A j \in DOMAIN q : q[j].op \in Going => q[j].op = "nap"
    OBVIOUS
  <2>1. /\ x.kind = "exec" /\ s.run = x.run
        /\ On(old, x.run, x.at) /\ KindIn(old, x.run, x.at) = "sub"
        /\ \A j \in DOMAIN p : p[j].op \in Going => p[j].op = "nap"
    BY <1>7 DEF Bides, p
  <2> QED BY <1>3, <1>6, <2>1
<1>10. s.op = "invalidate" =>
         /\ \E j \in DOMAIN q : j > i /\ q[j] = Set(s.run, "cancelled")
         /\ \A j \in 1 .. i - 1 : Stops(q[j])
  <2> SUFFICES ASSUME s.op = "invalidate"
               PROVE  /\ \E j \in DOMAIN q : j > i /\ q[j] = Set(s.run, "cancelled")
                      /\ \A j \in 1 .. i - 1 : Stops(q[j])
    OBVIOUS
  <2>1. PICK j \in DOMAIN p : j > i + 1 /\ p[j] = Set(s.run, "cancelled")
    BY <1>7 DEF Bides, p
  <2>2. \A k \in 1 .. (i + 1) - 1 : Stops(p[k])
    BY <1>7 DEF Bides, p
  <2>3. j - 1 \in DOMAIN q /\ j - 1 > i /\ q[j - 1] = p[j]
    BY <1>1, <1>6, <2>1
  <2>4. ASSUME NEW k \in 1 .. i - 1 PROVE Stops(q[k])
    <3>1. k + 1 \in 1 .. (i + 1) - 1 /\ k \in DOMAIN q /\ q[k] = p[k + 1]
      BY <1>1, <1>6
    <3> QED BY <2>2, <3>1
  <2> QED BY <2>1, <2>3, <2>4
<1>11. s.op = "out" /\ s.outcome = "suspended" =>
         /\ On(table, x.run, x.at) /\ KindIn(table, x.run, x.at) \in Asking
         /\ \A j \in DOMAIN q : q[j].op \notin {"set", "cascade", "invalidate"}
         /\ rows[x.run][x.at].state = "open" \/ \E j \in DOMAIN q : q[j].op = "mint"
  <2> SUFFICES ASSUME s.op = "out", s.outcome = "suspended"
               PROVE  /\ On(table, x.run, x.at) /\ KindIn(table, x.run, x.at) \in Asking
                      /\ \A j \in DOMAIN q : q[j].op \notin {"set", "cascade", "invalidate"}
                      /\ rows[x.run][x.at].state = "open" \/ \E j \in DOMAIN q : q[j].op = "mint"
    OBVIOUS
  <2>1. /\ On(old, x.run, x.at) /\ KindIn(old, x.run, x.at) \in Asking
        /\ \A j \in DOMAIN p : p[j].op \notin {"set", "cascade", "invalidate"}
        /\ before[x.run][x.at].state = "open" \/ \E j \in DOMAIN p : p[j].op = "mint"
    BY <1>7 DEF Bides, p
  <2>2. x.kind = "exec"
    BY <1>8 DEF Going
  <2>3. Suspending(x)
    BY <1>6 DEF Suspending, p
  <2>4. rows[x.run][x.at].state = "open" \/ \E j \in DOMAIN q : q[j].op = "mint"
    <3>1. CASE before[x.run][x.at].state = "open"
      BY <2>3, <3>1
    <3>2. CASE \E j \in DOMAIN p : p[j].op = "mint"
      <4>1. PICK j \in DOMAIN p : p[j].op = "mint"
        BY <3>2
      <4>2. CASE j = 1
        BY <2>2, <4>1, <4>2 DEF p
      <4>3. CASE j # 1
        BY <1>6, <4>1, <4>3
      <4> QED BY <4>2, <4>3
    <3> QED BY <2>1, <3>1, <3>2
  <2>5. \A j \in DOMAIN q : q[j].op \notin {"set", "cascade", "invalidate"}
    BY <1>6, <2>1
  <2> QED BY <1>3, <2>1, <2>2, <2>4, <2>5
<1>12. s.op \in Going /\ x.kind = "exec" /\ table[x.run].status \in Waiting =>
         \/ \E j \in DOMAIN q : q[j] = Set(x.run, "running")
         \/ /\ KindIn(table, x.run, x.at) = "sub"
            /\ s.op \in {"poll", "nap"} \/ (s.op = "out" /\ s.outcome \in {"failed", "cancelled"})
  <2> SUFFICES ASSUME s.op \in Going, x.kind = "exec", table[x.run].status \in Waiting
               PROVE  \/ \E j \in DOMAIN q : q[j] = Set(x.run, "running")
                      \/ /\ KindIn(table, x.run, x.at) = "sub"
                         /\ s.op \in {"poll", "nap"} \/ (s.op = "out" /\ s.outcome \in {"failed", "cancelled"})
    OBVIOUS
  <2>1. CASE old[x.run].status \in Waiting /\ x.todo[1] # Set(x.run, "running")
    <3>1. \/ \E j \in DOMAIN p : p[j] = Set(x.run, "running")
          \/ /\ KindIn(old, x.run, x.at) = "sub"
             /\ s.op \in {"poll", "nap"} \/ (s.op = "out" /\ s.outcome \in {"failed", "cancelled"})
      BY <1>7, <2>1 DEF Bides, p
    <3>2. \A j \in DOMAIN p : p[j] = Set(x.run, "running") => j # 1
      BY <2>1 DEF p
    <3> QED BY <1>3, <1>6, <3>1, <3>2
  <2>2. CASE x.todo[1].op = "set" /\ x.todo[1].status \in Waiting
    <3>1. KindIn(old, x.run, x.at) = "sub" /\ \A j \in DOMAIN p : p[j].op \in Going => p[j].op = "nap"
      BY <1>7, <2>2 DEF Bides, p
    <3> QED BY <1>3, <1>6, <3>1
  <2> QED BY <2>1, <2>2
<1>13. y.todo[i] = s /\ y.todo = q
  BY <1>6 DEF q
<1> HIDE DEF s
<1> QED BY <1>2, <1>9, <1>10, <1>11, <1>12, <1>13 DEF Bides

(* What the rest of a program still does.                                  *)
LEMMA RestMends ==
  ASSUME NEW x, Program(x), x.todo # <<>>, NEW y, Same(x, y), y.todo = Tail(x.todo)
  PROVE  /\ \A r : Mends(x, r) =>
              \/ Mends(y, r)
              \/ x.todo[1].op = "set" /\ x.todo[1].run = r /\ x.todo[1].status \notin Waiting
              \/ x.todo[1].op = "advance" /\ x.run = r
         /\ \A r : WithdrawsOf(y, r) => WithdrawsOf(x, r)
         /\ Withdraws(y) => Withdraws(x)
         /\ Suspending(y) => Suspending(x)
<1> DEFINE p == x.todo
           q == y.todo
<1>1. /\ Len(p) \in Nat \ {0} /\ DOMAIN p = 1 .. Len(p)
      /\ DOMAIN q = 1 .. Len(p) - 1 /\ \A i \in 1 .. Len(p) - 1 : q[i] = p[i + 1]
  BY Slots1 DEF Program
<1>2. /\ \A j \in DOMAIN p : j # 1 => j - 1 \in DOMAIN q /\ q[j - 1] = p[j]
      /\ \A j \in DOMAIN q : j + 1 \in DOMAIN p /\ q[j] = p[j + 1]
  BY <1>1
<1>3. x.run = y.run
  BY DEF Same
<1> HIDE DEF p, q
<1>4. ASSUME NEW r, NEW i \in DOMAIN p,
             \/ p[i].op = "set" /\ p[i].run = r /\ p[i].status \notin Waiting
             \/ p[i].op = "advance" /\ x.run = r
      PROVE  \/ Mends(y, r)
             \/ p[1].op = "set" /\ p[1].run = r /\ p[1].status \notin Waiting
             \/ p[1].op = "advance" /\ x.run = r
  <2>1. CASE i = 1
    BY ONLY <1>4, <2>1
  <2>2. CASE i # 1
    <3>1. i - 1 \in DOMAIN q /\ q[i - 1] = p[i]
      BY ONLY <1>2, <1>4, <2>2
    <3> QED BY ONLY <1>3, <1>4, <3>1 DEF Mends, q
  <2> QED BY ONLY <2>1, <2>2
<1>5. ASSUME NEW i \in DOMAIN q PROVE \E j \in DOMAIN p : p[j] = q[i]
  BY ONLY <1>2, <1>5
<1>6. \A r : WithdrawsOf(y, r) => WithdrawsOf(x, r)
  BY ONLY <1>5 DEF WithdrawsOf, p, q
<1>7. Withdraws(y) => Withdraws(x)
  BY ONLY <1>5 DEF Withdraws, p, q
<1>8. Suspending(y) => Suspending(x)
  BY ONLY <1>5 DEF Suspending, p, q
<1> QED BY ONLY <1>4, <1>6, <1>7, <1>8 DEF Mends, p

LEMMA HeadStops ==
  ASSUME NEW x, \E S : x.todo \in Seq(S), NEW table, NEW rows, Bided(x, table, rows), Withdraws(x)
  PROVE  x.todo # <<>> /\ x.todo[1].op \notin {"body", "out", "sleep", "nap", "launch"}
<1>1. /\ Len(x.todo) \in Nat /\ DOMAIN x.todo = 1 .. Len(x.todo) /\ (x.todo = <<>> <=> Len(x.todo) = 0)
  BY Slots1
<1>2. PICK i \in DOMAIN x.todo : x.todo[i].op = "invalidate"
  BY DEF Withdraws
<1>3. \A j \in 1 .. i - 1 : Stops(x.todo[j])
  BY <1>2 DEF Bided, Bides
<1>4. x.todo # <<>> /\ (i = 1 \/ 1 \in 1 .. i - 1)
  BY <1>1, <1>2
<1> QED BY <1>2, <1>3, <1>4 DEF Stops

(* Whoever suspends a run suspends it at a node that asks.                 *)
LEMMA SuspendsWhere ==
  ASSUME Inv, Gates, Waits, NEW u \in Slots, Suspending(th[u])
  PROVE  /\ th[u].kind = "exec" /\ th[u].run \in Runs /\ th[u].at \in Nodes
         /\ On(runs, th[u].run, th[u].at) /\ KindIn(runs, th[u].run, th[u].at) \in Asking
         /\ ~Withdraws(th[u]) /\ \A j \in DOMAIN th[u].todo : th[u].todo[j].op \notin {"set", "cascade", "invalidate"}
         /\ runs[th[u].run].status \notin Waiting
<1>1. PICK i \in DOMAIN th[u].todo : th[u].todo[i].op = "out" /\ th[u].todo[i].outcome = "suspended"
  BY DEF Suspending
<1>2. Bides(th[u], i, runs, interrupts) /\ Fits(th[u], i)
  BY DEF Waits, Bided, Inv, Programs, Proper, Program
<1>3. th[u].kind = "exec"
  BY <1>1, <1>2 DEF Fits, Going
<1>4. /\ On(runs, th[u].run, th[u].at) /\ KindIn(runs, th[u].run, th[u].at) \in Asking
      /\ \A j \in DOMAIN th[u].todo : th[u].todo[j].op \notin {"set", "cascade", "invalidate"}
  BY <1>1, <1>2 DEF Bides
<1>5. th[u].run \in Runs
  BY <1>3 DEF Gates, Placed, Made
<1>6. runs[th[u].run].flow \in DOMAIN Flow
  BY <1>5 DEF Gates, Position
<1>7. th[u].at \in Nodes
  BY <1>4, <1>6, SqliteAssumption DEF Nodes, On
<1>8. runs[th[u].run].status \notin Waiting
  BY <1>1, <1>2, <1>3, <1>4 DEF Bides, Going, Asking, Set
<1> QED BY <1>3, <1>4, <1>5, <1>7, <1>8 DEF Withdraws

(* What statement s of thread x does to the runs that wait, and to rows.   *)
Settles(s, x) ==
  /\ \A r \in Runs : runs'[r].status \in Waiting =>
       /\ runs'[r].next = runs[r].next
       /\ IF s.op = "set" /\ s.run = r THEN s.status \in Waiting
          ELSE runs[r].status \in Waiting /\ ~(s.op = "advance" /\ x.run = r)
  /\ \A r \in Runs : \A n \in Nodes : interrupts[r][n].state \in {"open", "expired"} =>
       interrupts'[r][n].state \in {"open", interrupts[r][n].state} \/ (s.op = "invalidate" /\ s.run = r)
  /\ s.op = "mint" /\ x.kind = "exec" => interrupts'[x.run][x.at].state = "open"

(* The first thread makes one statement, and goes on with the rest.        *)
LEMMA RestWaits ==
  ASSUME Inv, Gates, Waits, NEW t \in Slots, Current(t), th[t].todo # <<>>,
         NEW x, x = [th[t] EXCEPT !.todo = Tail(th[t].todo)],
         DOMAIN th' = Slots, th'[t] = (IF x.todo = <<>> THEN Idle ELSE x),
         \A u \in Slots \ {t} : Same(th[u], th'[u]) /\ th'[u].todo = th[u].todo,
         NEW woken \in Seq(Slots), queue' = After(x) \o woken,
         Grown(runs, runs'), faults' = faults,
         Settles(First(t), th[t])
  PROVE  Waits'
<1>20. /\ \A r \in Runs : runs'[r].status \in Waiting =>
            /\ runs'[r].next = runs[r].next
            /\ IF First(t).op = "set" /\ First(t).run = r THEN First(t).status \in Waiting
               ELSE runs[r].status \in Waiting /\ ~(First(t).op = "advance" /\ th[t].run = r)
       /\ \A r \in Runs : \A n \in Nodes : interrupts[r][n].state \in {"open", "expired"} =>
            interrupts'[r][n].state \in {"open", interrupts[r][n].state} \/ (First(t).op = "invalidate" /\ First(t).run = r)
       /\ First(t).op = "mint" /\ th[t].kind = "exec" => interrupts'[th[t].run][th[t].at].state = "open"
  BY DEF Settles
<1> DEFINE y == th[t]
<1>1. /\ Program(y) /\ DOMAIN y = DOMAIN Idle /\ Placed(y, runs, Deciders)
      /\ Bided(y, runs, interrupts)
  BY DEF Inv, Programs, Proper, Program, Gates, Waits
<1>2. PICK S : y.todo \in Seq(S)
  BY <1>1 DEF Program
<1>3. /\ Tail(y.todo) \in Seq(S) /\ y.todo[1] = First(t) /\ y.todo # <<>> /\ 1 \in DOMAIN y.todo
  BY <1>2, Slots1 DEF First
<1>4. Same(y, x) /\ x.todo = Tail(y.todo)
  BY <1>1, SameRetold
<1>18. \A j \in DOMAIN y.todo : j > 1 => j - 1 \in DOMAIN x.todo /\ x.todo[j - 1] = y.todo[j]
  <2>1. PICK p, q : p = y.todo /\ q = x.todo
    OBVIOUS
  <2>2. p \in Seq(S) /\ q = Tail(p) /\ p # <<>>
    BY <1>2, <1>3, <1>4, <2>1
  <2>3. /\ Len(p) \in Nat /\ DOMAIN p = 1 .. Len(p)
        /\ DOMAIN q = 1 .. Len(p) - 1 /\ \A i \in 1 .. Len(p) - 1 : q[i] = p[i + 1]
    BY <2>2, Slots1
  <2>4. ASSUME NEW j \in DOMAIN p, j > 1 PROVE j - 1 \in DOMAIN q /\ q[j - 1] = p[j]
    <3>1. j \in Nat /\ j - 1 \in 1 .. Len(p) - 1 /\ (j - 1) + 1 = j
      BY <2>3, <2>4
    <3>2. q[j - 1] = p[(j - 1) + 1]
      BY <2>3, <3>1
    <3> QED BY <2>3, <3>1, <3>2
  <2> QED BY <2>1, <2>4
<1>5. y.kind = "exec" => Made(runs, y.run) /\ y.at = runs[y.run].next
  BY <1>1 DEF Placed
<1>6. Bides(y, 1, runs, interrupts)
  BY <1>1, <1>3 DEF Bided
<1>7. Suspending(y) => /\ y.kind = "exec" /\ y.run \in Runs /\ y.at \in Nodes /\ ~Withdraws(y)
                       /\ First(t).op # "invalidate"
  <2>1. Suspending(y) => /\ y.kind = "exec" /\ y.run \in Runs /\ y.at \in Nodes /\ ~Withdraws(y)
    BY SuspendsWhere
  <2> QED BY <1>3, <2>1 DEF Withdraws
<1>8. ASSUME NEW u \in Slots \ {t}, Suspending(th[u]), interrupts[th[u].run][th[u].at].state = "open"
      PROVE  interrupts'[th[u].run][th[u].at].state = "open"
  <2>1. th[u].kind = "exec" /\ th[u].run \in Runs /\ th[u].at \in Nodes
    BY <1>8, SuspendsWhere
  <2>2. u \in Executors(th[u].run)
    BY <2>1 DEF Executors
  <2>3. ~WithdrawsOf(y, th[u].run)
    BY <1>8, <2>1, <2>2 DEF Waits
  <2>4. ~(First(t).op = "invalidate" /\ First(t).run = th[u].run)
    BY <1>3, <2>3 DEF WithdrawsOf
  <2> QED BY <1>8, <1>20, <2>1, <2>4
<1>9. Bided(x, runs', interrupts')
  <2>1. y.kind = "exec" /\ runs'[y.run].status \in Waiting =>
          \/ runs[y.run].status \in Waiting /\ y.todo[1] # Set(y.run, "running")
          \/ y.todo[1].op = "set" /\ y.todo[1].status \in Waiting
    <3>1. /\ Set(y.run, "running").op = "set" /\ Set(y.run, "running").run = y.run
          /\ Set(y.run, "running").status = "running" /\ "running" \notin Waiting
      BY DEF Set, Waiting
    <3> QED BY <1>3, <1>5, <1>20, <3>1 DEF Made
  <2>2. Suspending(y) /\ interrupts[y.run][y.at].state = "open" => interrupts'[y.run][y.at].state = "open"
    BY <1>7, <1>20
  <2>3. y.todo[1].op = "mint" /\ y.kind = "exec" => interrupts'[y.run][y.at].state = "open"
    BY <1>3, <1>20
  <2>4. y.kind = "exec" => Made(runs, y.run)
    BY <1>5
  <2> HIDE DEF y
  <2> QED BY <1>1, <1>3, <1>4, <2>1, <2>2, <2>3, <2>4, BidedRest
<1>10. /\ \A r : Mends(y, r) =>
              \/ Mends(x, r)
              \/ y.todo[1].op = "set" /\ y.todo[1].run = r /\ y.todo[1].status \notin Waiting
              \/ y.todo[1].op = "advance" /\ y.run = r
       /\ \A r : WithdrawsOf(x, r) => WithdrawsOf(y, r)
       /\ (Withdraws(x) => Withdraws(y)) /\ (Suspending(x) => Suspending(y))
  <2>1. Program(y) /\ y.todo # <<>> /\ Same(y, x) /\ x.todo = Tail(y.todo)
    BY <1>1, <1>3, <1>4
  <2> HIDE DEF y
  <2> QED BY ONLY <2>1, RestMends
<1>11. Withdraws(x) => Current(t)'
  <2>1. \E T : x.todo \in Seq(T)
    BY <1>3, <1>4
  <2>2. Withdraws(x) => x.todo # <<>> /\ x.todo[1].op \notin {"body", "out", "sleep", "nap", "launch"}
    BY <1>9, <2>1, HeadStops
  <2>3. queue \in Seq(Slots) /\ (x.todo # <<>> => Head(x.todo) = x.todo[1])
    BY <2>1, Slots1 DEF Inv, Typed
  <2> QED BY <2>2, <2>3, QueueKeeps
<1>12. ASSUME NEW r \in Runs, runs'[r].status \in Waiting
       PROVE  /\ On(runs', r, runs'[r].next)
              /\ faults' = 0 /\ KindIn(runs', r, runs'[r].next) \in Asking =>
                   \/ interrupts'[r][runs'[r].next].state \in {"open", "expired"}
                   \/ \E u \in Slots : Mends(th'[u], r)
  <2>1. runs'[r].next = runs[r].next
    BY <1>12, <1>20
  <2>2. CASE First(t).op = "set" /\ First(t).run = r
    <3>1. First(t).status \in Waiting
      BY <1>12, <1>20, <2>2
    <3>2. y.kind = "exec" /\ y.run = r /\ On(runs, r, y.at) /\ KindIn(runs, r, y.at) = "sub"
      BY <1>3, <1>6, <2>2, <3>1 DEF Bides
    <3>3. Made(runs, r) /\ y.at = runs[r].next
      BY <1>5, <3>2
    <3>4. On(runs', r, y.at) /\ KindIn(runs', r, y.at) = "sub"
      BY <3>2, <3>3, GrownSame
    <3> QED BY <2>1, <3>3, <3>4 DEF Asking
  <2>3. CASE ~(First(t).op = "set" /\ First(t).run = r)
    <3>1. runs[r].status \in Waiting /\ ~(First(t).op = "advance" /\ y.run = r)
      BY <1>12, <1>20, <2>3
    <3>2. Made(runs, r)
      BY <3>1 DEF Made, Waiting
    <3>3. /\ On(runs', r, runs'[r].next) <=> On(runs, r, runs[r].next)
          /\ KindIn(runs', r, runs'[r].next) = KindIn(runs, r, runs[r].next)
      BY <2>1, <3>2, GrownSame
    <3>4. Asked(r)
      BY DEF Waits
    <3>5. On(runs, r, runs[r].next)
      BY <3>1, <3>4 DEF Asked
    <3>6. runs[r].next \in Nodes
      <4>1. runs[r].flow \in DOMAIN Flow
        BY DEF Gates, Position
      <4> QED BY <3>5, <4>1, SqliteAssumption DEF Nodes, On
    <3>7. ASSUME faults' = 0, KindIn(runs', r, runs'[r].next) \in Asking
          PROVE  \/ interrupts'[r][runs'[r].next].state \in {"open", "expired"}
                 \/ \E u \in Slots : Mends(th'[u], r)
      <4>0. Mends(x, r) => Mends(th'[t], r)
        <5>1. Mends(x, r) => x.todo # <<>>
          BY DEF Mends
        <5> QED BY <5>1
      <4>1. \/ interrupts[r][runs[r].next].state \in {"open", "expired"}
            \/ \E u \in Slots : Mends(th[u], r)
        BY <3>1, <3>3, <3>4, <3>7 DEF Asked, KindIn, Kind
      <4>2. CASE interrupts[r][runs[r].next].state \in {"open", "expired"}
        <5>1. \/ interrupts'[r][runs[r].next].state \in {"open", interrupts[r][runs[r].next].state}
              \/ First(t).op = "invalidate" /\ First(t).run = r
          BY <1>20, <3>6, <4>2
        <5>2. CASE First(t).op = "invalidate" /\ First(t).run = r
          <6>1. PICK j \in DOMAIN y.todo : j > 1 /\ y.todo[j] = Set(r, "cancelled")
            BY <1>3, <1>6, <5>2 DEF Bides
          <6>2. j - 1 \in DOMAIN x.todo /\ x.todo[j - 1] = Set(r, "cancelled")
            BY <1>18, <6>1
          <6>3. /\ Set(r, "cancelled").op = "set" /\ Set(r, "cancelled").run = r
                /\ Set(r, "cancelled").status \notin Waiting
            BY DEF Set, Waiting
          <6>4. Mends(x, r)
            BY <6>2, <6>3 DEF Mends
          <6> QED BY <4>0, <6>4
        <5> QED BY <2>1, <4>2, <5>1, <5>2
      <4>3. CASE \E u \in Slots : Mends(th[u], r)
        <5>1. PICK u \in Slots : Mends(th[u], r)
          BY <4>3
        <5>2. CASE u = t
          <6>1. Mends(x, r)
            BY <1>3, <1>10, <2>3, <3>1, <5>1, <5>2
          <6> QED BY <4>0, <6>1
        <5>3. CASE u # t
          <6>1. Same(th[u], th'[u]) /\ th'[u].todo = th[u].todo
            BY <5>3
          <6>2. th'[u].run = th[u].run
            BY ONLY <6>1 DEF Same
          <6>3. Mends(th'[u], r)
            BY ONLY <5>1, <6>1, <6>2 DEF Mends
          <6> QED BY <6>3
        <5> QED BY <5>2, <5>3
      <4> QED BY <4>1, <4>2, <4>3
    <3> QED BY <3>3, <3>5, <3>7
  <2> QED BY <2>2, <2>3
<1>13. \A r \in Runs : Asked(r)'
  BY <1>12 DEF Asked, KindIn, Kind
<1>14. \A u \in Slots \ {t} : th[u].kind = "exec" =>
         (runs'[th[u].run].status \in Waiting => runs[th[u].run].status \in Waiting)
  <2> SUFFICES ASSUME NEW u \in Slots \ {t}, th[u].kind = "exec", runs'[th[u].run].status \in Waiting
               PROVE  runs[th[u].run].status \in Waiting
    OBVIOUS
  <2>1. th[u].run \in Runs
    BY DEF Gates, Placed, Made
  <2>2. CASE First(t).op = "set" /\ First(t).run = th[u].run
    <3>1. y.kind = "exec" /\ y.run = th[u].run
      BY <1>3, <1>6, <1>20, <2>1, <2>2 DEF Bides
    <3> QED BY <3>1 DEF Gates, OneEach
  <2> QED BY <1>20, <2>1, <2>2
<1>15. \A r \in Runs : WithdrawsOf(x, r) => WithdrawsOf(th[t], r) \/ runs[r].status \in Waiting
  BY <1>10
<1>16. Suspending(x) => ~Withdraws(x)
  BY <1>7, <1>10
<1>17. /\ \A u \in Slots \ {t} : (Same(th[u], th'[u]) /\ th'[u].todo = th[u].todo) \/ Novel(th'[u])
       /\ DOMAIN th' = Slots /\ th'[t] = (IF x.todo = <<>> THEN Idle ELSE x) /\ Grown(runs, runs')
  OBVIOUS
<1>19. \A u \in Slots \ {t} : Suspending(th[u]) /\ interrupts[th[u].run][th[u].at].state = "open" =>
         interrupts'[th[u].run][th[u].at].state = "open"
  BY <1>8
<1> HIDE DEF y
<1> QED BY <1>9, <1>11, <1>13, <1>14, <1>15, <1>16, <1>17, <1>19, TurnWaits

LEMMA StatementWaits ==
  ASSUME Inv, Gates, Waits, NEW t \in Slots, NEW op, At(t, op), Then(t, <<>>),
         Grown(runs, runs'), faults' = faults,
         Settles(First(t), th[t])
  PROVE  Waits'
<1>1. PICK x : x = [th[t] EXCEPT !.todo = Tail(th[t].todo)]
  OBVIOUS
<1>2. /\ Current(t) /\ th[t].todo # <<>> /\ First(t).op = op
      /\ DOMAIN th' = Slots /\ th'[t] = (IF x.todo = <<>> THEN Idle ELSE x)
      /\ \A u \in Slots \ {t} : th'[u] = th[u]
      /\ queue' = After(x)
  BY <1>1, RestOfIt
<1>3. \A u \in Slots \ {t} : Same(th[u], th'[u]) /\ th'[u].todo = th[u].todo
  BY <1>2 DEF Same
<1>4. /\ <<>> \in Seq(Slots) /\ queue' = After(x) \o <<>>
  <2>1. After(x) \in Seq(Slots)
    <3>1. queue \in Seq(Slots) /\ queue # <<>>
      BY <1>2 DEF Inv, Typed, Current
    <3>2. Tail(queue) \in Seq(Slots) /\ Head(queue) \in Slots
      BY <3>1
    <3> QED BY <3>1, <3>2 DEF After
  <2> QED BY <1>2, <2>1, Joined
<1>5. Settles(First(t), th[t]) /\ Grown(runs, runs') /\ faults' = faults
  OBVIOUS
<1>6. /\ Current(t) /\ th[t].todo # <<>>
      /\ DOMAIN th' = Slots /\ th'[t] = (IF x.todo = <<>> THEN Idle ELSE x)
  BY <1>2
<1> QED BY <1>1, <1>3, <1>4, <1>5, <1>6, RestWaits

(* Of those that make no run wait, and close no interrupt.                 *)
LEMMA QuietWaits ==
  ASSUME Inv, Gates, Waits, NEW t \in Slots,
         NEW op, op \notin {"set", "mint", "invalidate"}, At(t, op), Then(t, <<>>),
         UNCHANGED <<interrupts, faults>>, Grown(runs, runs'),
         \A r \in Runs : runs'[r].status \in Waiting =>
           runs[r].status \in Waiting /\ runs'[r].next = runs[r].next /\ ~(op = "advance" /\ th[t].run = r)
  PROVE  Waits'
<1>1. First(t).op = op
  BY DEF At, First
<1> QED BY <1>1, StatementWaits DEF Settles

LEMMA QuietWaitsSteps ==
  ASSUME Inv, Gates, Waits, NEW t \in Slots,
         \/ AppendEvent(t) \/ ReleaseClaim(t) \/ SetCancelRequested(t) \/ InsertChild(t) \/ InsertIdempotency(t)
         \/ InsertRun(t) \/ Advance(t)
         \/ At(t, "launch") /\ Then(t, <<>>) /\ UNCHANGED <<runs, log, interrupts, faults>>
  PROVE  Waits'
<1>0. DOMAIN runs = Runs /\ \A r \in Runs : DOMAIN runs[r] = RunFields
  BY RowsTyped
<1> USE <1>0 DEF Grown, Counters, RunFields
<1>1. CASE AppendEvent(t)
  <2>1. At(t, "append") /\ Then(t, <<>>) /\ UNCHANGED <<runs, interrupts, faults>>
    BY <1>1 DEF AppendEvent
  <2> QED BY <2>1, QuietWaits
<1>2. CASE ReleaseClaim(t)
  <2>1. At(t, "release") /\ Then(t, <<>>) /\ UNCHANGED <<interrupts, faults>>
    BY <1>2 DEF ReleaseClaim
  <2>2. \A r \in Runs : /\ runs'[r].flow = runs[r].flow /\ runs'[r].next = runs[r].next
                        /\ runs'[r].status = runs[r].status
    BY <1>2 DEF ReleaseClaim
  <2> QED BY <2>1, <2>2, QuietWaits
<1>3. CASE SetCancelRequested(t)
  <2>1. At(t, "request") /\ Then(t, <<>>) /\ UNCHANGED <<interrupts, faults>>
    BY <1>3 DEF SetCancelRequested
  <2>2. \A r \in Runs : /\ runs'[r].flow = runs[r].flow /\ runs'[r].next = runs[r].next
                        /\ runs'[r].status \in {runs[r].status, "cancelling"}
    BY <1>3 DEF SetCancelRequested
  <2> QED BY <2>1, <2>2, QuietWaits DEF Waiting
<1>4. CASE InsertChild(t)
  <2>1. At(t, "insert") /\ Then(t, <<>>) /\ UNCHANGED <<interrupts, faults>>
    BY <1>4 DEF InsertChild
  <2>2. \A r \in Runs : /\ runs'[r].flow = runs[r].flow /\ runs'[r].next = runs[r].next
                        /\ runs'[r].status \in {runs[r].status, "pending"}
    BY <1>4 DEF InsertChild
  <2> QED BY <2>1, <2>2, QuietWaits DEF Waiting
<1>5. CASE InsertIdempotency(t)
  <2>1. At(t, "key") /\ Then(t, <<>>) /\ UNCHANGED <<runs, interrupts, faults>>
    BY <1>5 DEF InsertIdempotency
  <2> QED BY <2>1, QuietWaits
<1>6. CASE InsertRun(t)
  <2>1. At(t, "insert run") /\ Then(t, <<>>) /\ UNCHANGED <<interrupts, faults>>
    BY <1>6 DEF InsertRun
  <2>2. runs[th[t].run].status = "none"
    <3>1. 1 \in DOMAIN th[t].todo /\ th[t].todo[1].op = "insert run"
      BY <2>1, FirstFits
    <3> QED BY <3>1 DEF Gates, Placed, Sits
  <2>3. \A r \in Runs : /\ runs'[r].next = runs[r].next
                        /\ r # th[t].run => runs'[r] = runs[r]
                        /\ r = th[t].run => runs'[r].status = "pending"
    BY <1>6 DEF InsertRun
  <2>4. Grown(runs, runs')
    BY <2>2, <2>3
  <2>5. \A r \in Runs : runs'[r].status \in Waiting =>
          runs[r].status \in Waiting /\ runs'[r].next = runs[r].next /\ ~("insert run" = "advance" /\ th[t].run = r)
    BY <2>3 DEF Waiting
  <2> HIDE DEF Grown, RunFields, Counters
  <2> QED BY <2>1, <2>4, <2>5, QuietWaits
<1>7. CASE Advance(t)
  <2>1. At(t, "advance") /\ Then(t, <<>>) /\ UNCHANGED <<interrupts, faults>>
    BY <1>7 DEF Advance
  <2>2. \A r \in Runs : /\ runs'[r].flow = runs[r].flow
                        /\ runs'[r] = runs[r] \/ runs'[r].status = "running"
                        /\ r = th[t].run => runs'[r].status = "running"
    BY <1>7 DEF Advance
  <2> QED BY <2>1, <2>2, QuietWaits DEF Waiting
<1>8. CASE At(t, "launch") /\ Then(t, <<>>) /\ UNCHANGED <<runs, log, interrupts, faults>>
  BY <1>8, QuietWaits
<1> QED BY <1>1, <1>2, <1>3, <1>4, <1>5, <1>6, <1>7, <1>8

LEMMA SetStatusWaits ==
  ASSUME Inv, Gates, Waits, NEW t \in Slots, SetStatus(t)
  PROVE  Waits'
<1>0. DOMAIN runs = Runs /\ \A r \in Runs : DOMAIN runs[r] = RunFields
  BY RowsTyped
<1>1. At(t, "set") /\ Then(t, <<>>) /\ UNCHANGED <<interrupts, faults>>
  BY DEF SetStatus, Counters
<1>2. First(t).status # "none"
  <2>1. First(t).op = "set" /\ First(t) = th[t].todo[1] /\ Fits(th[t], 1)
    BY ONLY <1>1, FirstFits, Inv, t \in Slots
  <2>2. First(t).status \in Statuses
    BY ONLY <2>1 DEF Fits
  <2> QED BY ONLY <2>2 DEF Statuses, Live, Waiting, Terminal
<1>3. \A r \in Runs : /\ runs'[r].flow = runs[r].flow /\ runs'[r].next = runs[r].next
                      /\ runs'[r].status = IF First(t).run = r THEN First(t).status ELSE runs[r].status
  BY <1>0 DEF SetStatus, RunFields
<1>4. First(t).op = "set"
  BY <1>1 DEF At, First
<1>5. Settles(First(t), th[t])
  BY <1>1, <1>3, <1>4 DEF Settles
<1> QED BY <1>1, <1>2, <1>3, <1>5, StatementWaits DEF Grown

LEMMA CreateInterruptWaits ==
  ASSUME Inv, Gates, Waits, NEW t \in Slots, CreateInterrupt(t)
  PROVE  Waits'
<1> DEFINE r == th[t].run
           n == th[t].at
<1>1. /\ At(t, "mint") /\ Then(t, <<>>) /\ UNCHANGED <<runs, faults>>
      /\ interrupts' = [interrupts EXCEPT ![r][n] = Minted(@)]
  BY DEF CreateInterrupt, Counters
<1>2. 1 \in DOMAIN th[t].todo /\ th[t].todo[1].op = "mint"
  BY <1>1, FirstFits
<1>3. Placed(th[t], runs, Deciders) /\ Stored /\ \A q \in Runs : Position(q)
  BY DEF Gates
<1>4. r \in Runs /\ On(runs, r, n) /\ runs[r].flow \in DOMAIN Flow
  BY <1>2, <1>3 DEF Placed, Sits, Made, Position
<1>5. n \in Nodes
  BY <1>4, SqliteAssumption DEF Nodes, On
<1>9. n = runs[r].next
  BY <1>2, <1>3 DEF Placed, Sits
<1> HIDE DEF r, n
<1>6. \A q \in Runs : \A m \in Nodes :
        interrupts'[q][m] = IF q = r /\ m = n THEN Minted(interrupts[q][m]) ELSE interrupts[q][m]
  BY <1>1, <1>3, <1>4, <1>5 DEF Stored
<1>7. interrupts'[r][n].state = "open"
  BY <1>4, <1>5, <1>6 DEF Minted
<1>8. First(t).op = "mint"
  BY <1>1 DEF At, First
<1>10. Settles(First(t), th[t])
  <2>1. \A q \in Runs : runs'[q].status \in Waiting =>
          /\ runs'[q].next = runs[q].next
          /\ IF First(t).op = "set" /\ First(t).run = q THEN First(t).status \in Waiting
             ELSE runs[q].status \in Waiting /\ ~(First(t).op = "advance" /\ th[t].run = q)
    BY ONLY <1>1, <1>8
  <2>2. \A q \in Runs : \A m \in Nodes : interrupts[q][m].state \in {"open", "expired"} =>
          \/ interrupts'[q][m].state \in {"open", interrupts[q][m].state}
          \/ First(t).op = "invalidate" /\ First(t).run = q
    <3>1. ASSUME NEW q \in Runs, NEW m \in Nodes
          PROVE  interrupts'[q][m].state \in {"open", interrupts[q][m].state}
      <4>1. CASE q = r /\ m = n
        BY ONLY <1>7, <4>1
      <4>2. CASE ~(q = r /\ m = n)
        BY ONLY <1>6, <3>1, <4>2
      <4> QED BY ONLY <4>1, <4>2
    <3> QED BY ONLY <3>1
  <2>3. interrupts'[th[t].run][th[t].at].state = "open"
    BY ONLY <1>7 DEF r, n
  <2> QED BY ONLY <2>1, <2>2, <2>3, SMTT(30) DEF Settles
<1> QED BY <1>1, <1>10, StatementWaits DEF Grown, r, n

LEMMA InvalidateInterruptsWaits ==
  ASSUME Inv, Gates, Waits, NEW t \in Slots, InvalidateInterrupts(t)
  PROVE  Waits'
<1> DEFINE c == First(t).run
<1>1. /\ At(t, "invalidate") /\ Then(t, <<>>) /\ UNCHANGED <<runs, faults>>
      /\ interrupts' = [interrupts EXCEPT ![c] =
           [n \in Nodes |-> IF @[n].state = "open" THEN [@[n] EXCEPT !.state = "invalidated"] ELSE @[n]]]
  BY DEF InvalidateInterrupts, Counters
<1>2. First(t).op = "invalidate"
  BY <1>1 DEF At, First
<1>3. DOMAIN interrupts = Runs
  BY DEF Gates, Stored
<1>4. \A r \in Runs : r # c => interrupts'[r] = interrupts[r]
  BY <1>1, <1>3
<1>5. Settles(First(t), th[t])
  <2>1. \A r \in Runs : \A n \in Nodes : interrupts'[r][n].state \in {"open", interrupts[r][n].state} \/ c = r
    BY <1>4
  <2> QED BY <1>1, <1>2, <2>1 DEF Settles
<1> QED BY <1>1, <1>5, StatementWaits DEF Grown

LEMMA AbortWaits ==
  ASSUME Inv, Gates, Waits, NEW t \in Slots, Abort(t)
  PROVE  Waits'
<1> DEFINE woken == Executors(First(t).run)
           asleep == {s \in woken \ {t} : ~th[s].aborted /\ (Parked(s, "sleep") \/ Parked(s, "nap"))}
<1>1. PICK x : x = [th[t] EXCEPT !.todo = Tail(th[t].todo)]
  OBVIOUS
<1>2. /\ At(t, "abort") /\ UNCHANGED <<runs, interrupts, faults>>
      /\ th' = [s \in Slots |-> IF s = t THEN (IF x.todo = <<>> THEN Idle ELSE x)
                                ELSE IF s \in woken THEN [th[s] EXCEPT !.aborted = TRUE] ELSE th[s]]
      /\ queue' = After(x) \o SetToSeq(asleep)
  BY <1>1 DEF Abort, Tables, Rest, Counters
<1>3. /\ Current(t) /\ th[t].todo # <<>> /\ First(t).op = "abort"
  BY <1>2, FirstFits
<1>4. SetToSeq(asleep) \in Seq(Slots)
  <2>1. asleep \subseteq Slots
    BY DEF Executors
  <2> HIDE DEF asleep
  <2>2. SetToSeq(asleep) \in Seq(asleep)
    BY <2>1, FiniteRuns, FS_Subset, Listed
  <2> QED BY <2>1, <2>2
<1>5. \A u \in Slots : DOMAIN th[u] = DOMAIN Idle
  BY DEF Inv, Programs, Proper, Program
<1>6. \A u \in Slots \ {t} : Same(th[u], th'[u]) /\ th'[u].todo = th[u].todo
  <2> SUFFICES ASSUME NEW u \in Slots \ {t} PROVE Same(th[u], th'[u]) /\ th'[u].todo = th[u].todo
    OBVIOUS
  <2>1. th'[u] = th[u] \/ th'[u] = [th[u] EXCEPT !.aborted = TRUE]
    BY <1>2
  <2> QED BY <1>5, <2>1 DEF Same, Idle
<1>7. DOMAIN th' = Slots /\ th'[t] = (IF x.todo = <<>> THEN Idle ELSE x)
  BY <1>2
<1>8. Settles(First(t), th[t]) /\ Grown(runs, runs') /\ faults' = faults
  BY <1>2, <1>3 DEF Settles, Grown
<1> HIDE DEF asleep, woken
<1>9. PICK w \in Seq(Slots) : queue' = After(x) \o w
  BY <1>2, <1>4
<1> QED BY <1>1, <1>3, <1>6, <1>7, <1>8, <1>9, RestWaits

-----------------------------------------------------------------------------
(* The executor                                                            *)

(* Statements that open, close and await no interrupt.                     *)
Mild(s) ==
  /\ s.op # "invalidate"
  /\ s.op = "set" => s.status \notin Waiting
  /\ s.op = "out" => s.outcome # "suspended"
Milds(p) == (\E S : p \in Seq(S)) /\ \A i \in DOMAIN p : Mild(p[i])

(* What an executor may end in while its run is as a child of it is.       *)
Loiters(s) == s.op \in Going => s.op \in {"poll", "nap"} \/ (s.op = "out" /\ s.outcome \in {"failed", "cancelled"})

LEMMA MildBides ==
  ASSUME NEW x, Milds(x.todo), NEW table, NEW rows,
         x.kind = "exec" /\ table[x.run].status \in Waiting =>
           KindIn(table, x.run, x.at) = "sub" /\ \A i \in DOMAIN x.todo : Loiters(x.todo[i])
  PROVE  Bided(x, table, rows) /\ ~Withdraws(x) /\ ~Suspending(x) /\ \A r : ~WithdrawsOf(x, r)
<1>1. \A i \in DOMAIN x.todo : Mild(x.todo[i])
  BY DEF Milds
<1>2. ASSUME NEW i \in DOMAIN x.todo PROVE Bides(x, i, table, rows)
  <2>1. Mild(x.todo[i]) /\ (x.kind = "exec" /\ table[x.run].status \in Waiting =>
                              KindIn(table, x.run, x.at) = "sub" /\ Loiters(x.todo[i]))
    BY <1>1
  <2> QED BY <2>1 DEF Bides, Mild, Loiters
<1> QED BY <1>1, <1>2 DEF Bided, Withdraws, WithdrawsOf, Suspending, Mild

LEMMA MildOne == ASSUME NEW e, Mild(e) PROVE Milds(<<e>>)
<1> DEFINE p == <<e>>
<1>1. p \in Seq({e}) /\ DOMAIN p = {1} /\ p[1] = e
  OBVIOUS
<1> HIDE DEF p
<1>2. Milds(p)
  BY <1>1 DEF Milds
<1> QED BY <1>2 DEF p

LEMMA Pieces ==
  ASSUME NEW p, \E S : p \in Seq(S), NEW q, \E S : q \in Seq(S)
  PROVE  /\ \E S : p \o q \in Seq(S)
         /\ \A i \in DOMAIN (p \o q) : (\E j \in DOMAIN p : i = j /\ (p \o q)[i] = p[j])
                                       \/ \E j \in DOMAIN q : i = Len(p) + j /\ (p \o q)[i] = q[j]
         /\ \A j \in DOMAIN p : j \in DOMAIN (p \o q) /\ (p \o q)[j] = p[j]
         /\ \A j \in DOMAIN q : Len(p) + j \in DOMAIN (p \o q) /\ (p \o q)[Len(p) + j] = q[j]
         /\ Len(p) \in Nat /\ DOMAIN p = 1 .. Len(p) /\ Len(q) \in Nat /\ DOMAIN q = 1 .. Len(q)
<1> DEFINE w == p \o q
<1>1. /\ \E S : w \in Seq(S)
      /\ Len(p) \in Nat /\ Len(q) \in Nat
      /\ DOMAIN p = 1 .. Len(p) /\ DOMAIN q = 1 .. Len(q) /\ DOMAIN w = 1 .. Len(p) + Len(q)
      /\ \A i \in 1 .. Len(p) : w[i] = p[i]
      /\ \A i \in 1 .. Len(q) : w[Len(p) + i] = q[i]
  BY SeqUnion
<1> HIDE DEF w
<1>2. ASSUME NEW i \in DOMAIN w
      PROVE  (\E j \in DOMAIN p : i = j /\ w[i] = p[j]) \/ \E j \in DOMAIN q : i = Len(p) + j /\ w[i] = q[j]
  <2>1. CASE i <= Len(p)
    <3>1. i \in DOMAIN p /\ w[i] = p[i]
      BY <1>1, <2>1
    <3> QED BY <3>1
  <2>2. CASE i > Len(p)
    <3>1. i - Len(p) \in DOMAIN q /\ w[i] = q[i - Len(p)] /\ i = Len(p) + (i - Len(p))
      BY <1>1, <2>2
    <3> QED BY <3>1
  <2> QED BY <1>1, <2>1, <2>2
<1>3. /\ \A j \in DOMAIN p : j \in DOMAIN w /\ w[j] = p[j]
      /\ \A j \in DOMAIN q : Len(p) + j \in DOMAIN w /\ w[Len(p) + j] = q[j]
  BY <1>1
<1> QED BY <1>1, <1>2, <1>3 DEF w

LEMMA MildBoth == ASSUME NEW p, Milds(p), NEW q, Milds(q) PROVE Milds(p \o q)
<1>1. (\E S : p \in Seq(S)) /\ (\E S : q \in Seq(S))
  BY ONLY Milds(p), Milds(q) DEF Milds
<1>2. /\ \E S : p \o q \in Seq(S)
      /\ \A i \in DOMAIN (p \o q) : (\E j \in DOMAIN p : (p \o q)[i] = p[j])
                                    \/ \E j \in DOMAIN q : (p \o q)[i] = q[j]
  <2>1. /\ \E S : p \o q \in Seq(S)
        /\ \A i \in DOMAIN (p \o q) : (\E j \in DOMAIN p : i = j /\ (p \o q)[i] = p[j])
                                      \/ \E j \in DOMAIN q : i = Len(p) + j /\ (p \o q)[i] = q[j]
    BY ONLY <1>1, Pieces, SMTT(30)
  <2> DEFINE w == p \o q
  <2> HIDE DEF w
  <2>2. \A i \in DOMAIN w : (\E j \in DOMAIN p : i = j /\ w[i] = p[j])
                           \/ \E j \in DOMAIN q : i = Len(p) + j /\ w[i] = q[j]
    BY ONLY <2>1 DEF w
  <2>3. \A i \in DOMAIN w : (\E j \in DOMAIN p : w[i] = p[j]) \/ \E j \in DOMAIN q : w[i] = q[j]
    BY ONLY <2>2
  <2> QED BY ONLY <2>1, <2>3 DEF w
<1>3. ASSUME NEW i \in DOMAIN (p \o q) PROVE Mild((p \o q)[i])
  BY ONLY <1>2, <1>3, Milds(p), Milds(q) DEF Milds
<1> QED BY ONLY <1>2, <1>3 DEF Milds

LEMMA MildPut == ASSUME NEW e, Mild(e), NEW p, Milds(p) PROVE Milds(<<e>> \o p)
BY MildOne, MildBoth

LEMMA MildStatements ==
  /\ \A r, n, type : Mild(Ev(r, type, n))
  /\ \A r, status : status \notin Waiting => Mild(Set(r, status))
  /\ \A outcome : outcome # "suspended" => Mild(Out(outcome))
  /\ \A op \in {"next", "poll", "nap", "sleep", "find", "dispatch", "insert", "advance"} : Mild(Do(op))
  /\ \A r : \A op \in {"cascade", "release", "launch", "request", "abort"} : Mild(Of(op, r))
BY DEF Mild, Ev, Set, Out, Do, Of

LEMMA MildEnds ==
  ASSUME NEW r, NEW n
  PROVE  /\ Milds(Fails(r)) /\ Milds(Cancels(r)) /\ Milds(FailRunDuration(r)) /\ Milds(Recursion(r, n))
         /\ \A p \in Completes(r) : Milds(p)
         /\ Milds(Failed(r, n)) /\ Milds(Abandoned(r, n)) /\ Milds(Completed(r, n))
<1>1. \A status \in Terminal : Milds(Ends(r, status))
  <2>1. \A status \in Terminal : status \notin Waiting
    BY DEF Terminal, Waiting
  <2> QED BY <2>1, MildStatements, MildOne, MildBoth, Two DEF Ends
<1>2. Milds(Fails(r)) /\ Milds(Cancels(r))
  BY <1>1, MildStatements, MildPut DEF Fails, Cancels, Terminal
<1>3. Milds(FailRunDuration(r)) /\ Milds(Recursion(r, n))
  BY <1>2, MildStatements, MildPut DEF FailRunDuration, Recursion
<1>4. \A p \in Completes(r) : Milds(p)
  <2>1. Milds(<<Ev(r, "run.completed", 0)>> \o Ends(r, "completed"))
    BY <1>1, MildStatements, MildPut DEF Terminal
  <2>2. Milds(<<Ev(r, "memory.written", 0)>> \o (<<Ev(r, "run.completed", 0)>> \o Ends(r, "completed")))
    BY <2>1, MildStatements, MildPut
  <2> QED BY <2>1, <2>2 DEF Completes
<1>5. \A outcome \in {"failed", "cancelled", "completed"} : \A type : Milds(<<Ev(r, type, n), Out(outcome)>>)
  BY MildStatements, MildOne, MildBoth, Two
<1> QED BY <1>2, <1>3, <1>4, <1>5 DEF Failed, Abandoned, Completed

(* A node that asks opens its interrupt; no other suspends the run.        *)
LEMMA EntersMild ==
  ASSUME NEW r, NEW n, NEW p \in Enters(r, n)
  PROVE  \/ Milds(p)
         \/ Kind(r, n) \in Asking /\ p = <<Ev(r, "node.started", n)>> \o Suspends(r, n)
<1> DEFINE kind == Kind(r, n)
<1>1. Milds(Failed(r, n)) /\ Milds(Completed(r, n)) /\ Milds(<<Out("failed")>>)
  BY MildEnds, MildStatements, MildOne
<1>2. /\ Milds(<<Do("sleep")>>) /\ Milds(<<Do("dispatch")>>) /\ Milds(<<Do("find")>>)
      /\ \A type : Milds(<<Ev(r, type, n)>> \o Completed(r, n)) /\ Milds(<<Ev(r, type, n)>> \o Failed(r, n))
  BY <1>1, MildStatements, MildOne, MildPut
<1> HIDE DEF kind
<1>3. ASSUME NEW body \in Body(r, n) PROVE Milds(body) \/ (kind \in Asking /\ body = Suspends(r, n))
  <2>1. /\ kind \in {"noop", "identity"} => Body(r, n) = {Completed(r, n)}
        /\ kind = "secret" => Body(r, n) = SecretEcho(r, n)
        /\ kind = "channel" => Body(r, n) = ChannelWrite(r, n)
        /\ kind = "cost" => Body(r, n) = CostEmit(r, n)
        /\ kind = "delay" => Body(r, n) = {<<Do("sleep")>>}
        /\ kind = "approval" => Body(r, n) = ApprovalGate(r, n)
        /\ kind = "clarification" => Body(r, n) = ClarificationGate(r, n)
        /\ kind = "external" => Body(r, n) = Interrupt(r, n)
        /\ kind = "supervisor" => Body(r, n) = Supervisor(r, n)
        /\ kind = "dispatch" => Body(r, n) = {<<Do("dispatch")>>}
        /\ kind = "sub" => Body(r, n) = SubWorkflow(r, n)
        /\ kind \notin {"noop", "identity", "secret", "channel", "cost", "delay", "approval", "clarification",
                        "external", "supervisor", "dispatch", "sub"} => Body(r, n) = {Failed(r, n)}
    BY DEF Body, kind
  <2>2. CASE kind \in {"approval", "clarification", "external"}
    BY <1>1, <1>3, <2>1, <2>2 DEF Asking, ApprovalGate, ClarificationGate, Interrupt
  <2>3. CASE kind \in {"noop", "identity", "secret", "channel", "cost"}
    BY <1>1, <1>2, <1>3, <2>1, <2>3 DEF SecretEcho, ChannelWrite, CostEmit
  <2>4. CASE kind \in {"delay", "supervisor", "dispatch", "sub"}
    BY <1>1, <1>2, <1>3, <2>1, <2>4 DEF Supervisor, SubWorkflow
  <2> QED BY <1>1, <1>3, <2>1, <2>2, <2>3, <2>4
<1>4. CASE kind = "requires"
  BY <1>1, <1>4 DEF Enters, kind
<1>5. CASE kind = "model"
  BY <1>2, <1>5 DEF Enters, kind
<1>6. CASE kind \notin {"requires", "model"}
  <2>1. Enters(r, n) = {<<Ev(r, "node.started", n)>> \o body : body \in Body(r, n)}
    BY <1>6 DEF Enters, kind
  <2>2. PICK body \in Body(r, n) : p = <<Ev(r, "node.started", n)>> \o body
    BY <2>1
  <2> QED BY <1>3, <2>2, MildStatements, MildPut DEF kind
<1> QED BY <1>4, <1>5, <1>6

(* What the executor that now goes on knows of its run.                    *)
LEMMA ExecutorWaits ==
  ASSUME Inv, Gates, Waits, NEW t \in Slots, NEW op \in Going, At(t, op)
  PROVE  /\ Bides(th[t], 1, runs, interrupts)
         /\ \A i \in DOMAIN th[t].todo : i = 1
         /\ \A r : ~Mends(th[t], r)
         /\ runs[th[t].run].status \in Waiting => KindIn(runs, th[t].run, th[t].at) = "sub" /\ Loiters(First(t))
<1> DEFINE y == th[t]
<1>1. /\ y.kind = "exec" /\ First(t).op = op /\ First(t) = y.todo[1] /\ 1 \in DOMAIN y.todo
  BY ExecutorIs
<1>2. DOMAIN y.todo = 1 .. Len(y.todo) /\ Fits(y, 1)
  BY FirstFits
<1>3. Len(y.todo) = 1
  BY <1>1, <1>2 DEF Fits
<1>4. \A i \in DOMAIN y.todo : i = 1
  BY <1>2, <1>3
<1>5. Bides(y, 1, runs, interrupts)
  BY <1>1 DEF Waits, Bided
<1>6. op \notin {"set", "advance"}
  BY DEF Going
<1> HIDE DEF y
<1>7. \A r : ~Mends(y, r)
  BY <1>1, <1>4, <1>6 DEF Mends
<1>8. \A j \in DOMAIN y.todo : y.todo[j] # Set(y.run, "running")
  BY <1>1, <1>4, <1>6 DEF Set
<1>9. runs[y.run].status \in Waiting => KindIn(runs, y.run, y.at) = "sub" /\ Loiters(First(t))
  BY <1>1, <1>5, <1>8 DEF Bides, Loiters
<1> QED BY <1>4, <1>5, <1>7, <1>9 DEF y

(* The executor goes on, and may change its own run.                       *)
LEMMA GoesWaits ==
  ASSUME Inv, Gates, Waits, NEW t \in Slots, NEW op \in Going, At(t, op), NEW x, Becomes(t, x),
         Bided(x, runs', interrupts'), ~Withdraws(x),
         Grown(runs, runs'), UNCHANGED <<interrupts, faults>>,
         \A r \in Runs \ {th[t].run} : runs'[r] = runs[r],
         (\A r \in Runs : r = th[t].run => Asked(r)') \/ runs' = runs
  PROVE  Waits'
<1>1. /\ Current(t) /\ th[t].todo # <<>> /\ th[t].kind = "exec" /\ t \in Executors(th[t].run) /\ Executors(th[t].run) \subseteq {t}
  BY ExecutorIs
<1>2. \A r : ~Mends(th[t], r)
  BY ExecutorWaits
<1>3. DOMAIN th' = Slots /\ th'[t] = (IF x.todo = <<>> THEN Idle ELSE x) /\ \A u \in Slots \ {t} : th'[u] = th[u]
  BY DEF Becomes, Inv, Typed
<1>4. \A u \in Slots \ {t} : (Same(th[u], th'[u]) /\ th'[u].todo = th[u].todo) \/ Novel(th'[u])
  BY <1>3 DEF Same
<1>5. \A u \in Slots \ {t} : th[u].kind = "exec" =>
        (runs'[th[u].run].status \in Waiting => runs[th[u].run].status \in Waiting)
  <2> SUFFICES ASSUME NEW u \in Slots \ {t}, th[u].kind = "exec" PROVE runs'[th[u].run] = runs[th[u].run]
    OBVIOUS
  <2>1. th[u].run \in Runs
    BY DEF Gates, Placed, Made
  <2>2. th[u].run # th[t].run
    BY <1>1 DEF Executors
  <2> QED BY <2>1, <2>2
<1>6. \A u \in Slots \ {t} : Suspending(th[u]) /\ interrupts[th[u].run][th[u].at].state = "open" =>
        interrupts'[th[u].run][th[u].at].state = "open"
  OBVIOUS
<1>7. \A r \in Runs : WithdrawsOf(x, r) => WithdrawsOf(th[t], r) \/ runs[r].status \in Waiting
  BY DEF WithdrawsOf, Withdraws
<1>8. ASSUME NEW r \in Runs PROVE Asked(r)'
  <2>1. CASE r # th[t].run \/ runs' = runs
    <3>1. runs'[r] = runs[r]
      BY <2>1
    <3>2. Asked(r)
      BY DEF Waits
    <3>3. \A u \in Slots : Mends(th[u], r) => \E v \in Slots : Mends(th'[v], r)
      BY <1>2, <1>3
    <3> QED BY <3>1, <3>2, <3>3, AskedStill
  <2>2. CASE r = th[t].run /\ Asked(r)'
    BY <2>2
  <2> QED BY <2>1, <2>2
<1> QED BY <1>1, <1>3, <1>4, <1>5, <1>6, <1>7, <1>8, TurnWaits

(* Its program opens no interrupt.                                         *)
LEMMA MildWaits ==
  ASSUME Inv, Gates, Waits, NEW t \in Slots, NEW op \in Going, At(t, op), NEW x, Becomes(t, x),
         x.kind = th[t].kind, x.run = th[t].run, x.at = th[t].at, Milds(x.todo),
         UNCHANGED <<runs, interrupts, faults>>,
         runs[th[t].run].status \in Waiting => \A i \in DOMAIN x.todo : Loiters(x.todo[i])
  PROVE  Waits'
<1>1. runs[th[t].run].status \in Waiting => KindIn(runs, th[t].run, th[t].at) = "sub"
  BY ExecutorWaits
<1>2. Bided(x, runs, interrupts) /\ ~Withdraws(x)
  BY <1>1, MildBides
<1>3. Grown(runs, runs') /\ Bided(x, runs', interrupts') /\ \A r \in Runs \ {th[t].run} : runs'[r] = runs[r]
  BY <1>2 DEF Grown
<1> QED BY <1>2, <1>3, GoesWaits

LEMMA MildGoes ==
  ASSUME Inv, Gates, Waits, NEW t \in Slots, NEW op \in Going, At(t, op), NEW p, Milds(p),
         \/ Goes(t, p)
         \/ \E worker : Becomes(t, [th[t] EXCEPT !.worker = worker, !.todo = p])
         \/ \E c : Becomes(t, [th[t] EXCEPT !.child = c, !.todo = p]),
         UNCHANGED <<runs, interrupts, faults>>,
         runs[th[t].run].status \in Waiting => \A i \in DOMAIN p : Loiters(p[i])
  PROVE  Waits'
<1>1. DOMAIN th[t] = DOMAIN Idle
  BY FirstFits DEF Program
<1>2. PICK x : /\ Becomes(t, x)
               /\ \/ x = [th[t] EXCEPT !.todo = p]
                  \/ \E worker : x = [th[t] EXCEPT !.worker = worker, !.todo = p]
                  \/ \E c : x = [th[t] EXCEPT !.child = c, !.todo = p]
  BY DEF Goes
<1>3. x.kind = th[t].kind /\ x.run = th[t].run /\ x.at = th[t].at /\ x.todo = p
  BY <1>1, <1>2 DEF Idle
<1> QED BY <1>2, <1>3, MildWaits

LEMMA NextNodeWaits ==
  ASSUME Inv, Gates, Waits, NEW t \in Slots, NextNode(t)
  PROVE  Waits'
<1> DEFINE r == th[t].run
           n == th[t].at
<1>1. /\ At(t, "next") /\ "next" \in Going /\ UNCHANGED <<runs, interrupts, faults>>
      /\ \E p : Goes(t, p) /\ (p \in Completes(r) \cup {Recursion(r, n), Cancels(r)} \/ (~(n > Length(r)) /\ p \in Enters(r, n)))
  BY DEF NextNode, Tables, Going, Counters
<1>2. th[t].kind = "exec" /\ Length(r) \in Nat /\ n \in Nat \ {0} /\ DOMAIN th[t] = DOMAIN Idle /\ First(t).op = "next"
  BY <1>1, ExecutorIs
<1>3. PICK p : Goes(t, p) /\ (p \in Completes(r) \cup {Recursion(r, n), Cancels(r)} \/ (~(n > Length(r)) /\ p \in Enters(r, n)))
  BY <1>1
<1>4. runs[r].status \notin Waiting
  BY <1>1, <1>2, ExecutorWaits DEF Loiters, Going
<1>5. \/ Milds(p)
      \/ ~(n > Length(r)) /\ Kind(r, n) \in Asking /\ p = <<Ev(r, "node.started", n)>> \o Suspends(r, n)
  <2>1. CASE p \in Completes(r) \cup {Recursion(r, n), Cancels(r)}
    BY <2>1, MildEnds
  <2>2. CASE ~(n > Length(r)) /\ p \in Enters(r, n)
    BY <2>2, EntersMild
  <2> QED BY <1>3, <2>1, <2>2
<1>6. CASE Milds(p)
  BY <1>1, <1>3, <1>4, <1>6, MildGoes
<1>7. CASE ~(n > Length(r)) /\ Kind(r, n) \in Asking /\ p = <<Ev(r, "node.started", n)>> \o Suspends(r, n)
  <2>1. PICK x : x = [th[t] EXCEPT !.todo = p] /\ Becomes(t, x)
    BY <1>3 DEF Goes
  <2>2. x.kind = "exec" /\ x.run = r /\ x.at = n /\ x.todo = p
    BY <1>2, <2>1 DEF Idle
  <2>3. On(runs, r, n) /\ KindIn(runs, r, n) \in Asking
    BY <1>2, <1>7 DEF On, KindIn, Kind, Length
  <2> DEFINE q == Suspends(r, n)
  <2>4. DOMAIN q = 1 .. 3 /\ (\E S : q \in Seq(S)) /\ q[1].op = "mint" /\ q[2].op = "append" /\ q[3].op = "out"
    <3>1. q = <<Do("mint"), Ev(r, "node.suspended", n), Out("suspended")>>
      BY DEF Suspends
    <3>2. /\ q \in Seq({Do("mint"), Ev(r, "node.suspended", n), Out("suspended")}) /\ DOMAIN q = 1 .. 3
          /\ q[1] = Do("mint") /\ q[2] = Ev(r, "node.suspended", n) /\ q[3] = Out("suspended")
      BY <3>1
    <3> HIDE DEF q
    <3> QED BY <3>2 DEF Do, Ev, Out
  <2> HIDE DEF q
  <2>5. /\ Len(q) = 3 /\ DOMAIN p = 1 .. 4 /\ p[1] = Ev(r, "node.started", n)
        /\ \A i \in 1 .. 3 : p[i + 1] = q[i]
    <3>1. Len(q) \in Nat /\ DOMAIN q = 1 .. Len(q) /\ DOMAIN p = 1 .. Len(q) + 1
          /\ p[1] = Ev(r, "node.started", n) /\ \A i \in 1 .. Len(q) : p[i + 1] = q[i]
      BY <1>7, <2>4, Put DEF q
    <3>2. Len(q) = 3
      BY <2>4, <3>1
    <3> QED BY <3>1, <3>2
  <2>6. p[1].op = "append" /\ p[2].op = "mint" /\ p[3].op = "append" /\ p[4].op = "out"
    BY <2>4, <2>5 DEF Ev
  <2>7. \A i \in DOMAIN p : i \in {1, 2, 3, 4}
    BY <2>5
  <2>8. 2 \in DOMAIN p /\ \A i \in DOMAIN p : p[i].op \in {"append", "mint", "out"}
    BY <2>5, <2>6, <2>7
  <2>9. Bided(x, runs, interrupts)
    BY <1>4, <2>2, <2>3, <2>6, <2>8 DEF Bided, Bides
  <2>10. ~Withdraws(x)
    BY <2>2, <2>8 DEF Withdraws
  <2>11. Grown(runs, runs') /\ Bided(x, runs', interrupts') /\ \A q1 \in Runs \ {th[t].run} : runs'[q1] = runs[q1]
    BY <1>1, <2>9 DEF Grown
  <2> QED BY <1>1, <2>1, <2>10, <2>11, GoesWaits
<1> QED BY <1>5, <1>6, <1>7

LEMMA AbortedWaits ==
  ASSUME Inv, Gates, Waits, NEW t \in Slots, DelayAborted(t) \/ NapAborted(t)
  PROVE  Waits'
<1>1. CASE DelayAborted(t)
  <2>1. /\ At(t, "sleep") /\ "sleep" \in Going /\ UNCHANGED <<runs, interrupts, faults>>
        /\ Goes(t, Abandoned(th[t].run, th[t].at))
    BY <1>1 DEF DelayAborted, Tables, Going, Counters
  <2>2. First(t).op = "sleep"
    BY <2>1, ExecutorIs
  <2>3. runs[th[t].run].status \notin Waiting
    BY <2>1, <2>2, ExecutorWaits DEF Loiters, Going
  <2> QED BY <2>1, <2>3, MildEnds, MildGoes
<1>2. CASE NapAborted(t)
  <2>1. /\ At(t, "nap") /\ "nap" \in Going /\ UNCHANGED <<runs, interrupts, faults>>
        /\ Goes(t, <<Do("poll")>>)
    BY <1>2 DEF NapAborted, Tables, Going, Counters
  <2>2. PICK p : p = <<Do("poll")>>
    OBVIOUS
  <2>3. DOMAIN p = {1} /\ p[1].op = "poll" /\ Milds(p)
    BY <2>2, MildStatements, MildOne DEF Do
  <2>4. \A i \in DOMAIN p : Loiters(p[i])
    BY <2>3 DEF Loiters
  <2> QED BY <2>1, <2>2, <2>3, <2>4, MildGoes
<1> QED BY <1>1, <1>2

LEMMA DispatchNodeWaits ==
  ASSUME Inv, Gates, Waits, NEW t \in Slots, DispatchNode(t)
  PROVE  Waits'
<1> DEFINE r == th[t].run
           n == th[t].at
<1>1. /\ At(t, "dispatch") /\ "dispatch" \in Going /\ UNCHANGED <<runs, interrupts, faults>>
      /\ \E p \in {Failed(r, n), Completed(r, n), <<Do("find")>>} : Becomes(t, [th[t] EXCEPT !.worker = 0, !.todo = p])
  BY DEF DispatchNode, NextWorker, Tables, Going, Counters
<1>2. First(t).op = "dispatch"
  BY <1>1, ExecutorIs
<1>3. runs[r].status \notin Waiting
  BY <1>1, <1>2, ExecutorWaits DEF Loiters, Going
<1>4. PICK p \in {Failed(r, n), Completed(r, n), <<Do("find")>>} : Becomes(t, [th[t] EXCEPT !.worker = 0, !.todo = p])
  BY <1>1
<1>5. Milds(p)
  BY MildEnds, MildStatements, MildOne
<1> QED BY <1>1, <1>3, <1>4, <1>5, MildGoes

LEMMA FindChildWaits ==
  ASSUME Inv, Gates, Waits, NEW t \in Slots, FindChild(t)
  PROVE  Waits'
<1> DEFINE begins(c) == <<Do("insert"), Ev(th[t].run, "node.dispatched", th[t].at), Of("launch", c), Do("poll")>>
<1>1. /\ At(t, "find") /\ "find" \in Going /\ UNCHANGED <<runs, interrupts, faults>>
      /\ \E c : \E p \in {<<Do("poll")>>, begins(c)} : Becomes(t, [th[t] EXCEPT !.child = c, !.todo = p])
  BY DEF FindChild, Tables, Going, Counters
<1>2. First(t).op = "find"
  BY <1>1, ExecutorIs
<1>3. runs[th[t].run].status \notin Waiting
  BY <1>1, <1>2, ExecutorWaits DEF Loiters, Going
<1>4. PICK c, p : p \in {<<Do("poll")>>, begins(c)} /\ Becomes(t, [th[t] EXCEPT !.child = c, !.todo = p])
  BY <1>1
<1>5. Milds(begins(c))
  <2>1. begins(c) = <<Do("insert"), Ev(th[t].run, "node.dispatched", th[t].at)>> \o <<Of("launch", c), Do("poll")>>
    OBVIOUS
  <2>2. Milds(<<Do("insert"), Ev(th[t].run, "node.dispatched", th[t].at)>>) /\ Milds(<<Of("launch", c), Do("poll")>>)
    BY MildStatements, MildOne, MildBoth, Two
  <2> QED BY <2>1, <2>2, MildBoth
<1>6. Milds(p)
  BY <1>4, <1>5, MildStatements, MildOne
<1> QED BY <1>1, <1>3, <1>4, <1>6, MildGoes

LEMMA PollWorkerWaits ==
  ASSUME Inv, Gates, Waits, NEW t \in Slots, PollWorker(t)
  PROVE  Waits'
<1> DEFINE r == th[t].run
           n == th[t].at
           c == th[t].child
           back == <<Ev(r, "node.completed", n)>> \o <<Out("loopback")>>
           on == <<Ev(r, "node.completed", n)>> \o <<Set(r, "running"), Out("completed")>>
           ends == <<Of("cascade", c)>> \o Abandoned(r, n)
           programs == {back, on, ends, Failed(r, n), <<Do("find")>>, <<Do("nap")>>}
<1>1. /\ At(t, "poll") /\ "poll" \in Going /\ UNCHANGED <<runs, interrupts, faults>> /\ Kind(r, n) = "dispatch"
      /\ \E p \in programs : Goes(t, p) \/ \E worker : Becomes(t, [th[t] EXCEPT !.worker = worker, !.todo = p])
  BY DEF PollWorker, NextWorker, Tables, Going, Counters
<1>2. runs[r].status \notin Waiting
  BY <1>1, ExecutorWaits DEF KindIn, Kind
<1>3. PICK p \in programs : Goes(t, p) \/ \E worker : Becomes(t, [th[t] EXCEPT !.worker = worker, !.todo = p])
  BY <1>1
<1>4. /\ Milds(<<Set(r, "running"), Out("completed")>>) /\ Milds(<<Out("loopback")>>)
      /\ Milds(<<Do("find")>>) /\ Milds(<<Do("nap")>>)
  BY MildStatements, MildOne, MildBoth, Two DEF Waiting
<1>5. Milds(back) /\ Milds(on) /\ Milds(ends) /\ Milds(Failed(r, n))
  BY <1>4, MildStatements, MildPut, MildEnds
<1>6. Milds(p)
  BY <1>3, <1>4, <1>5
<1> HIDE DEF programs, back, on, ends
<1> QED BY <1>1, <1>2, <1>3, <1>6, MildGoes

LEMMA OneLong ==
  ASSUME NEW a, NEW p, p = <<a>>
  PROVE  (\E S : p \in Seq(S)) /\ DOMAIN p = {1} /\ p[1] = a
<1>1. p \in Seq({a}) /\ DOMAIN p = {1} /\ p[1] = a
  OBVIOUS
<1> QED BY <1>1

LEMMA TwoLong ==
  ASSUME NEW a, NEW b, NEW p, p = <<a, b>>
  PROVE  (\E S : p \in Seq(S)) /\ (\A i \in DOMAIN p : i \in {1, 2}) /\ DOMAIN p = 1 .. 2 /\ p[1] = a /\ p[2] = b
<1>1. p \in Seq({a, b}) /\ DOMAIN p = 1 .. 2 /\ p[1] = a /\ p[2] = b
  OBVIOUS
<1>2. \A i \in DOMAIN p : i \in {1, 2}
  BY <1>1
<1> QED BY <1>1, <1>2

LEMMA ThreeLong ==
  ASSUME NEW a, NEW b, NEW c, NEW p, p = <<a, b, c>>
  PROVE  (\E S : p \in Seq(S)) /\ (\A i \in DOMAIN p : i \in {1, 2, 3})
         /\ DOMAIN p = 1 .. 3 /\ p[1] = a /\ p[2] = b /\ p[3] = c
<1>1. p \in Seq({a, b, c}) /\ DOMAIN p = 1 .. 3 /\ p[1] = a /\ p[2] = b /\ p[3] = c
  OBVIOUS
<1>2. \A i \in DOMAIN p : i \in {1, 2, 3}
  BY <1>1
<1> QED BY <1>1, <1>2

LEMMA PollSubWaits ==
  ASSUME Inv, Gates, Waits, NEW t \in Slots, PollSub(t)
  PROVE  Waits'
<1> DEFINE r == th[t].run
           n == th[t].at
           c == th[t].child
           resumes == <<Ev(r, "node.completed", n), Set(r, "running"), Out("completed")>>
           mirrors(status) == <<Set(r, status), Do("nap")>>
           ends == <<Of("cascade", c)>> \o Abandoned(r, n)
           programs == {resumes, Failed(r, n), Abandoned(r, n), <<Do("nap")>>}
<1>1. /\ At(t, "poll") /\ "poll" \in Going /\ UNCHANGED <<runs, interrupts, faults>> /\ Kind(r, n) = "sub"
      /\ \/ runs[r].status = "cancelling" /\ Goes(t, ends)
         \/ \E p \in programs : Goes(t, p)
         \/ \E status : Goes(t, mirrors(status))
  BY DEF PollSub, Tables, Going, Counters
<1>2. /\ First(t).op = "poll" /\ th[t].kind = "exec" /\ DOMAIN th[t] = DOMAIN Idle /\ Sits(th[t], First(t), runs, Deciders)
  BY <1>1, ExecutorIs
<1>3. On(runs, r, n) /\ KindIn(runs, r, n) = "sub"
  BY <1>1, <1>2 DEF Sits, Passing, KindIn, Kind
<1> HIDE DEF programs
<1>4. ASSUME runs[r].status = "cancelling", Goes(t, ends) PROVE Waits'
  <2>1. Milds(ends)
    BY MildStatements, MildPut, MildEnds
  <2>2. runs[r].status \notin Waiting
    BY <1>4 DEF Waiting
  <2> HIDE DEF ends
  <2> QED BY <1>1, <1>4, <2>1, <2>2, MildGoes
<1>5. ASSUME NEW p, Goes(t, p), (\E S : p \in Seq(S)), \A i \in DOMAIN p : p[i].op # "invalidate",
             \A x : x.kind = "exec" /\ x.run = r /\ x.at = n /\ x.todo = p => Bided(x, runs, interrupts)
      PROVE  Waits'
  <2>1. PICK x : x = [th[t] EXCEPT !.todo = p] /\ Becomes(t, x)
    BY <1>5 DEF Goes
  <2>2. x.kind = "exec" /\ x.run = r /\ x.at = n /\ x.todo = p
    BY <1>2, <2>1 DEF Idle
  <2>3. Bided(x, runs, interrupts) /\ ~Withdraws(x)
    BY <1>5, <2>2 DEF Withdraws
  <2>4. Grown(runs, runs') /\ Bided(x, runs', interrupts') /\ \A q1 \in Runs \ {th[t].run} : runs'[q1] = runs[q1]
    BY <1>1, <2>3 DEF Grown
  <2> QED BY <1>1, <2>1, <2>3, <2>4, GoesWaits
<1>6. ASSUME NEW p, Goes(t, p), p = resumes PROVE Waits'
  <2>1. /\ \E S : p \in Seq(S)
        /\ DOMAIN p = 1 .. 3 /\ p[1] = Ev(r, "node.completed", n) /\ p[2] = Set(r, "running") /\ p[3] = Out("completed")
    BY ONLY <1>6, ThreeLong
  <2>2. \A i \in DOMAIN p : i \in {1, 2, 3}
    BY ONLY <1>6, ThreeLong
  <2>3. \A i \in DOMAIN p : Mild(p[i])
    BY <2>1, <2>2, MildStatements DEF Waiting
  <2>4. 2 \in DOMAIN p /\ p[2] = Set(r, "running")
    BY <2>1
  <2>5. ASSUME NEW x, x.kind = "exec", x.run = r, x.at = n, x.todo = p PROVE Bided(x, runs, interrupts)
    BY <2>3, <2>4, <2>5 DEF Bided, Bides, Mild
  <2> QED BY <1>5, <1>6, <2>1, <2>3, <2>5 DEF Mild
<1>7. ASSUME NEW p, Goes(t, p), NEW status, p = mirrors(status) PROVE Waits'
  <2>1. /\ \E S : p \in Seq(S)
        /\ DOMAIN p = 1 .. 2 /\ p[1] = Set(r, status) /\ p[2] = Do("nap")
    BY ONLY <1>7, TwoLong
  <2>2. /\ \A i \in DOMAIN p : i \in {1, 2}
        /\ p[1].op = "set" /\ p[1].run = r /\ p[2].op = "nap"
    BY <2>1 DEF Set, Do
  <2>3. \A i \in DOMAIN p : p[i].op \in {"set", "nap"} /\ (p[i].op = "set" => p[i].run = r)
    BY <2>2
  <2>5. ASSUME NEW x, x.kind = "exec", x.run = r, x.at = n, x.todo = p PROVE Bided(x, runs, interrupts)
    BY <1>3, <2>3, <2>5 DEF Bided, Bides, Going
  <2> QED BY <1>5, <1>7, <2>1, <2>3, <2>5
<1>8. ASSUME NEW p \in {Failed(r, n), Abandoned(r, n), <<Do("nap")>>}, Goes(t, p) PROVE Waits'
  <2>1. Milds(p)
    BY MildEnds, MildStatements, MildOne
  <2>2. \A i \in DOMAIN p : Loiters(p[i])
    <3>1. CASE p = <<Do("nap")>>
      <4>1. DOMAIN p = {1} /\ p[1] = Do("nap")
        BY <3>1
      <4> QED BY <4>1 DEF Loiters, Do
    <3>2. ASSUME NEW type, NEW outcome \in {"failed", "cancelled"}, p = <<Ev(r, type, n), Out(outcome)>>
          PROVE  \A i \in DOMAIN p : Loiters(p[i])
      <4>1. DOMAIN p = 1 .. 2 /\ p[1] = Ev(r, type, n) /\ p[2] = Out(outcome)
        BY <3>2
      <4>2. \A i \in DOMAIN p : i \in {1, 2}
        BY <4>1
      <4>3. Loiters(p[1]) /\ Loiters(p[2])
        BY <4>1 DEF Loiters, Ev, Out, Going
      <4> QED BY <4>2, <4>3
    <3> QED BY <3>1, <3>2 DEF Failed, Abandoned
  <2> QED BY <1>1, <1>8, <2>1, <2>2, MildGoes
<1>9. CASE \E p \in programs : Goes(t, p)
  BY <1>6, <1>8, <1>9 DEF programs
<1>10. CASE \E status : Goes(t, mirrors(status))
  BY <1>7, <1>10
<1> QED BY <1>1, <1>4, <1>9, <1>10

(* Nobody goes on once a run is over.                                      *)
Lingers(p) == Milds(p) /\ \A i \in DOMAIN p : Loiters(p[i])

LEMMA LingersPut == ASSUME NEW e, Mild(e), e.op \notin Going, NEW p, Lingers(p) PROVE Lingers(<<e>> \o p) /\ Lingers(<<e>>)
<1>1. Milds(<<e>> \o p) /\ Milds(<<e>>)
  BY MildPut, MildOne DEF Lingers
<1>2. PICK w : w = <<e>>
  OBVIOUS
<1>3. DOMAIN w = {1} /\ w[1] = e /\ Loiters(e)
  BY <1>2 DEF Loiters
<1>4. \A i \in DOMAIN (w \o p) : Loiters((w \o p)[i])
  BY <1>1, <1>2, <1>3, Pieces DEF Lingers, Milds
<1> QED BY <1>1, <1>2, <1>3, <1>4 DEF Lingers

LEMMA LingersEnds ==
  ASSUME NEW r
  PROVE  Lingers(Fails(r)) /\ Lingers(Cancels(r)) /\ Lingers(FailRunDuration(r))
<1>1. /\ \A type : Mild(Ev(r, type, 0)) /\ Ev(r, type, 0).op \notin Going
      /\ \A status \in Terminal : Mild(Set(r, status)) /\ Set(r, status).op \notin Going
      /\ Mild(Of("release", r)) /\ Of("release", r).op \notin Going
  BY DEF Mild, Ev, Set, Of, Going, Terminal, Waiting
<1>2. Lingers(<<>>)
  <2>1. <<>> \in Seq({}) /\ DOMAIN <<>> = {}
    BY Slots1
  <2> QED BY <2>1 DEF Lingers, Milds
<1>3. Lingers(<<Of("release", r)>>)
  BY <1>1, <1>2, LingersPut
<1>4. \A status \in Terminal : Lingers(Ends(r, status))
  BY <1>1, <1>3, LingersPut, Two DEF Ends
<1>5. Lingers(Fails(r)) /\ Lingers(Cancels(r))
  BY <1>1, <1>4, LingersPut DEF Fails, Cancels, Terminal
<1> QED BY <1>1, <1>5, LingersPut DEF FailRunDuration

LEMMA OutcomeWaits ==
  ASSUME Inv, Gates, Waits, NEW t \in Slots, Outcome(t)
  PROVE  Waits'
<1> DEFINE r == th[t].run
           n == th[t].at
           o == IF th[t].late THEN "late" ELSE First(t).outcome
<1>1. At(t, "out") /\ UNCHANGED <<interrupts, faults>> /\ "out" \in Going
  BY DEF Outcome, Going, Counters
<1>2. /\ th[t].kind = "exec" /\ DOMAIN th[t] = DOMAIN Idle
      /\ First(t).op = "out" /\ First(t) = th[t].todo[1] /\ 1 \in DOMAIN th[t].todo
      /\ r \in Runs /\ runs[r].status # "none" /\ n = runs[r].next /\ runs[r].flow \in DOMAIN Flow
  BY <1>1, ExecutorIs DEF Position
<1>3. First(t).outcome \in Verdicts
  BY <1>1, FirstFits DEF Fits
<1>4. \/ (\E p \in {FailRunDuration(r), Fails(r), Cancels(r)} : Goes(t, p)) /\ UNCHANGED runs
      \/ /\ o \in {"completed", "loopback"}
         /\ \E m : /\ Becomes(t, [th[t] EXCEPT !.at = m, !.todo = <<Do("next")>>])
                   /\ runs' = [runs EXCEPT ![r].next = m]
      \/ /\ o = "suspended"
         /\ Goes(t, <<Of("release", r)>>) /\ runs' = [runs EXCEPT ![r].status = WaitingFor(Kind(r, n)), ![r].next = n]
  BY <1>3 DEF Outcome, Verdicts
<1>5. o \in {"completed", "loopback", "suspended"} => First(t).outcome = o
  OBVIOUS
<1> HIDE DEF o
<1>6. DOMAIN runs = Runs /\ \A q \in Runs : DOMAIN runs[q] = RunFields
  BY RowsTyped
<1>7. ASSUME NEW p \in {FailRunDuration(r), Fails(r), Cancels(r)}, Goes(t, p), UNCHANGED runs PROVE Waits'
  <2>1. Milds(p) /\ \A i \in DOMAIN p : Loiters(p[i])
    BY LingersEnds DEF Lingers
  <2> QED BY <1>1, <1>7, <2>1, MildGoes
<1>8. ASSUME o \in {"completed", "loopback"}, NEW m,
             Becomes(t, [th[t] EXCEPT !.at = m, !.todo = <<Do("next")>>]), runs' = [runs EXCEPT ![r].next = m]
      PROVE  Waits'
  <2>1. PICK x : x = [th[t] EXCEPT !.at = m, !.todo = <<Do("next")>>] /\ Becomes(t, x)
    BY <1>8
  <2>2. x.kind = "exec" /\ x.run = r /\ x.todo = <<Do("next")>>
    BY <1>2, <2>1 DEF Idle
  <2>3. runs[r].status \notin Waiting
    <3>1. First(t).op = "out" /\ First(t).outcome \in {"completed", "loopback"}
      BY <1>2, <1>5, <1>8
    <3>2. ~Loiters(First(t))
      BY <3>1 DEF Loiters, Going
    <3> QED BY <1>1, <3>2, ExecutorWaits
  <2>4. \A q \in Runs : /\ runs'[q].status = runs[q].status /\ runs'[q].flow = runs[q].flow
                        /\ q # r => runs'[q] = runs[q]
    BY <1>6, <1>8 DEF RunFields
  <2>5. runs'[r].status \notin Waiting
    BY <1>2, <2>3, <2>4
  <2>6. Milds(x.todo)
    BY <2>2, MildStatements, MildOne
  <2>7. Bided(x, runs', interrupts') /\ ~Withdraws(x)
    BY <2>2, <2>5, <2>6, MildBides
  <2>8. \A q \in Runs : q = th[t].run => Asked(q)'
    BY <2>5 DEF Asked
  <2>9. Grown(runs, runs') /\ \A q \in Runs \ {th[t].run} : runs'[q] = runs[q]
    BY <2>4 DEF Grown
  <2> QED BY <1>1, <2>1, <2>7, <2>8, <2>9, GoesWaits
<1>9. ASSUME o = "suspended", Goes(t, <<Of("release", r)>>),
             runs' = [runs EXCEPT ![r].status = WaitingFor(Kind(r, n)), ![r].next = n]
      PROVE  Waits'
  <2>1. PICK x : x = [th[t] EXCEPT !.todo = <<Of("release", r)>>] /\ Becomes(t, x)
    BY <1>9 DEF Goes
  <2>2. x.kind = "exec" /\ x.run = r /\ x.todo = <<Of("release", r)>> /\ x.at = n
    BY <1>2, <2>1 DEF Idle
  <2>3. First(t).outcome = "suspended" /\ Bides(th[t], 1, runs, interrupts) /\ \A j \in DOMAIN th[t].todo : j = 1
    BY <1>1, <1>5, <1>9, ExecutorWaits
  <2>4. /\ On(runs, r, n) /\ interrupts[r][n].state = "open"
    BY <1>2, <2>3 DEF Bides
  <2>5. \A q \in Runs : /\ runs'[q].flow = runs[q].flow /\ runs'[q].next = runs[q].next
                        /\ runs[q].status # "none" => runs'[q].status # "none"
                        /\ q # r => runs'[q] = runs[q]
    <3>1. WaitingFor(Kind(r, n)) # "none"
      BY DEF WaitingFor
    <3> QED BY <1>2, <1>6, <1>9, <3>1 DEF RunFields
  <2>6. Milds(x.todo) /\ \A i \in DOMAIN x.todo : x.todo[i].op = "release"
    <3>1. PICK w : w = <<Of("release", r)>>
      OBVIOUS
    <3>2. DOMAIN w = {1} /\ w[1].op = "release" /\ Milds(w)
      BY <3>1, OneLong, MildStatements, MildOne DEF Of
    <3> QED BY <2>2, <3>1, <3>2
  <2>7. Bided(x, runs', interrupts') /\ ~Withdraws(x)
    BY <2>6 DEF Bided, Bides, Going, Withdraws
  <2>8. \A q \in Runs : q = th[t].run => Asked(q)'
    <3> SUFFICES ASSUME NEW q \in Runs, q = th[t].run PROVE Asked(q)'
      OBVIOUS
    <3>1. On(runs', q, runs'[q].next) /\ interrupts'[q][runs'[q].next].state = "open"
      BY <1>1, <1>2, <2>4, <2>5 DEF On
    <3> QED BY <3>1 DEF Asked
  <2>9. Grown(runs, runs') /\ \A q \in Runs \ {th[t].run} : runs'[q] = runs[q]
    BY <2>5 DEF Grown
  <2> QED BY <1>1, <2>1, <2>7, <2>8, <2>9, GoesWaits
<1> QED BY <1>4, <1>7, <1>8, <1>9

-----------------------------------------------------------------------------
(* Cancelling                                                              *)

(* What a cancellation does first: it withdraws what only runs that wait   *)
(* have asked, and ends those.                                             *)
Ousts(p) ==
  /\ \E S : p \in Seq(S)
  /\ \A i \in DOMAIN p :
       /\ Stops(p[i])
       /\ p[i].op = "invalidate" => /\ \E j \in DOMAIN p : j > i /\ p[j] = Set(p[i].run, "cancelled")
                                    /\ p[i].run \in Runs => runs[p[i].run].status \in Waiting

LEMMA BidedPut ==
  ASSUME NEW z, NEW p, Ousts(p), NEW x, Same(z, x), x.todo = p \o z.todo, \E S : z.todo \in Seq(S),
         NEW table, NEW rows, Bided(z, table, rows), ~Suspending(z)
  PROVE  /\ Bided(x, table, rows) /\ ~Suspending(x)
         /\ \A r : Mends(z, r) => Mends(x, r)
         /\ \A r \in Runs : WithdrawsOf(x, r) => WithdrawsOf(z, r) \/ runs[r].status \in Waiting
<1> DEFINE q == z.todo
           w == p \o q
           m == Len(p)
<1>1. /\ \A i \in DOMAIN w : (\E j \in DOMAIN p : i = j /\ w[i] = p[j]) \/ \E j \in DOMAIN q : i = m + j /\ w[i] = q[j]
      /\ \A j \in DOMAIN p : j \in DOMAIN w /\ w[j] = p[j]
      /\ \A j \in DOMAIN q : m + j \in DOMAIN w /\ w[m + j] = q[j]
      /\ m \in Nat /\ DOMAIN p = 1 .. m /\ Len(q) \in Nat /\ DOMAIN q = 1 .. Len(q)
  <2>1. (\E S : p \in Seq(S)) /\ (\E S : q \in Seq(S))
    BY DEF Ousts
  <2> HIDE DEF q
  <2> QED BY ONLY <2>1, Pieces, SMTT(30)
<1>2. x.kind = z.kind /\ x.run = z.run /\ x.at = z.at /\ x.todo = w
  BY DEF Same
<1>3. \A i \in DOMAIN p : /\ Stops(p[i])
                          /\ p[i].op = "invalidate" =>
                               /\ \E j \in DOMAIN p : j > i /\ p[j] = Set(p[i].run, "cancelled")
                               /\ p[i].run \in Runs => runs[p[i].run].status \in Waiting
  BY DEF Ousts
<1>4. \A i \in DOMAIN q : Bides(z, i, table, rows)
  BY DEF Bided
<1>5. \A i \in DOMAIN q : ~(q[i].op = "out" /\ q[i].outcome = "suspended")
  BY DEF Suspending
<1>6. \A i \in DOMAIN p : p[i].op \notin Going /\ p[i].op # "mint" /\ p[i].op # "advance"
                          /\ (p[i].op = "set" => p[i].status \notin Waiting)
  BY <1>3 DEF Stops, Going, Terminal, Waiting
<1>15. z.todo = q
  OBVIOUS
<1> HIDE DEF q, w, m
<1>7. ASSUME NEW i \in DOMAIN p PROVE Bides(x, i, table, rows)
  <2>1. i \in DOMAIN w /\ w[i] = p[i] /\ i \in 1 .. m
    BY <1>1
  <2>2. \A k \in 1 .. i - 1 : k \in DOMAIN p
    BY <1>1, <2>1
  <2>3. w[i].op = "invalidate" =>
          /\ \E j \in DOMAIN w : j > i /\ w[j] = Set(w[i].run, "cancelled")
          /\ \A k \in 1 .. i - 1 : Stops(w[k])
    <3> SUFFICES ASSUME w[i].op = "invalidate"
                 PROVE  /\ \E j \in DOMAIN w : j > i /\ w[j] = Set(w[i].run, "cancelled")
                        /\ \A k \in 1 .. i - 1 : Stops(w[k])
      OBVIOUS
    <3>1. PICK j \in DOMAIN p : j > i /\ p[j] = Set(p[i].run, "cancelled")
      BY <1>3, <2>1
    <3>2. j \in DOMAIN w /\ w[j] = p[j]
      BY <1>1
    <3>3. \A k \in 1 .. i - 1 : w[k] = p[k] /\ Stops(p[k])
      BY <1>1, <1>3, <2>2
    <3> QED BY <2>1, <3>1, <3>2, <3>3
  <2>4. w[i].op \notin Going /\ w[i].op # "out" /\ (w[i].op = "set" => w[i].status \notin Waiting)
    BY <1>6, <2>1 DEF Going
  <2> QED BY <1>2, <2>3, <2>4 DEF Bides
<1>8. ASSUME NEW k \in DOMAIN q PROVE Bides(x, m + k, table, rows)
  <2> DEFINE s == q[k]
             i == m + k
  <2>1. i \in DOMAIN w /\ w[i] = s /\ k \in Nat /\ i \in Nat /\ k \in 1 .. Len(q)
    BY <1>1
  <2>2. Bides(z, k, table, rows) /\ ~(s.op = "out" /\ s.outcome = "suspended")
    BY <1>4, <1>5
  <2>3. \A j \in DOMAIN w : w[j].op \in Going => \E l \in DOMAIN q : w[j] = q[l]
    BY <1>1, <1>6
  <2>4. s.op = "set" /\ s.status \in Waiting =>
          /\ x.kind = "exec" /\ s.run = x.run
          /\ On(table, x.run, x.at) /\ KindIn(table, x.run, x.at) = "sub"
          /\ \A j \in DOMAIN w : w[j].op \in Going => w[j].op = "nap"
    <3> SUFFICES ASSUME s.op = "set", s.status \in Waiting
                 PROVE  /\ x.kind = "exec" /\ s.run = x.run
                        /\ On(table, x.run, x.at) /\ KindIn(table, x.run, x.at) = "sub"
                        /\ \A j \in DOMAIN w : w[j].op \in Going => w[j].op = "nap"
      OBVIOUS
    <3>1. /\ z.kind = "exec" /\ s.run = z.run
          /\ On(table, z.run, z.at) /\ KindIn(table, z.run, z.at) = "sub"
          /\ \A j \in DOMAIN q : q[j].op \in Going => q[j].op = "nap"
      BY <1>15, <2>2 DEF Bides
    <3> HIDE DEF s
    <3> QED BY <1>2, <2>3, <3>1
  <2>5. s.op = "invalidate" =>
          /\ \E j \in DOMAIN w : j > i /\ w[j] = Set(s.run, "cancelled")
          /\ \A j \in 1 .. i - 1 : Stops(w[j])
    <3> SUFFICES ASSUME s.op = "invalidate"
                 PROVE  /\ \E j \in DOMAIN w : j > i /\ w[j] = Set(s.run, "cancelled")
                        /\ \A j \in 1 .. i - 1 : Stops(w[j])
      OBVIOUS
    <3>1. PICK j \in DOMAIN q : j > k /\ q[j] = Set(s.run, "cancelled")
      BY <1>15, <2>2 DEF Bides
    <3>2. \A l \in 1 .. k - 1 : Stops(q[l])
      BY <1>15, <2>2 DEF Bides
    <3>3. m + j \in DOMAIN w /\ w[m + j] = q[j] /\ m + j > i
      BY <1>1, <2>1, <3>1
    <3>4. ASSUME NEW l \in 1 .. i - 1 PROVE Stops(w[l])
      <4>1. CASE l <= m
        <5>1. l \in DOMAIN p
          BY <1>1, <3>4, <4>1
        <5> QED BY <1>1, <1>3, <5>1
      <4>2. CASE l > m
        <5>1. l - m \in 1 .. k - 1 /\ l - m \in DOMAIN q /\ m + (l - m) = l
          BY <1>1, <2>1, <3>4, <4>2
        <5>2. w[l] = q[l - m]
          BY <1>1, <5>1
        <5> QED BY <3>2, <5>1, <5>2
      <4> QED BY <1>1, <2>1, <3>4, <4>1, <4>2
    <3> QED BY <3>1, <3>3, <3>4
  <2>6. s.op \in Going /\ x.kind = "exec" /\ table[x.run].status \in Waiting =>
          \/ \E j \in DOMAIN w : w[j] = Set(x.run, "running")
          \/ /\ KindIn(table, x.run, x.at) = "sub"
             /\ s.op \in {"poll", "nap"} \/ (s.op = "out" /\ s.outcome \in {"failed", "cancelled"})
    <3>1. s.op \in Going /\ z.kind = "exec" /\ table[z.run].status \in Waiting =>
            \/ \E j \in DOMAIN q : q[j] = Set(z.run, "running")
            \/ /\ KindIn(table, z.run, z.at) = "sub"
               /\ s.op \in {"poll", "nap"} \/ (s.op = "out" /\ s.outcome \in {"failed", "cancelled"})
      BY <1>15, <2>2 DEF Bides
    <3> HIDE DEF s
    <3> QED BY <1>1, <1>2, <3>1
  <2> HIDE DEF s
  <2> QED BY <1>2, <2>1, <2>2, <2>4, <2>5, <2>6 DEF Bides
<1>9. \A i \in DOMAIN w : Bides(x, i, table, rows)
  BY <1>1, <1>7, <1>8
<1>10. Bided(x, table, rows)
  BY <1>2, <1>9 DEF Bided
<1>11. ~Suspending(x)
  BY <1>1, <1>2, <1>5, <1>6 DEF Suspending, Going
<1>12. \A r : Mends(z, r) => Mends(x, r)
  BY <1>1, <1>2, <1>15 DEF Mends
<1>13. \A r \in Runs : WithdrawsOf(x, r) => WithdrawsOf(z, r) \/ runs[r].status \in Waiting
  BY <1>1, <1>2, <1>3, <1>15 DEF WithdrawsOf
<1> QED BY <1>10, <1>11, <1>12, <1>13

LEMMA OustsBoth == ASSUME NEW p, Ousts(p), NEW q, Ousts(q) PROVE Ousts(p \o q)
<1> DEFINE w == p \o q
           m == Len(p)
<1>1. /\ \E S : w \in Seq(S)
      /\ \A i \in DOMAIN w : (\E j \in DOMAIN p : i = j /\ w[i] = p[j]) \/ \E j \in DOMAIN q : i = m + j /\ w[i] = q[j]
      /\ \A j \in DOMAIN p : j \in DOMAIN w /\ w[j] = p[j]
      /\ \A j \in DOMAIN q : m + j \in DOMAIN w /\ w[m + j] = q[j]
      /\ m \in Nat /\ DOMAIN p = 1 .. m /\ Len(q) \in Nat /\ DOMAIN q = 1 .. Len(q)
  BY Pieces DEF Ousts
<1> HIDE DEF w, m
<1>2. ASSUME NEW i \in DOMAIN w
      PROVE  /\ Stops(w[i])
             /\ w[i].op = "invalidate" => /\ \E j \in DOMAIN w : j > i /\ w[j] = Set(w[i].run, "cancelled")
                                          /\ w[i].run \in Runs => runs[w[i].run].status \in Waiting
  <2>1. ASSUME i \in DOMAIN p, w[i] = p[i], w[i].op = "invalidate"
        PROVE  \E j \in DOMAIN w : j > i /\ w[j] = Set(w[i].run, "cancelled")
    <3>1. PICK j \in DOMAIN p : j > i /\ p[j] = Set(p[i].run, "cancelled")
      BY <2>1 DEF Ousts
    <3> QED BY <1>1, <2>1, <3>1
  <2>2. ASSUME NEW k \in DOMAIN q, i = m + k, w[i] = q[k], w[i].op = "invalidate"
        PROVE  \E j \in DOMAIN w : j > i /\ w[j] = Set(w[i].run, "cancelled")
    <3>1. PICK j \in DOMAIN q : j > k /\ q[j] = Set(q[k].run, "cancelled")
      BY <2>2 DEF Ousts
    <3>2. m + j \in DOMAIN w /\ w[m + j] = q[j] /\ m + j > i
      BY <1>1, <2>2, <3>1
    <3> QED BY <2>2, <3>1, <3>2
  <2> QED BY <1>1, <2>1, <2>2 DEF Ousts
<1>3. Ousts(w)
  BY <1>1, <1>2 DEF Ousts
<1> QED BY <1>3 DEF w

LEMMA OustsNone == Ousts(<<>>)
<1>1. <<>> \in Seq({}) /\ DOMAIN <<>> = {}
  BY Slots1
<1> QED BY <1>1 DEF Ousts

LEMMA OustsOne == ASSUME NEW e, Stops(e), e.op # "invalidate" PROVE Ousts(<<e>>)
<1>1. PICK p : p = <<e>>
  OBVIOUS
<1>2. (\E S : p \in Seq(S)) /\ DOMAIN p = {1} /\ p[1] = e
  BY <1>1, OneLong
<1>3. Ousts(p)
  BY <1>2 DEF Ousts
<1> QED BY <1>1, <1>3

LEMMA CancelledOusts == ASSUME NEW r PROVE Ousts(Cancelled(r))
<1>1. CASE runs[r].status \in Waiting
  <2>0. PICK tail : tail = <<Set(r, "cancelled"), Of("release", r)>>
    OBVIOUS
  <2>1. Cancelled(r) = <<Of("invalidate", r)>> \o (<<Ev(r, "run.cancelled", 0)>> \o tail)
    BY <1>1, <2>0 DEF Cancelled, EndWaiting, Cancels, Ends
  <2>2. (\E S : tail \in Seq(S)) /\ DOMAIN tail = 1 .. 2
        /\ tail[1] = Set(r, "cancelled") /\ tail[2] = Of("release", r)
    <3>1. PICK a : a = Set(r, "cancelled")
      OBVIOUS
    <3>2. PICK b : b = Of("release", r)
      OBVIOUS
    <3>3. tail = <<a, b>>
      BY <2>0, <3>1, <3>2
    <3>4. (\E S : tail \in Seq(S)) /\ DOMAIN tail = 1 .. 2 /\ tail[1] = a /\ tail[2] = b
      BY ONLY <3>3, TwoLong
    <3> QED BY <3>1, <3>2, <3>4
  <2>3. PICK q : q = <<Ev(r, "run.cancelled", 0)>> \o tail
    OBVIOUS
  <2>4. /\ \E S : q \in Seq(S)
        /\ Len(tail) = 2 /\ Len(q) = 3 /\ DOMAIN q = 1 .. 3 /\ q[1] = Ev(r, "run.cancelled", 0)
        /\ q[2] = Set(r, "cancelled") /\ q[3] = Of("release", r)
    <3>1. /\ \E S : q \in Seq(S)
          /\ Len(tail) \in Nat /\ DOMAIN tail = 1 .. Len(tail) /\ Len(q) = Len(tail) + 1 /\ DOMAIN q = 1 .. Len(tail) + 1
          /\ q[1] = Ev(r, "run.cancelled", 0) /\ \A i \in 1 .. Len(tail) : q[i + 1] = tail[i]
      BY <2>2, <2>3, Put
    <3>2. Len(tail) = 2
      BY <2>2, <3>1
    <3>3. q[1 + 1] = tail[1] /\ q[2 + 1] = tail[2]
      BY <3>1, <3>2
    <3> QED BY <2>2, <3>1, <3>2, <3>3
  <2>5. PICK w : w = <<Of("invalidate", r)>> \o q
    OBVIOUS
  <2>6. /\ \E S : w \in Seq(S)
        /\ DOMAIN w = 1 .. 4 /\ w[1] = Of("invalidate", r) /\ w[2] = Ev(r, "run.cancelled", 0)
        /\ w[3] = Set(r, "cancelled") /\ w[4] = Of("release", r)
    <3>0. \E S : q \in Seq(S)
      BY <2>4
    <3>1. /\ \E S : w \in Seq(S)
          /\ DOMAIN w = 1 .. Len(q) + 1 /\ w[1] = Of("invalidate", r) /\ \A i \in 1 .. Len(q) : w[i + 1] = q[i]
      BY ONLY <3>0, <2>5, Put
    <3>2. w[1 + 1] = q[1] /\ w[2 + 1] = q[2] /\ w[3 + 1] = q[3]
      BY <2>4, <3>1
    <3> QED BY <2>4, <3>1, <3>2
  <2>7. \A i \in DOMAIN w : i \in {1, 2, 3, 4}
    BY <2>6
  <2>8. Stops(w[1]) /\ Stops(w[2]) /\ Stops(w[3]) /\ Stops(w[4])
    BY <2>6 DEF Stops, Of, Ev, Set, Terminal
  <2>9. w[1].run = r /\ w[2].op # "invalidate" /\ w[3].op # "invalidate" /\ w[4].op # "invalidate"
    BY <2>6 DEF Of, Ev, Set
  <2>10. 3 \in DOMAIN w /\ 3 > 1
    BY <2>6
  <2>11. Ousts(w)
    BY <1>1, <2>6, <2>7, <2>8, <2>9, <2>10 DEF Ousts
  <2> QED BY <2>1, <2>3, <2>5, <2>11
<1>2. CASE runs[r].status \notin Waiting
  <2>1. Ousts(<<Of("request", r)>>) /\ Ousts(<<Of("abort", r)>>)
    BY OustsOne DEF Of, Stops
  <2>2. Ousts(<<Of("request", r), Of("abort", r)>>)
    BY <2>1, OustsBoth, Two
  <2> QED BY <1>2, <2>2 DEF Cancelled, Ask
<1> QED BY <1>1, <1>2

(* A cancellation begins.                                                  *)
LEMMA CancelsWaits ==
  ASSUME Inv, Gates, Waits, NEW t \in Slots, NEW op \in {"cancel", "cascade"}, At(t, op), NEW p, Then(t, p),
         Ousts(p), UNCHANGED <<runs, interrupts, faults>>
  PROVE  Waits'
<1>1. PICK x : x = [th[t] EXCEPT !.todo = p \o Tail(th[t].todo)]
  OBVIOUS
<1>2. PICK z : z = [th[t] EXCEPT !.todo = Tail(th[t].todo)]
  OBVIOUS
<1>3. /\ Current(t) /\ th[t].todo # <<>> /\ Program(th[t]) /\ First(t).op = op /\ First(t) = th[t].todo[1]
      /\ 1 \in DOMAIN th[t].todo /\ DOMAIN th[t].todo = 1 .. Len(th[t].todo) /\ Fits(th[t], 1)
  BY FirstFits
<1>4. Becomes(t, x)
  BY <1>1 DEF Then, Goes, Rest
<1>5. /\ Same(th[t], z) /\ z.todo = Tail(th[t].todo)
      /\ Same(th[t], x) /\ x.todo = p \o z.todo /\ Same(z, x)
  <2>1. DOMAIN th[t] = DOMAIN Idle
    BY <1>3 DEF Program
  <2> QED BY <1>1, <1>2, <2>1, SameRetold DEF Same
<1>6. \E S : z.todo \in Seq(S)
  <2>1. PICK S : th[t].todo \in Seq(S)
    BY <1>3 DEF Program
  <2> QED BY <1>3, <1>5, <2>1, Slots1
<1>7. ~Suspending(th[t])
  <2> SUFFICES ASSUME Suspending(th[t]) PROVE FALSE
    OBVIOUS
  <2>1. th[t].kind = "exec" /\ \A j \in DOMAIN th[t].todo : th[t].todo[j].op \notin {"set", "cascade", "invalidate"}
    BY SuspendsWhere
  <2> QED BY <1>3, <2>1 DEF Fits
<1>8. Bided(z, runs, interrupts)
  <2>1. Bided(th[t], runs, interrupts) /\ (th[t].kind = "exec" => Made(runs, th[t].run))
    BY DEF Waits, Gates, Placed
  <2>2. Grown(runs, runs)
    BY DEF Grown
  <2>3. th[t].todo[1] # Set(th[t].run, "running") /\ th[t].todo[1].op # "mint"
    BY <1>3 DEF Set
  <2> QED BY <1>3, <1>5, <1>7, <2>1, <2>2, <2>3, BidedRest
<1>9. /\ \A r : Mends(th[t], r) => Mends(z, r)
      /\ \A r : WithdrawsOf(z, r) => WithdrawsOf(th[t], r)
      /\ ~Suspending(z)
  BY <1>3, <1>5, <1>7, RestMends
<1>10. /\ Bided(x, runs, interrupts) /\ ~Suspending(x)
       /\ \A r : Mends(th[t], r) => Mends(x, r)
       /\ \A r \in Runs : WithdrawsOf(x, r) => WithdrawsOf(th[t], r) \/ runs[r].status \in Waiting
  BY <1>5, <1>6, <1>8, <1>9, BidedPut
<1>11. /\ queue \in Seq(Slots) /\ DOMAIN th = Slots
       /\ th' = [th EXCEPT ![t] = IF x.todo = <<>> THEN Idle ELSE x] /\ queue' = After(x)
  BY <1>4 DEF Becomes, Inv, Typed
<1>12. DOMAIN th' = Slots /\ th'[t] = (IF x.todo = <<>> THEN Idle ELSE x) /\ \A u \in Slots \ {t} : th'[u] = th[u]
  BY <1>11
<1>13. \A u \in Slots \ {t} : (Same(th[u], th'[u]) /\ th'[u].todo = th[u].todo) \/ Novel(th'[u])
  BY <1>12 DEF Same
<1>14. <<>> \in Seq(Slots) /\ queue' = After(x) \o <<>>
  <2>1. After(x) \in Seq(Slots)
    <3>1. queue # <<>>
      BY <1>3 DEF Current
    <3>2. Tail(queue) \in Seq(Slots) /\ Head(queue) \in Slots
      BY <1>11, <3>1
    <3> QED BY <1>11, <3>2 DEF After
  <2> QED BY <1>11, <2>1, Joined
<1>15. Withdraws(x) => Current(t)'
  <2>1. \E S : x.todo \in Seq(S)
    <3>1. PICK q : q = z.todo
      OBVIOUS
    <3>2. (\E S : p \in Seq(S)) /\ \E S : q \in Seq(S)
      BY <1>6, <3>1 DEF Ousts
    <3>3. \E S : p \o q \in Seq(S)
      BY ONLY <3>2, Pieces
    <3> QED BY <1>5, <3>1, <3>3
  <2>2. Withdraws(x) => x.todo # <<>> /\ x.todo[1].op \notin {"body", "out", "sleep", "nap", "launch"}
    BY <1>10, <2>1, HeadStops
  <2>3. x.todo # <<>> => Head(x.todo) = x.todo[1]
    BY <2>1, Slots1
  <2> QED BY <1>3, <1>11, <1>14, <2>2, <2>3, QueueKeeps
<1>16. \A r \in Runs : Asked(r)'
  <2> SUFFICES ASSUME NEW r \in Runs PROVE Asked(r)'
    OBVIOUS
  <2>1. \A u \in Slots : Mends(th[u], r) => \E v \in Slots : Mends(th'[v], r)
    <3>1. Mends(x, r) => x.todo # <<>>
      <4>1. DOMAIN <<>> = {}
        OBVIOUS
      <4> QED BY <4>1 DEF Mends
    <3> QED BY <1>10, <1>12, <3>1
  <2> QED BY <2>1, AskedStill DEF Waits
<1>17. Grown(runs, runs') /\ Bided(x, runs', interrupts')
  BY <1>10 DEF Grown
<1>18. /\ \A u \in Slots \ {t} : th[u].kind = "exec" =>
            (runs'[th[u].run].status \in Waiting => runs[th[u].run].status \in Waiting)
       /\ \A u \in Slots \ {t} : Suspending(th[u]) /\ interrupts[th[u].run][th[u].at].state = "open" =>
            interrupts'[th[u].run][th[u].at].state = "open"
  OBVIOUS
<1> QED BY <1>3, <1>10, <1>12, <1>13, <1>15, <1>16, <1>17, <1>18, TurnWaits

LEMMA CancelWaits ==
  ASSUME Inv, Gates, Waits, NEW t \in Slots, Cancel(t) \/ CancelRunInternal(t)
  PROVE  Waits'
<1>1. CASE CancelRunInternal(t)
  <2>1. /\ At(t, "cascade") /\ UNCHANGED <<runs, interrupts, faults>>
        /\ \E p \in {<<>>, Cancelled(First(t).run)} : Then(t, p)
    BY <1>1 DEF CancelRunInternal, Tables, Counters
  <2> QED BY <2>1, OustsNone, CancelledOusts, CancelsWaits
<1>2. CASE Cancel(t)
  <2> DEFINE r == th[t].run
             S == {c \in Kids : runs[c].parent.run = r /\ runs[c].status \notin Terminal \cup {"none"}}
             live == SetToSeq(S)
             each == [i \in DOMAIN live |-> Of("cascade", live[i])]
  <2>1. /\ At(t, "cancel") /\ UNCHANGED <<runs, interrupts, faults>>
        /\ \E p \in {<<>>, each \o Cancelled(r)} : Then(t, p)
    BY <1>2 DEF Cancel, Tables, Counters
  <2>2. live \in Seq(S)
    <3>1. IsFiniteSet(S)
      BY FiniteRuns, FS_Subset
    <3> HIDE DEF S
    <3> QED BY <3>1, Listed
  <2> HIDE DEF S, live
  <2>3. Len(live) \in Nat /\ DOMAIN live = 1 .. Len(live)
    BY <2>2
  <2>4. \E T : each \in Seq(T)
    <3> DEFINE T == {Of("cascade", c) : c \in S}
    <3>1. each \in [1 .. Len(live) -> T]
      BY <2>2, <2>3
    <3> HIDE DEF each, T
    <3>2. each \in Seq(T)
      BY <2>3, <3>1
    <3> QED BY <3>2
  <2>5. Ousts(each)
    <3>1. \A i \in DOMAIN each : each[i] = Of("cascade", live[i])
      OBVIOUS
    <3> HIDE DEF each
    <3>2. \A i \in DOMAIN each : each[i].op = "cascade"
      BY <3>1 DEF Of
    <3> QED BY <2>4, <3>2 DEF Ousts, Stops
  <2> HIDE DEF each
  <2>6. Ousts(each \o Cancelled(r))
    BY <2>5, CancelledOusts, OustsBoth
  <2> QED BY <2>1, <2>6, OustsNone, CancelsWaits
<1> QED BY <1>1, <1>2

-----------------------------------------------------------------------------
(* What goes on with a run, or ends it, and opens no interrupt.            *)
Cures(p, r) ==
  /\ Milds(p)
  /\ \E i \in DOMAIN p : \/ p[i].op = "set" /\ p[i].run = r /\ p[i].status \notin Waiting
                         \/ p[i].op = "advance"

LEMMA CuresAfter == ASSUME NEW r, NEW p, Milds(p), NEW q, Cures(q, r) PROVE Cures(p \o q, r)
<1>1. Milds(p \o q)
  BY MildBoth DEF Cures
<1>2. PICK i \in DOMAIN q : \/ q[i].op = "set" /\ q[i].run = r /\ q[i].status \notin Waiting
                            \/ q[i].op = "advance"
  BY DEF Cures
<1>3. Len(p) + i \in DOMAIN (p \o q) /\ (p \o q)[Len(p) + i] = q[i]
  BY Pieces DEF Cures, Milds
<1> QED BY <1>1, <1>2, <1>3 DEF Cures

LEMMA CuresAhead == ASSUME NEW r, NEW p, Cures(p, r), NEW q, Milds(q) PROVE Cures(p \o q, r)
<1>1. Milds(p \o q)
  BY MildBoth DEF Cures
<1>2. PICK i \in DOMAIN p : \/ p[i].op = "set" /\ p[i].run = r /\ p[i].status \notin Waiting
                            \/ p[i].op = "advance"
  BY DEF Cures
<1>3. i \in DOMAIN (p \o q) /\ (p \o q)[i] = p[i]
  BY Pieces DEF Cures, Milds
<1> QED BY <1>1, <1>2, <1>3 DEF Cures

LEMMA CuresOne ==
  ASSUME NEW r, NEW e, Mild(e), (e.op = "set" /\ e.run = r) \/ e.op = "advance"
  PROVE  Cures(<<e>>, r)
<1>1. PICK p : p = <<e>>
  OBVIOUS
<1>2. DOMAIN p = {1} /\ p[1] = e
  BY <1>1, OneLong
<1>3. Milds(p)
  BY <1>1, MildOne
<1>4. Cures(p, r)
  BY <1>2, <1>3 DEF Cures, Mild
<1> QED BY <1>1, <1>4

(* A refined, an accepted, a rejected gate; an answer.                     *)
LEMMA AnswersCure ==
  ASSUME NEW r, NEW n
  PROVE  /\ Cures(Recorded(r, n) \o <<Set(r, "running"), Of("launch", r)>>, r)
         /\ Cures(Resumes(r, n), r) /\ Cures(Recorded(r, n) \o Resumes(r, n), r)
         /\ Cures(Recorded(r, n) \o <<Ev(r, "node.completed", n)>> \o Fails(r), r)
         /\ Milds(<<Ev(r, "interrupt.vote", n)>>) /\ Milds(<<>>)
<1>1. /\ \A type : Milds(<<Ev(r, type, n)>>)
      /\ Milds(<<Of("launch", r)>>) /\ Milds(<<Of("release", r)>>) /\ Milds(Recorded(r, n))
      /\ Milds(<<Ev(r, "run.failed", 0)>>)
  BY MildStatements, MildOne DEF Recorded
<1>2. /\ Cures(<<Set(r, "running")>>, r) /\ Cures(<<Set(r, "failed")>>, r) /\ Cures(<<Do("advance")>>, r)
  <2>1. "running" \notin Waiting /\ "failed" \notin Waiting
    BY DEF Waiting
  <2>2. Mild(Set(r, "running")) /\ Mild(Set(r, "failed")) /\ Mild(Do("advance"))
    BY <2>1, MildStatements
  <2>3. Set(r, "running").op = "set" /\ Set(r, "running").run = r
        /\ Set(r, "failed").op = "set" /\ Set(r, "failed").run = r /\ Do("advance").op = "advance"
    BY DEF Set, Do
  <2> QED BY <2>2, <2>3, CuresOne
<1>3. Cures(<<Set(r, "running"), Of("launch", r)>>, r)
  BY <1>1, <1>2, CuresAhead, Two
<1>4. Cures(Ends(r, "failed"), r)
  BY <1>1, <1>2, CuresAhead, Two DEF Ends
<1>5. Cures(Fails(r), r)
  BY <1>1, <1>4, CuresAfter DEF Fails
<1>6. Cures(Resumes(r, n), r)
  <2> DEFINE a == Ev(r, "node.resumed", n)
             b == Ev(r, "node.completed", n)
             c == Do("advance")
             d == Of("launch", r)
  <2>1. Milds(<<a>>) /\ Milds(<<b>>) /\ Cures(<<c>>, r) /\ Milds(<<d>>)
    BY <1>1, <1>2
  <2>2. Resumes(r, n) = <<a, b, c, d>>
    BY DEF Resumes
  <2> HIDE DEF a, b, c, d
  <2>3. <<a, b, c, d>> = <<a, b>> \o <<c, d>>
    OBVIOUS
  <2>4. Cures(<<c, d>>, r)
    BY <2>1, CuresAhead, Two
  <2>5. Milds(<<a, b>>)
    BY <2>1, MildBoth, Two
  <2> QED BY <2>2, <2>3, <2>4, <2>5, CuresAfter
<1>7. Milds(<<>>)
  <2>1. <<>> \in Seq({}) /\ DOMAIN <<>> = {}
    BY Slots1
  <2> QED BY <2>1 DEF Milds
<1>8. Milds(Recorded(r, n) \o <<Ev(r, "node.completed", n)>>)
  BY <1>1, MildBoth
<1> QED BY <1>1, <1>3, <1>5, <1>6, <1>7, <1>8, CuresAfter

(* While somebody answers, nobody else is on the way to change anything.   *)
LEMMA AnsweringWaits ==
  ASSUME Inv, Gates, Waits, NEW t \in Slots, NEW op \in Answers, At(t, op), NEW p, Milds(p), Goes(t, p),
         UNCHANGED <<runs, faults>>,
         \A q \in Runs : \A m : q # th[t].run \/ m # th[t].node => interrupts'[q][m] = interrupts[q][m],
         \/ interrupts' = interrupts
         \/ Cures(p, th[t].run)
         \/ interrupts'[th[t].run][th[t].node].state \in {"open", "expired"}
  PROVE  Waits'
<1>1. Current(t) /\ th[t].todo # <<>> /\ th[t].kind = "call" /\ DOMAIN th[t] = DOMAIN Idle /\ queue = <<t>>
  BY AnswererIs
<1>2. PICK x : x = [th[t] EXCEPT !.todo = p]
  OBVIOUS
<1>3. Becomes(t, x)
  BY <1>2 DEF Goes
<1>4. Same(th[t], x) /\ x.todo = p
  BY <1>1, <1>2, SameRetold
<1>5. DOMAIN th' = Slots /\ th'[t] = (IF x.todo = <<>> THEN Idle ELSE x) /\ \A u \in Slots \ {t} : th'[u] = th[u]
  BY <1>3 DEF Becomes, Inv, Typed
<1>6. x.kind = "call" /\ x.run = th[t].run
  BY <1>1, <1>4 DEF Same
<1>7. Bided(x, runs', interrupts') /\ ~Withdraws(x) /\ ~Suspending(x) /\ \A r : ~WithdrawsOf(x, r)
  BY <1>4, <1>6, MildBides
<1>8. ASSUME NEW u \in Slots \ {t} PROVE ~Suspending(th[u]) /\ \A r : ~Mends(th[u], r)
  <2>1. ~Queued(u)
    <3> DEFINE q == <<t>>
    <3>1. DOMAIN q = {1} /\ q[1] = t /\ queue = q
      BY <1>1
    <3> HIDE DEF q
    <3> QED BY <3>1 DEF Queued, Within
  <2>2. \A i \in DOMAIN th[u].todo : th[u].todo[i].op \notin {"out", "set", "advance"}
    BY <2>1, Behind
  <2> QED BY <2>2 DEF Suspending, Mends
<1>9. \A r : ~Mends(th[t], r)
  <2>1. Fits(th[t], 1) /\ First(t).op = op /\ First(t) = th[t].todo[1] /\ DOMAIN th[t].todo = 1 .. Len(th[t].todo)
    BY FirstFits
  <2>2. Len(th[t].todo) = 1
    BY <2>1 DEF Fits, Answers
  <2>3. \A i \in DOMAIN th[t].todo : th[t].todo[i].op = op
    BY <2>1, <2>2
  <2> QED BY <2>3 DEF Mends, Answers
<1>10. ASSUME NEW r \in Runs PROVE Asked(r)'
  <2>1. Asked(r) /\ \A u \in Slots : ~Mends(th[u], r)
    BY <1>8, <1>9 DEF Waits
  <2>2. runs' = runs /\ faults' = faults
    OBVIOUS
  <2>3. PICK m : m = runs[r].next
    OBVIOUS
  <2>4. CASE interrupts'[r][m] = interrupts[r][m]
    BY <2>1, <2>2, <2>3, <2>4 DEF Asked, On, Kind
  <2>5. CASE interrupts'[r][m].state \in {"open", "expired"}
    BY <2>1, <2>2, <2>3, <2>5 DEF Asked, On, Kind
  <2>6. CASE Cures(p, th[t].run) /\ r = th[t].run
    <3>1. Mends(x, r) /\ x.todo # <<>>
      <4>1. PICK i \in DOMAIN p : \/ p[i].op = "set" /\ p[i].run = r /\ p[i].status \notin Waiting
                                  \/ p[i].op = "advance"
        BY <2>6 DEF Cures
      <4>2. DOMAIN <<>> = {}
        BY Slots1
      <4>3. x.todo # <<>>
        BY <1>4, <4>1, <4>2
      <4> QED BY <1>4, <1>6, <2>6, <4>1, <4>3 DEF Mends
    <3>2. \E u \in Slots : Mends(th'[u], r)
      BY <1>5, <3>1
    <3> QED BY <2>1, <2>2, <3>2 DEF Asked, On, Kind
  <2> QED BY <2>3, <2>4, <2>5, <2>6
<1>11. Grown(runs, runs')
  BY DEF Grown
<1>12. \A u \in Slots \ {t} : (Same(th[u], th'[u]) /\ th'[u].todo = th[u].todo) \/ Novel(th'[u])
  BY <1>5 DEF Same
<1>13. /\ \A u \in Slots \ {t} : th[u].kind = "exec" =>
            (runs'[th[u].run].status \in Waiting => runs[th[u].run].status \in Waiting)
       /\ \A u \in Slots \ {t} : Suspending(th[u]) /\ interrupts[th[u].run][th[u].at].state = "open" =>
            interrupts'[th[u].run][th[u].at].state = "open"
       /\ Withdraws(x) => Current(t)'
       /\ Suspending(x) => ~Withdraws(x)
       /\ \A r \in Runs : WithdrawsOf(x, r) => WithdrawsOf(th[t], r) \/ runs[r].status \in Waiting
  BY <1>7, <1>8
<1> QED BY <1>1, <1>5, <1>7, <1>10, <1>11, <1>12, <1>13, TurnWaits

LEMMA ResolveApprovalWaits ==
  ASSUME Inv, Gates, Waits, NEW t \in Slots, ResolveApproval(t)
  PROVE  Waits'
<1> DEFINE r == th[t].run
           n == th[t].node
           votes == LastOfEach(interrupts[r][n].votes, th[t].ballot)
           reject == Recorded(r, n) \o <<Ev(r, "node.completed", n)>> \o Fails(r)
           again == Recorded(r, n) \o <<Set(r, "running"), Of("launch", r)>>
           accept == Recorded(r, n) \o Resumes(r, n)
           voting == <<Ev(r, "interrupt.vote", n)>>
           Marks(state) == interrupts' = [interrupts EXCEPT ![r][n] = [state |-> state, votes |-> votes]]
<1>1. /\ At(t, "tally") /\ "tally" \in Answers /\ UNCHANGED <<runs, faults>>
      /\ \/ Goes(t, <<>>) /\ interrupts' = interrupts
         \/ Open(r, n) /\ Marks("refined") /\ Goes(t, again)
         \/ Open(r, n) /\ Marks("accepted") /\ Goes(t, accept)
         \/ Open(r, n) /\ Marks("rejected") /\ Goes(t, reject)
         \/ Open(r, n) /\ Marks("open") /\ Goes(t, voting)
  BY DEF ResolveApproval, Answers, Counters
<1>2. r \in Runs /\ (Open(r, n) => n \in Nodes)
  BY <1>1, AnswererIs
<1>3. DOMAIN interrupts = Runs /\ \A q \in Runs : DOMAIN interrupts[q] = Nodes
  BY DEF Gates, Stored
<1>4. Cures(again, r) /\ Cures(accept, r) /\ Cures(reject, r) /\ Milds(voting) /\ Milds(<<>>)
  BY AnswersCure
<1>5. Milds(again) /\ Milds(accept) /\ Milds(reject)
  BY <1>4 DEF Cures
<1> HIDE DEF again, accept, reject, voting, votes
<1>6. ASSUME NEW state, Marks(state), Open(r, n)
      PROVE  /\ interrupts'[r][n].state = state
             /\ \A q \in Runs : \A m : q # r \/ m # n => interrupts'[q][m] = interrupts[q][m]
  <2>1. interrupts'[r][n] = [state |-> state, votes |-> votes]
    BY <1>2, <1>3, <1>6
  <2>2. ASSUME NEW q \in Runs, NEW m, q # r \/ m # n PROVE interrupts'[q][m] = interrupts[q][m]
    BY <1>2, <1>3, <1>6, <2>2
  <2> QED BY <2>1, <2>2
<1> HIDE DEF Marks
<1>7. PICK p : /\ Goes(t, p) /\ Milds(p)
               /\ \A q \in Runs : \A m : q # r \/ m # n => interrupts'[q][m] = interrupts[q][m]
               /\ interrupts' = interrupts \/ Cures(p, r) \/ interrupts'[r][n].state \in {"open", "expired"}
  BY <1>1, <1>4, <1>5, <1>6
<1> QED BY <1>1, <1>7, AnsweringWaits

LEMMA ResolveAnswerWaits ==
  ASSUME Inv, Gates, Waits, NEW t \in Slots, ResolveClarification(t) \/ ResolveExternalEvent(t)
  PROVE  Waits'
<1> DEFINE r == th[t].run
           n == th[t].node
           Marks(state) == interrupts' = [interrupts EXCEPT ![r][n].state = state]
<1>1. /\ At(t, "answer") /\ "answer" \in Answers /\ UNCHANGED <<runs, faults>>
      /\ \/ Goes(t, <<>>) /\ interrupts' = interrupts
         \/ Open(r, n) /\ Marks("expired") /\ Goes(t, <<>>)
         \/ Open(r, n) /\ Marks("resolved") /\ Goes(t, Resumes(r, n))
         \/ Open(r, n) /\ Marks("resolved") /\ Goes(t, Recorded(r, n) \o Resumes(r, n))
  BY DEF ResolveClarification, ResolveExternalEvent, Answers, Counters
<1>2. r \in Runs /\ (Open(r, n) => n \in Nodes)
  BY <1>1, AnswererIs
<1>3. /\ DOMAIN interrupts = Runs /\ \A q \in Runs : DOMAIN interrupts[q] = Nodes
      /\ \A q \in Runs : \A m \in Nodes : DOMAIN interrupts[q][m] = {"state", "votes"}
  BY DEF Gates, Stored
<1>4. Cures(Resumes(r, n), r) /\ Cures(Recorded(r, n) \o Resumes(r, n), r) /\ Milds(<<>>)
  BY AnswersCure
<1>5. ASSUME NEW state, Marks(state), Open(r, n)
      PROVE  /\ interrupts'[r][n].state = state
             /\ \A q \in Runs : \A m : q # r \/ m # n => interrupts'[q][m] = interrupts[q][m]
  <2>1. interrupts'[r][n] = [interrupts[r][n] EXCEPT !.state = state]
    BY <1>2, <1>3, <1>5
  <2>2. interrupts'[r][n].state = state
    BY <1>2, <1>3, <1>5, <2>1
  <2>3. ASSUME NEW q \in Runs, NEW m, q # r \/ m # n PROVE interrupts'[q][m] = interrupts[q][m]
    BY <1>2, <1>3, <1>5, <2>3
  <2> QED BY <2>2, <2>3
<1> HIDE DEF Marks
<1>6. PICK p : /\ Goes(t, p) /\ Milds(p)
               /\ \A q \in Runs : \A m : q # r \/ m # n => interrupts'[q][m] = interrupts[q][m]
               /\ interrupts' = interrupts \/ Cures(p, r) \/ interrupts'[r][n].state \in {"open", "expired"}
  BY <1>1, <1>4, <1>5 DEF Cures
<1> QED BY <1>1, <1>6, AnsweringWaits

(* A claim is won: the executor begins by setting the run running.         *)
LEMMA LaunchWaits ==
  ASSUME Inv, Gates, Waits, NEW t \in Slots, Launch(t)
  PROVE  Waits'
<1>0. PICK c : c = First(t).run
  OBVIOUS
<1> DEFINE x == th[t]
           event == IF Logged(c, "run.started", 0) THEN "run.resumed" ELSE "run.started"
           p == <<Set(c, "running"), Ev(c, event, 0), Do("next")>>
           begun == [Idle EXCEPT !.kind = "exec", !.run = c, !.at = runs[c].next, !.todo = p]
           y == [x EXCEPT !.todo = Tail(x.todo)]
           z == IF y.todo = <<>> THEN Idle ELSE y
<1>1. /\ At(t, "launch") /\ UNCHANGED <<log, interrupts, faults>>
      /\ IF ~Claimable(c) THEN Then(t, <<>>) /\ UNCHANGED runs
         ELSE /\ FreeSlots # {}
              /\ runs' = [runs EXCEPT ![c].holder = life, ![c].fresh = TRUE]
              /\ th' = [th EXCEPT ![t] = z, ![NewSlot] = begun]
  BY <1>0 DEF Launch, Rest, Counters
<1>2. CASE ~Claimable(c)
  <2>1. At(t, "launch") /\ Then(t, <<>>) /\ UNCHANGED <<runs, log, interrupts, faults>>
    BY <1>1, <1>2
  <2> QED BY <2>1, QuietWaitsSteps
<1>3. CASE Claimable(c)
  <2>0. PICK s : s = NewSlot
    OBVIOUS
  <2>1. /\ Current(t) /\ x.todo # <<>> /\ Program(x) /\ x.todo[1] = First(t) /\ x.todo[1].op = "launch"
        /\ 1 \in DOMAIN x.todo /\ DOMAIN x = DOMAIN Idle
    BY <1>0, <1>1, FirstFits DEF Program, Inv, Programs, Proper
  <2>2. /\ s \in Slots /\ th[s].kind = "free" /\ s # t /\ th[s].todo = <<>>
        /\ runs' = [runs EXCEPT ![c].holder = life, ![c].fresh = TRUE]
        /\ th' = [th EXCEPT ![t] = z, ![s] = begun]
    BY <1>1, <1>3, <2>0, <2>1, FreeSlotTaken DEF FreeSlots, Inv, Programs, Proper
  <2>3. /\ DOMAIN th' = Slots /\ th'[t] = z /\ th'[s] = begun /\ \A u \in Slots \ {t, s} : th'[u] = th[u]
    BY <2>2 DEF Inv, Typed
  <2>4. \A r \in Runs : /\ runs'[r].flow = runs[r].flow /\ runs'[r].next = runs[r].next
                        /\ runs'[r].status = runs[r].status
    BY <2>2, RowsTyped DEF RunFields
  <2>5. Grown(runs, runs')
    BY <2>4 DEF Grown
  <2>6. y.todo = Tail(x.todo) /\ Same(x, y)
    BY <2>1, SameRetold
  <2>7. begun.kind = "exec" /\ begun.run = c /\ begun.todo = p
    BY DEF Idle
  <2>8. DOMAIN p = 1 .. 3 /\ p[1] = Set(c, "running") /\ p[2] = Ev(c, event, 0) /\ p[3] = Do("next")
        /\ \A i \in DOMAIN p : i \in {1, 2, 3}
    <3>1. PICK a, b, d : a = Set(c, "running") /\ b = Ev(c, event, 0) /\ d = Do("next")
      OBVIOUS
    <3>2. p = <<a, b, d>>
      BY <3>1
    <3> HIDE DEF p
    <3>3. DOMAIN p = 1 .. 3 /\ p[1] = a /\ p[2] = b /\ p[3] = d /\ \A i \in DOMAIN p : i \in {1, 2, 3}
      BY ONLY <3>2, ThreeLong
    <3> QED BY <3>1, <3>3
  <2>9. /\ p[1].op = "set" /\ p[1].status = "running" /\ p[2].op = "append" /\ p[3].op = "next"
        /\ 1 \in DOMAIN p
    BY <2>8 DEF Set, Ev, Do
  <2> HIDE DEF p, begun
  <2>10. Novel(begun)
    <3>1. ASSUME NEW i \in DOMAIN p
          PROVE  p[i].op \in {"set", "append", "next"} /\ (p[i].op = "set" => p[i].status = "running")
      BY <2>8, <2>9
    <3>2. \E j \in DOMAIN p : p[j] = Set(c, "running")
      BY <2>8, <2>9
    <3>3. "running" \notin Waiting
      BY DEF Waiting
    <3>4. ASSUME NEW i \in DOMAIN p PROVE Bides(begun, i, runs', interrupts')
      BY <2>7, <3>1, <3>2, <3>3 DEF Bides
    <3> QED BY <2>7, <3>1, <3>4 DEF Novel, Bided, Withdraws, Suspending
  <2> HIDE DEF x, y
  <2>11. Bided(x, runs, interrupts) /\ Placed(x, runs, Deciders)
    BY DEF Waits, Gates, x
  <2>12. ~Withdraws(x)
    BY <2>1, <2>11, HeadStops DEF Program
  <2>13. /\ (\A r : Mends(x, r) => Mends(y, r))
         /\ ~Withdraws(y)
    BY <2>1, <2>6, <2>12, RestMends
  <2>14. Bided(y, runs', interrupts')
    <3>1. x.kind = "exec" => Made(runs, x.run)
      BY <2>11 DEF Placed
    <3>2. x.kind = "exec" /\ runs'[x.run].status \in Waiting => runs[x.run].status \in Waiting /\ x.todo[1] # Set(x.run, "running")
      BY <2>1, <2>4, <3>1 DEF Made, Set
    <3>3. interrupts' = interrupts
      BY <1>1
    <3> QED BY <2>1, <2>5, <2>6, <2>11, <3>1, <3>2, <3>3, BidedRest
  <2>15. \A u \in Slots \ {t} : (Same(th[u], th'[u]) /\ th'[u].todo = th[u].todo) \/ Novel(th'[u])
    BY <2>3, <2>10 DEF Same
  <2>16. ASSUME NEW r \in Runs PROVE Asked(r)'
    <3>1. Asked(r)
      BY DEF Waits
    <3>2. \A u \in Slots : Mends(th[u], r) => \E v \in Slots : Mends(th'[v], r)
      <4>1. DOMAIN <<>> = {}
        BY Slots1
      <4>2. ~Mends(th[s], r)
        BY <2>2, <4>1 DEF Mends
      <4>3. Mends(th[t], r) => Mends(th'[t], r)
        <5>1. Mends(y, r) => y.todo # <<>>
          BY <4>1 DEF Mends
        <5>2. Mends(x, r) => Mends(y, r)
          BY <2>13
        <5> QED BY <2>3, <5>1, <5>2 DEF x
      <4> QED BY <2>3, <4>2, <4>3
    <3> QED BY <1>1, <2>4, <3>1, <3>2, AskedStill
  <2>17. /\ \A u \in Slots \ {t} : th[u].kind = "exec" =>
              (runs'[th[u].run].status \in Waiting => runs[th[u].run].status \in Waiting)
         /\ \A u \in Slots \ {t} : Suspending(th[u]) /\ interrupts[th[u].run][th[u].at].state = "open" =>
              interrupts'[th[u].run][th[u].at].state = "open"
    <3>1. \A u \in Slots : th[u].kind = "exec" => th[u].run \in Runs
      BY DEF Gates, Placed, Made
    <3> QED BY <1>1, <2>4, <3>1
  <2>18. /\ Withdraws(y) => Current(t)'
         /\ Suspending(y) => ~Withdraws(y)
         /\ \A r \in Runs : WithdrawsOf(y, r) => WithdrawsOf(th[t], r) \/ runs[r].status \in Waiting
    BY <2>13 DEF Withdraws, WithdrawsOf
  <2>19. th'[t] = (IF y.todo = <<>> THEN Idle ELSE y)
    BY <2>3
  <2> QED BY <2>1, <2>3, <2>5, <2>14, <2>15, <2>16, <2>17, <2>18, <2>19, TurnWaits
<1> QED BY <1>2, <1>3

-----------------------------------------------------------------------------
(* Timers, requests and processes                                          *)

LEMMA NextFaults == faults \in Nat /\ [Next]_vars => faults' \in Nat
<1> SUFFICES ASSUME faults \in Nat, [Next]_vars PROVE faults' = faults \/ faults' = faults + 1
  OBVIOUS
<1>1. ASSUME NEW t \in Slots,
             \/ AppendEvent(t) \/ SetStatus(t) \/ ReleaseClaim(t)
             \/ Launch(t) \/ NextNode(t) \/ Outcome(t) \/ DelayAborted(t) \/ CreateInterrupt(t)
             \/ FindChild(t) \/ InsertChild(t) \/ PollSub(t) \/ DispatchNode(t) \/ PollWorker(t) \/ NapAborted(t)
      PROVE  faults' = faults
  BY <1>1 DEF AppendEvent, SetStatus, ReleaseClaim, Launch, NextNode, Outcome, DelayAborted, CreateInterrupt,
              FindChild, InsertChild, PollSub, DispatchNode, PollWorker, NapAborted, Counters
<1>2. ASSUME NEW t \in Slots,
             \/ Cancel(t) \/ CancelRunInternal(t) \/ InvalidateInterrupts(t) \/ SetCancelRequested(t) \/ Abort(t)
             \/ ResolveApproval(t) \/ ResolveClarification(t) \/ ResolveExternalEvent(t) \/ Advance(t)
             \/ InsertRun(t) \/ InsertIdempotency(t) \/ Elapses(t)
      PROVE  faults' = faults
  BY <1>2 DEF Cancel, CancelRunInternal, InvalidateInterrupts, SetCancelRequested, Abort, ResolveApproval,
              ResolveClarification, ResolveExternalEvent, Advance, InsertRun, InsertIdempotency,
              Elapses, DelayOver, NapOver, BodyRead, Counters
<1>3. ASSUME NEW r \in Runs, CallCancel(r) \/ Lapse(r) \/ \E n \in Nodes : CallResolve(r, n) PROVE faults' = faults
  BY <1>3 DEF CallCancel, Arrives, Lapse, CallResolve, Counters
<1>4. CASE Turn \/ (\E t \in Slots : Elapses(t)) \/ \E r \in Runs : CallCancel(r) \/ Lapse(r) \/ \E n \in Nodes : CallResolve(r, n)
  BY <1>1, <1>2, <1>3, <1>4 DEF Turn
<1>5. CASE (\E t \in Slots : Deadline(t)) \/ Crash
  BY <1>5 DEF Deadline, Crash
<1>6. CASE Shutdown \/ Boot \/ UNCHANGED vars \/ \E r \in Roots, flow \in RootFlows, withKey \in BOOLEAN : CreateRun(r, flow, withKey)
  BY <1>6 DEF Shutdown, Boot, CreateRun, Counters, vars
<1> QED BY <1>4, <1>5, <1>6 DEF Next

(* While nothing runs nobody is about to change a run that waits.          *)
LEMMA NobodyMends ==
  ASSUME Inv, Gates, queue = <<>>, NEW u \in Slots
  PROVE  ~Suspending(th[u]) /\ ~Withdraws(th[u]) /\ \A r : ~Mends(th[u], r)
<1>1. ~Queued(u)
  BY NobodyQueued
<1>2. \A i \in DOMAIN th[u].todo : th[u].todo[i].op \notin {"out", "invalidate", "set", "advance"}
  BY <1>1, Behind
<1> QED BY <1>2 DEF Suspending, Withdraws, Mends

(* Nothing ran: threads stay or begin, or all is lost by a crash.          *)
LEMMA CalmWaits ==
  ASSUME Inv, Gates, Waits,
         \A u \in Slots : (queue = <<>> /\ Same(th[u], th'[u]) /\ th'[u].todo = th[u].todo) \/ Novel(th'[u]),
         \A r \in Runs : /\ runs'[r].flow = runs[r].flow /\ runs'[r].next = runs[r].next
                         /\ runs'[r].status = runs[r].status,
         interrupts' = interrupts, (queue = <<>> /\ faults' = faults) \/ faults' # 0
  PROVE  Waits'
<1>1. Grown(runs, runs')
  BY DEF Grown
<1>2. ASSUME NEW u \in Slots PROVE Novel(th'[u])
  <2>1. CASE queue = <<>> /\ Same(th[u], th'[u]) /\ th'[u].todo = th[u].todo
    <3>1. ~Suspending(th[u]) /\ ~Withdraws(th[u])
      BY <2>1, NobodyMends
    <3>2. /\ \A i \in DOMAIN th[u].todo : th[u].todo[i].op = "out" => th[u].kind = "exec"
          /\ th[u].kind = "exec" => Made(runs, th[u].run)
      BY DEF Inv, Programs, Proper, Program, Fits, Going, Gates, Placed
    <3>3. Bided(th[u], runs, interrupts)
      BY DEF Waits
    <3>4. th[u].kind = "exec" /\ runs'[th[u].run].status \in Waiting => runs[th[u].run].status \in Waiting
      BY <3>2 DEF Made
    <3>5. Bided(th'[u], runs', interrupts')
      BY <1>1, <2>1, <3>1, <3>2, <3>3, <3>4, BidedStill
    <3> QED BY <2>1, <3>1, <3>5 DEF Novel, Withdraws, Suspending
  <2> QED BY <2>1
<1>3. ASSUME NEW r \in Runs PROVE Asked(r)'
  <2>1. Asked(r)
    BY DEF Waits
  <2>2. CASE faults' # 0
    BY <2>1, <2>2 DEF Asked, On
  <2>3. CASE queue = <<>> /\ faults' = faults
    <3>1. \A u \in Slots : ~Mends(th[u], r)
      BY <2>3, NobodyMends
    <3> QED BY <2>1, <2>3, <3>1, AskedStill
  <2> QED BY <2>2, <2>3
<1>4. \A u \in Slots : Bided(th'[u], runs', interrupts') /\ ~Withdraws(th'[u])
  BY <1>2 DEF Novel
<1>5. \A u \in Slots : \A r : ~WithdrawsOf(th'[u], r)
  BY <1>4 DEF Withdraws, WithdrawsOf
<1> QED BY <1>3, <1>4, <1>5 DEF Waits

(* The event loop takes up a thread.                                       *)
LEMMA TakesWaits ==
  ASSUME Inv, Gates, Waits, NEW t \in Slots, NEW x, queue = <<>>, th' = [th EXCEPT ![t] = x],
         UNCHANGED <<runs, interrupts>>, faults' = faults \/ faults' # 0,
         (Same(th[t], x) /\ x.todo = th[t].todo) \/ Novel(x)
  PROVE  Waits'
<1>1. th'[t] = x /\ \A u \in Slots \ {t} : th'[u] = th[u]
  BY DEF Inv, Typed
<1>2. \A u \in Slots : (queue = <<>> /\ Same(th[u], th'[u]) /\ th'[u].todo = th[u].todo) \/ Novel(th'[u])
  BY <1>1 DEF Same
<1> QED BY <1>2, CalmWaits

LEMMA MildNovel ==
  ASSUME NEW x, Milds(x.todo), UNCHANGED <<runs, interrupts>>,
         x.kind = "exec" /\ runs[x.run].status \in Waiting =>
           KindIn(runs, x.run, x.at) = "sub" /\ \A i \in DOMAIN x.todo : Loiters(x.todo[i])
  PROVE  Novel(x)
<1>1. Bided(x, runs, interrupts) /\ ~Withdraws(x) /\ ~Suspending(x)
  BY MildBides
<1> QED BY <1>1 DEF Novel

LEMMA ElapsesWaits ==
  ASSUME Inv, Gates, Waits, NEW t \in Slots, Elapses(t)
  PROVE  Waits'
<1>1. UNCHANGED <<runs, interrupts, faults>>
  BY DEF Elapses, DelayOver, NapOver, BodyRead, Tables, Counters
<1>2. DOMAIN th[t] = DOMAIN Idle
  BY DEF Inv, Programs, Proper, Program
<1>3. ASSUME NEW op \in {"sleep", "nap"}, Parked(t, op), th[t].kind = "exec", runs[th[t].run].status \in Waiting
      PROVE  KindIn(runs, th[t].run, th[t].at) = "sub" /\ op = "nap"
  <2>1. /\ th[t].todo # <<>> /\ Program(th[t]) /\ 1 \in DOMAIN th[t].todo /\ th[t].todo[1].op = op
        /\ Fits(th[t], 1)
    BY <1>3, ParkedFits
  <2>2. Len(th[t].todo) = 1 /\ DOMAIN th[t].todo = 1 .. Len(th[t].todo)
    BY <2>1, Started DEF Fits, Going
  <2>3. \A j \in DOMAIN th[t].todo : th[t].todo[j].op = op
    BY <2>1, <2>2
  <2>4. \A j \in DOMAIN th[t].todo : th[t].todo[j] # Set(th[t].run, "running")
    BY <2>3 DEF Set
  <2>5. Bides(th[t], 1, runs, interrupts)
    BY <2>1 DEF Waits, Bided
  <2> QED BY <1>3, <2>1, <2>4, <2>5 DEF Bides, Going
<1>4. ASSUME NEW p, Milds(p), Takes(t, [th[t] EXCEPT !.todo = p]),
             th[t].kind = "exec" /\ runs[th[t].run].status \in Waiting =>
               KindIn(runs, th[t].run, th[t].at) = "sub" /\ \A i \in DOMAIN p : Loiters(p[i])
      PROVE  Waits'
  <2>1. PICK x : x = [th[t] EXCEPT !.todo = p]
    OBVIOUS
  <2>2. Same(th[t], x) /\ x.todo = p
    BY <1>2, <2>1, SameRetold
  <2>3. Novel(x)
    BY <1>1, <1>4, <2>2, MildNovel DEF Same
  <2>4. queue = <<>> /\ th' = [th EXCEPT ![t] = x]
    BY <1>4, <2>1 DEF Takes
  <2> QED BY <1>1, <2>3, <2>4, TakesWaits
<1>5. CASE DelayOver(t)
  <2>1. Parked(t, "sleep") /\ Takes(t, [th[t] EXCEPT !.todo = Completed(th[t].run, th[t].at)])
    BY <1>5 DEF DelayOver
  <2> QED BY <1>3, <1>4, <2>1, MildEnds
<1>6. CASE NapOver(t)
  <2>1. PICK p : p = <<Do("poll")>>
    OBVIOUS
  <2>2. Parked(t, "nap") /\ Takes(t, [th[t] EXCEPT !.todo = p])
    BY <1>6, <2>1 DEF NapOver
  <2>3. DOMAIN p = {1} /\ p[1].op = "poll" /\ Milds(p)
    BY <2>1, MildStatements, MildOne DEF Do
  <2>4. \A i \in DOMAIN p : Loiters(p[i])
    BY <2>3 DEF Loiters
  <2> QED BY <1>3, <1>4, <2>2, <2>3, <2>4
<1>7. CASE BodyRead(t)
  <2>1. PICK p : p = Tail(th[t].todo)
    OBVIOUS
  <2>2. Parked(t, "body") /\ Takes(t, [th[t] EXCEPT !.todo = p])
    BY <1>7, <2>1 DEF BodyRead, Rest
  <2>3. /\ th[t].todo # <<>> /\ Program(th[t]) /\ th[t].todo[1].op = "body" /\ Fits(th[t], 1)
    BY <2>2, ParkedFits
  <2>4. PICK S : th[t].todo \in Seq(S)
    BY <2>3 DEF Program
  <2>5. Len(th[t].todo) = 2 /\ th[t].todo[2].op \in Answers /\ th[t].kind # "exec"
    <3>1. Len(th[t].todo) = 2 /\ th[t].todo[2].op \in Answers
      BY <2>3 DEF Fits
    <3>2. 2 \in DOMAIN th[t].todo
      BY <2>4, <3>1
    <3>3. Fits(th[t], 2)
      BY <2>3, <3>2 DEF Program
    <3> QED BY <3>1, <3>3 DEF Fits
  <2>6. p \in Seq(S) /\ DOMAIN p = 1 .. 1 /\ p[1] = th[t].todo[2]
    <3>1. PICK w : w = th[t].todo
      OBVIOUS
    <3>2. w \in Seq(S) /\ w # <<>> /\ Len(w) = 2 /\ p = Tail(w)
      BY <2>1, <2>3, <2>4, <2>5, <3>1
    <3>3. /\ Tail(w) \in Seq(S) /\ DOMAIN Tail(w) = 1 .. Len(w) - 1
          /\ \A i \in 1 .. Len(w) - 1 : Tail(w)[i] = w[i + 1]
      BY <3>2, Slots1
    <3>4. p \in Seq(S) /\ DOMAIN p = 1 .. 1 /\ p[1] = w[1 + 1]
      BY <3>2, <3>3
    <3> QED BY <3>1, <3>4
  <2>7. Milds(p)
    <3>1. \A i \in DOMAIN p : p[i].op \in Answers
      BY <2>5, <2>6
    <3> QED BY <2>6, <3>1 DEF Milds, Mild, Answers
  <2> QED BY <1>4, <2>2, <2>5, <2>7
<1> QED BY <1>5, <1>6, <1>7 DEF Elapses

LEMMA DeadlineWaits ==
  ASSUME Inv, Gates, Waits, faults \in Nat, NEW t \in Slots, Deadline(t)
  PROVE  Waits'
<1>1. PICK x : x = [th[t] EXCEPT !.late = TRUE, !.aborted = TRUE]
  OBVIOUS
<1>2. Takes(t, x) /\ UNCHANGED <<runs, interrupts>> /\ faults' = faults + 1
  BY <1>1 DEF Deadline, Tables
<1>3. DOMAIN th[t] = DOMAIN Idle
  BY DEF Inv, Programs, Proper, Program
<1>4. Same(th[t], x) /\ x.todo = th[t].todo
  BY <1>1, <1>3 DEF Same, Idle
<1>5. faults' # 0
  BY <1>2
<1> QED BY <1>2, <1>4, <1>5, TakesWaits DEF Takes

(* A request begins, or a process: what it runs opens no interrupt.        *)
LEMMA HandlerWaits ==
  ASSUME Inv, Gates, Waits, NEW t \in Slots, NEW x, x.kind = "call", Milds(x.todo),
         queue = <<>>, th' = [th EXCEPT ![t] = x], UNCHANGED <<runs, interrupts, faults>>
  PROVE  Waits'
<1>1. Novel(x)
  BY MildNovel
<1> QED BY <1>1, TakesWaits

LEMMA RequestWaits ==
  ASSUME Inv, Gates, Waits,
         \/ \E r \in Roots, flow \in RootFlows, withKey \in BOOLEAN : CreateRun(r, flow, withKey)
         \/ \E r \in Runs : CallCancel(r) \/ \E n \in Nodes : CallResolve(r, n)
  PROVE  Waits'
<1>1. FreeSlots # {} /\ queue = <<>> /\ UNCHANGED <<runs, interrupts, faults>>
  BY DEF CreateRun, CallCancel, CallResolve, Arrives, Takes, Tables, Counters
<1>2. PICK s : s = NewSlot
  OBVIOUS
<1>3. s \in Slots
  BY <1>1, <1>2, FreeSlotTaken DEF FreeSlots
<1>4. ASSUME NEW r \in Roots, NEW flow \in RootFlows, NEW withKey \in BOOLEAN, CreateRun(r, flow, withKey)
      PROVE  Waits'
  <2> DEFINE a == [op |-> "insert run", flow |-> flow]
             b == Of("key", r)
             c == Of("launch", r)
             key == IF withKey THEN <<b>> ELSE <<>>
  <2>1. PICK p : p = <<a>> \o key \o <<c>>
    OBVIOUS
  <2>2. PICK x : x = Handler(r, p)
    OBVIOUS
  <2>3. th' = [th EXCEPT ![s] = x]
    BY <1>2, <1>4, <2>1, <2>2 DEF CreateRun, Takes
  <2>4. Mild(a) /\ Mild(b) /\ Mild(c)
    BY DEF Mild, Of
  <2> HIDE DEF a, b, c
  <2>5. Milds(<<a>>) /\ Milds(key) /\ Milds(<<c>>)
    BY <2>4, MildOne, AnswersCure
  <2>6. Milds(p)
    BY <2>1, <2>5, MildBoth
  <2>7. x.kind = "call" /\ x.todo = p
    BY <2>2, HandlerFields
  <2> QED BY <1>1, <1>3, <2>3, <2>6, <2>7, HandlerWaits
<1>5. ASSUME NEW r \in Runs, CallCancel(r) PROVE Waits'
  <2>1. PICK p : p = <<Do("cancel")>>
    OBVIOUS
  <2>2. PICK x : x = Handler(r, p)
    OBVIOUS
  <2>3. th' = [th EXCEPT ![s] = x]
    BY <1>2, <1>5, <2>1, <2>2 DEF CallCancel, Arrives, Takes
  <2>4. Mild(Do("cancel"))
    BY DEF Mild, Do
  <2>5. Milds(p)
    BY <2>1, <2>4, MildOne
  <2>6. x.kind = "call" /\ x.todo = p
    BY <2>2, HandlerFields
  <2> QED BY <1>1, <1>3, <2>3, <2>5, <2>6, HandlerWaits
<1>6. ASSUME NEW r \in Runs, NEW n \in Nodes, CallResolve(r, n) PROVE Waits'
  <2> DEFINE op == IF Kind(r, n) = "approval" THEN "tally" ELSE "answer"
  <2>1. PICK p : p = <<Do("body"), Do(op)>>
    OBVIOUS
  <2>2. PICK ballot : th' = [th EXCEPT ![NewSlot] =
                               [Handler(r, p) EXCEPT !.row = runs[r].next, !.node = n, !.ballot = ballot]]
    BY <1>6, <2>1 DEF CallResolve
  <2>3. PICK x : x = [Handler(r, p) EXCEPT !.row = runs[r].next, !.node = n, !.ballot = ballot]
    OBVIOUS
  <2>4. th' = [th EXCEPT ![s] = x]
    BY <1>2, <2>2, <2>3
  <2>5. Mild(Do("body")) /\ Mild(Do(op))
    BY DEF Mild, Do
  <2>6. Milds(p)
    BY <2>1, <2>5, MildOne, MildBoth, Two
  <2>7. x.kind = "call" /\ x.todo = p
    BY <2>3 DEF Handler, Idle
  <2> QED BY <1>1, <1>3, <2>4, <2>6, <2>7, HandlerWaits
<1> QED BY <1>4, <1>5, <1>6

LEMMA BootWaits ==
  ASSUME Inv, Gates, Waits, Boot
  PROVE  Waits'
<1> DEFINE S == {r \in Runs : Orphan(r)}
           orphans == SetToSeq(S)
<1>1. PICK p : p = [i \in DOMAIN orphans |-> Of("launch", orphans[i])]
  OBVIOUS
<1>2. PICK x : x = Handler("none", p)
  OBVIOUS
<1>3. /\ ~up /\ UNCHANGED <<runs, interrupts, faults>>
      /\ th' = th \/ th' = [th EXCEPT ![1] = x]
  BY <1>1, <1>2 DEF Boot, Tables, Counters
<1>4. queue = <<>> /\ 1 \in Slots
  BY <1>3, FiniteRuns DEF Inv, Typed, Slots
<1>5. CASE th' = th
  <2>1. \A u \in Slots : queue = <<>> /\ Same(th[u], th'[u]) /\ th'[u].todo = th[u].todo
    BY <1>4, <1>5 DEF Same
  <2> QED BY <1>3, <1>4, <2>1, CalmWaits
<1>6. CASE th' = [th EXCEPT ![1] = x]
  <2>1. orphans \in Seq(S)
    <3>1. IsFiniteSet(S)
      BY FiniteRuns, FS_Subset
    <3> HIDE DEF S
    <3> QED BY <3>1, Listed
  <2> HIDE DEF S, orphans
  <2>2. Len(orphans) \in Nat /\ DOMAIN orphans = 1 .. Len(orphans) /\ \A i \in DOMAIN orphans : orphans[i] \in S
    BY <2>1
  <2> DEFINE T == {Of("launch", r) : r \in S}
  <2>3. p \in [1 .. Len(orphans) -> T]
    BY <1>1, <2>2
  <2>4. \A e \in T : Mild(e)
    BY MildStatements
  <2> HIDE DEF T
  <2>5. p \in Seq(T) /\ \A i \in DOMAIN p : p[i] \in T
    BY <2>2, <2>3
  <2>6. Milds(p)
    BY <2>4, <2>5 DEF Milds
  <2>7. x.kind = "call" /\ x.todo = p
    BY <1>2, HandlerFields
  <2> QED BY <1>3, <1>4, <1>6, <2>6, <2>7, HandlerWaits
<1> QED BY <1>3, <1>5, <1>6

(* A claim lapses, or nothing at all happens.                              *)
LEMMA StandsWaits ==
  ASSUME Inv, Gates, Waits, UNCHANGED <<th, queue, interrupts, faults>>,
         \A r \in Runs : /\ runs'[r].flow = runs[r].flow /\ runs'[r].next = runs[r].next
                         /\ runs'[r].status = runs[r].status
  PROVE  Waits'
<1>1. Grown(runs, runs')
  BY DEF Grown
<1>2. ASSUME NEW u \in Slots PROVE Bided(th[u], runs', interrupts)
  <2>1. /\ \A i \in DOMAIN th[u].todo : th[u].todo[i].op = "out" => th[u].kind = "exec"
        /\ th[u].kind = "exec" => Made(runs, th[u].run)
    BY DEF Inv, Programs, Proper, Program, Fits, Going, Gates, Placed
  <2>2. Bided(th[u], runs, interrupts) /\ Same(th[u], th[u])
    BY DEF Waits, Same
  <2>3. th[u].kind = "exec" /\ runs'[th[u].run].status \in Waiting => runs[th[u].run].status \in Waiting
    BY <2>1 DEF Made
  <2> QED BY <1>1, <2>1, <2>2, <2>3, BidedStill
<1>3. ASSUME NEW r \in Runs PROVE Asked(r)'
  <2>1. Asked(r)
    BY DEF Waits
  <2> QED BY <2>1, AskedStill
<1>4. \A r : Executors(r)' = Executors(r)
  BY DEF Executors
<1> QED BY <1>2, <1>3, <1>4 DEF Waits, Current

LEMMA DeathWaits ==
  ASSUME Inv, Gates, Waits, faults \in Nat, Crash \/ Shutdown
  PROVE  Waits'
<1>1. th' = [t \in Slots |-> Idle] /\ interrupts' = interrupts /\ ((queue = <<>> /\ faults' = faults) \/ faults' # 0)
  <2>1. CASE Crash
    <3>1. faults' = faults + 1
      BY <2>1 DEF Crash
    <3>2. faults' # 0
      BY <3>1
    <3> QED BY <2>1, <3>2 DEF Crash, Dies
  <2>2. CASE Shutdown
    BY <2>2 DEF Shutdown, Dies
  <2> QED BY <2>1, <2>2
<1>2. \A r \in Runs : /\ runs'[r].flow = runs[r].flow /\ runs'[r].next = runs[r].next
                      /\ runs'[r].status = runs[r].status
  <2>1. CASE runs' = runs
    BY <2>1
  <2>2. CASE runs' = [r \in Runs |-> IF runs[r].holder = life THEN [runs[r] EXCEPT !.holder = 0, !.fresh = FALSE] ELSE runs[r]]
    BY <2>2, RowsTyped DEF RunFields
  <2> QED BY <2>1, <2>2 DEF Crash, Shutdown
<1>3. Novel(Idle)
  <2>1. DOMAIN Idle.todo = {}
    BY Slots1 DEF Idle
  <2> QED BY <2>1 DEF Novel, Bided, Withdraws, Suspending
<1>4. \A u \in Slots : Novel(th'[u])
  BY <1>1, <1>3
<1> QED BY <1>1, <1>2, <1>4, CalmWaits

-----------------------------------------------------------------------------
(* The theorem                                                             *)

LEMMA InitWaits == Init => Waits /\ faults \in Nat
<1> SUFFICES ASSUME Init PROVE Waits /\ faults \in Nat
  OBVIOUS
<1>1. faults = 0 /\ (\A t \in Slots : th[t] = Idle) /\ \A r \in Runs : runs[r].status = "none"
  BY DEF Init
<1>2. DOMAIN Idle.todo = {}
  BY Slots1 DEF Idle
<1>3. \A t \in Slots : Bided(th[t], runs, interrupts) /\ ~Withdraws(th[t]) /\ \A r : ~WithdrawsOf(th[t], r)
  BY <1>1, <1>2 DEF Bided, Withdraws, WithdrawsOf
<1>4. \A r \in Runs : Asked(r)
  BY <1>1 DEF Asked, Waiting
<1> QED BY <1>1, <1>3, <1>4 DEF Waits

LEMMA NextWaits == Inv /\ Gates /\ Waits /\ faults \in Nat /\ [Next]_vars => Waits'
<1> SUFFICES ASSUME Inv, Gates, Waits, faults \in Nat, [Next]_vars PROVE Waits'
  OBVIOUS
<1>1. CASE Turn
  BY <1>1, QuietWaitsSteps, SetStatusWaits, LaunchWaits, NextNodeWaits, OutcomeWaits, AbortedWaits,
     CreateInterruptWaits, FindChildWaits, PollSubWaits, DispatchNodeWaits, PollWorkerWaits, CancelWaits,
     InvalidateInterruptsWaits, AbortWaits, ResolveApprovalWaits, ResolveAnswerWaits DEF Turn
<1>2. CASE \E t \in Slots : Elapses(t) \/ Deadline(t)
  BY <1>2, ElapsesWaits, DeadlineWaits
<1>3. CASE \/ \E r \in Roots, flow \in RootFlows, withKey \in BOOLEAN : CreateRun(r, flow, withKey)
           \/ \E r \in Runs : CallCancel(r) \/ \E n \in Nodes : CallResolve(r, n)
  BY <1>3, RequestWaits
<1>4. ASSUME NEW r \in Runs, Lapse(r) PROVE Waits'
  <2>1. runs' = [runs EXCEPT ![r].fresh = FALSE] /\ UNCHANGED <<th, queue, interrupts, faults>>
    BY <1>4 DEF Lapse, Counters
  <2>2. \A q \in Runs : /\ runs'[q].flow = runs[q].flow /\ runs'[q].next = runs[q].next
                        /\ runs'[q].status = runs[q].status
    BY <2>1, RowsTyped DEF RunFields
  <2> QED BY <2>1, <2>2, StandsWaits
<1>5. CASE Crash \/ Shutdown
  BY <1>5, DeathWaits
<1>6. CASE Boot
  BY <1>6, BootWaits
<1>7. CASE UNCHANGED vars
  BY <1>7, StandsWaits DEF vars
<1> QED BY <1>1, <1>2, <1>3, <1>4, <1>5, <1>6, <1>7 DEF Next

(* While nothing runs nobody is about to make the wait end.                *)
LEMMA WaitsAnswer == Inv /\ Gates /\ Waits => WaitsAnswerable
<1> SUFFICES ASSUME Inv, Gates, Waits, faults = 0, queue = <<>>, NEW r \in Runs, runs[r].status \in Waiting,
                    Kind(r, runs[r].next) \in {"approval", "clarification", "external"}
             PROVE  Open(r, runs[r].next) \/ interrupts[r][runs[r].next].state = "expired"
  BY DEF WaitsAnswerable
<1>1. Asked(r) /\ \A u \in Slots : ~Mends(th[u], r)
  BY NobodyMends DEF Waits
<1> QED BY <1>1 DEF Asked, Asking, Open

(* In the SQLite host a run that waits at a gate can be answered whenever  *)
(* the process has nothing to run, however often the gate was sent back,   *)
(* and however requests, cancellations, children and shutdowns interleave: *)
(* its interrupt is open, or expired, until a crash or a deadline comes    *)
(* (createInterrupt, handleResolveInterrupt, handleCancelRun).             *)
THEOREM WaitsAreAnswerable == Spec => []WaitsAnswerable
<1>1. Init => Inv /\ Gates /\ Waits /\ faults \in Nat
  BY InitInv, InitGates, InitWaits
<1>2. Inv /\ Gates /\ Waits /\ faults \in Nat /\ [Next]_vars => (Inv /\ Gates /\ Waits /\ faults \in Nat)'
  BY NextInv, NextGates, NextWaits, NextFaults
<1> QED BY <1>1, <1>2, WaitsAnswer, PTL DEF Spec
=============================================================================
