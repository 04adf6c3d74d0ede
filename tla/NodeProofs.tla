----------------------------- MODULE NodeProofs -----------------------------
(***************************************************************************)
(* What the execution of a workflow's nodes rests on, in the v2 host: the   *)
(* order they are visited in, for any definition, and the identity of the   *)
(* business operations they stand for, for any number of runs, operations,  *)
(* transport retries, executions and kills.                                 *)
(*                                                                          *)
(* The order: each step of Kahn's algorithm leaves ready exactly the nodes  *)
(* all of whose sources are ordered, so that what it cannot order lies      *)
(* behind a cycle.  An operation: what an execution presents was recorded   *)
(* before its first request left.                                           *)
(***************************************************************************)
EXTENDS EffectLedger, Scheduler, FiniteSetTheorems, WellFoundedInduction, TLAPS

-----------------------------------------------------------------------------
(* Effects                                                                 *)

IsRow(x) == DOMAIN x = {"run", "id", "attempt", "execution", "key", "state", "outcome"}

IsFetch(f) == DOMAIN f = {"at", "execution", "id", "base", "i"}

\* A row stands for its run's operation.
RowsOfRuns == \A row \in rows : IsRow(row) /\ row.key = op[row.run]

\* What an execution presents was recorded before its first request left.
Presented ==
  \A l \in Loops : Flying(l) =>
    /\ IsFetch(loops[l])
    /\ \E row \in rows : row.run = RunOf(l) /\ row.id = loops[l].id

IdentityInv == DOMAIN loops = Loops /\ RowsOfRuns /\ OneIdentity /\ Presented

\* id is, or may become, the identity of r's operation.
Fits(r, id) == \A row \in rows : row.key = op[r] => row.id = id

\* A claim under a fitting id gives no operation a second one.
LEMMA ClaimFits ==
  ASSUME RowsOfRuns, OneIdentity, NEW r, NEW id, NEW attempt, NEW n, NEW state, NEW outcome,
         Fits(r, id), rows' = Claim(r, id, attempt, n, state, outcome), op' = op
  PROVE  /\ RowsOfRuns' /\ OneIdentity'
         /\ rows \subseteq rows'
         /\ \E row \in rows' : row.run = r /\ row.id = id
<1> DEFINE new == [run |-> r, id |-> id, attempt |-> attempt, execution |-> n,
                   key |-> op[r], state |-> state, outcome |-> outcome]
<1>1. CASE \E row \in rows : row.run = r /\ row.id = id /\ row.attempt = attempt
  BY <1>1 DEF Claim, RowsOfRuns, OneIdentity
<1>2. CASE ~\E row \in rows : row.run = r /\ row.id = id /\ row.attempt = attempt
  <2>1. rows' = rows \cup {new}
    BY <1>2 DEF Claim
  <2>2. new.run = r /\ new.id = id /\ new.key = op[r] /\ IsRow(new)
    BY DEF IsRow
  <2> HIDE DEF new
  <2>3. RowsOfRuns'
    BY <2>1, <2>2 DEF RowsOfRuns, IsRow
  <2>4. OneIdentity'
    BY <2>1, <2>2 DEF OneIdentity, Fits
  <2> QED BY <2>1, <2>2, <2>3, <2>4
<1> QED BY <1>1, <1>2

\* An update changes no row's run, operation or effect id.
LEMMA UpdateKeeps ==
  ASSUME RowsOfRuns, OneIdentity, NEW r, NEW id, NEW attempt, NEW state, NEW outcome,
         rows' = Update(r, id, attempt, state, outcome), op' = op
  PROVE  /\ RowsOfRuns' /\ OneIdentity'
         /\ \A row \in rows : \E new \in rows' : new.run = row.run /\ new.id = row.id
<1> DEFINE Upd(row) == IF row.run = r /\ row.id = id /\ row.attempt = attempt
                       THEN [row EXCEPT !.state = state, !.outcome = outcome] ELSE row
<1>1. rows' = {Upd(row) : row \in rows}
  BY DEF Update
<1>2. \A row \in rows : /\ IsRow(Upd(row)) /\ Upd(row).key = row.key
                        /\ Upd(row).run = row.run /\ Upd(row).id = row.id
  <2> SUFFICES ASSUME NEW row \in rows
               PROVE  /\ IsRow(Upd(row)) /\ Upd(row).key = row.key
                      /\ Upd(row).run = row.run /\ Upd(row).id = row.id
    OBVIOUS
  <2>1. IsRow(row)
    BY DEF RowsOfRuns
  <2> QED BY <2>1 DEF IsRow
<1> HIDE DEF Upd
<1>3. RowsOfRuns'
  BY <1>1, <1>2 DEF RowsOfRuns, IsRow
<1>4. OneIdentity'
  BY <1>1, <1>2 DEF OneIdentity
<1> QED BY <1>1, <1>2, <1>3, <1>4

\* A transport attempt under a fitting id, whoever ends up making it.
LEMMA TryKeeps ==
  ASSUME IdentityInv, NEW l \in Loops, NEW f, IsFetch(f), Fits(RunOf(l), f.id),
         Try(l, f), op' = op
  PROVE  IdentityInv'
<1> DEFINE made == {row \in Prior(RunOf(l), f.id) : row.attempt = Attempt(f) /\ row.outcome # "none"}
<1>1. ASSUME NEW place, loops' = [loops EXCEPT ![l] = place],
             place.at \notin {"fire", "retry"}, rows' = rows
      PROVE  IdentityInv'
  BY <1>1 DEF IdentityInv, RowsOfRuns, OneIdentity, Presented, Flying
<1>2. CASE \E row \in made : /\ loops' = [loops EXCEPT ![l] = Resolved(f.execution, row.outcome)]
                             /\ UNCHANGED <<rows, inFlight>>
  BY <1>1, <1>2 DEF Resolved
<1>3. CASE /\ made = {}
           /\ \E h \in Holders(l, f) :
                loops' = [loops EXCEPT ![l] = [at |-> "wait", execution |-> f.execution, on |-> h]]
           /\ UNCHANGED <<rows, inFlight>>
  BY <1>1, <1>3
<1>4. CASE /\ rows' = Claim(RunOf(l), f.id, Attempt(f), f.execution, "claimed", "none")
           /\ loops' = [loops EXCEPT ![l] = [f EXCEPT !.at = "fire"]]
  <2> DEFINE g == [f EXCEPT !.at = "fire"]
  <2>1. /\ RowsOfRuns' /\ OneIdentity' /\ rows \subseteq rows'
        /\ \E row \in rows' : row.run = RunOf(l) /\ row.id = f.id
    BY <1>4, ClaimFits DEF IdentityInv
  <2>2. IsFetch(g) /\ g.id = f.id
    BY DEF IsFetch
  <2>3. DOMAIN loops' = Loops /\ loops'[l] = g /\ \A x \in Loops \ {l} : loops'[x] = loops[x]
    BY <1>4 DEF IdentityInv
  <2> HIDE DEF g
  <2>4. Presented'
    BY <2>1, <2>2, <2>3 DEF IdentityInv, Presented, Flying
  <2> QED BY <2>1, <2>3, <2>4 DEF IdentityInv
<1> QED BY <1>2, <1>3, <1>4 DEF Try

\* Steps that leave the table alone and start no attempt.
LEMMA QuietKeeps ==
  ASSUME IdentityInv, DOMAIN loops' = Loops, rows' = rows, op' = op,
         \A l \in Loops : loops'[l] = loops[l] \/ ~Flying(l)'
  PROVE  IdentityInv'
BY DEF IdentityInv, RowsOfRuns, OneIdentity, Presented, Flying

\* What Begin may present fits: the id found, or the operation's first.
LEMMA IdentityFits ==
  ASSUME OneIdentity, NEW r \in Runs, NEW id \in Identity(r)
  PROVE  Fits(r, id)
<1> DEFINE same == {row \in rows : row.key = op[r]}
<1>1. CASE same = {}
  BY <1>1 DEF Fits
<1>2. CASE same # {}
  <2>1. PICK first \in First(same) : id = first.id
    BY <1>2 DEF Identity
  <2>2. first \in rows /\ first.key = op[r]
    BY <2>1 DEF First
  <2> QED BY <2>1, <2>2 DEF Fits, OneIdentity
<1> QED BY <1>1, <1>2

LEMMA PerformKeeps ==
  ASSUME IdentityInv, NEW l \in Loops, NEW n, NEW id \in Identity(RunOf(l)),
         Perform(l, n, id), op' = op
  PROVE  IdentityInv'
<1>1. Fits(RunOf(l), id)
  BY IdentityFits DEF IdentityInv, Loops, RunOf
<1>2. \A base : IsFetch(Fetch(n, id, base)) /\ Fetch(n, id, base).id = id
  BY DEF Fetch, IsFetch
<1>3. ASSUME NEW base, Try(l, Fetch(n, id, base))
      PROVE  IdentityInv'
  BY <1>1, <1>2, <1>3, TryKeeps
<1>4. ASSUME NEW outcome, loops' = [loops EXCEPT ![l] = Resolved(n, outcome)], rows' = rows
      PROVE  IdentityInv'
  BY <1>4, QuietKeeps DEF Resolved, Flying, IdentityInv
<1> QED BY <1>3, <1>4 DEF Perform

LEMMA BeginKeeps ==
  ASSUME IdentityInv, NEW l \in Loops, Begin(l)
  PROVE  IdentityInv'
<1> DEFINE r == RunOf(l)
<1>1. op' = op /\ r \in Runs
  BY DEF Begin, Loops, RunOf
<1>2. CASE loops' = [loops EXCEPT ![l] = Off] /\ rows' = rows
  BY <1>1, <1>2, QuietKeeps DEF Off, Flying, IdentityInv
<1>3. ASSUME NEW id \in Identity(r), NEW done, Mirror(l, Execution(r), id, done)
      PROVE  IdentityInv'
  <2>1. Fits(r, id)
    BY <1>1, IdentityFits DEF IdentityInv
  <2>2. /\ rows' = Claim(r, id, 1, Execution(r), "completed", done.outcome)
        /\ loops' = [loops EXCEPT ![l] = Resolved(Execution(r), done.outcome)]
    BY <1>3 DEF Mirror
  <2>3. RowsOfRuns' /\ OneIdentity' /\ rows \subseteq rows'
    BY <1>1, <2>1, <2>2, ClaimFits DEF IdentityInv
  <2> QED BY <2>2, <2>3 DEF IdentityInv, Presented, Flying, Resolved
<1>4. ASSUME NEW id \in Identity(r), Perform(l, Execution(r), id)
      PROVE  IdentityInv'
  BY <1>1, <1>4, PerformKeeps
<1> QED BY <1>2, <1>3, <1>4 DEF Begin

LEMMA RetryKeeps ==
  ASSUME IdentityInv, NEW l \in Loops, Retry(l)
  PROVE  IdentityInv'
<1>1. IsFetch(loops[l]) /\ \E row \in rows : row.run = RunOf(l) /\ row.id = loops[l].id
  BY DEF Retry, IdentityInv, Presented, Flying
<1>2. Fits(RunOf(l), loops[l].id)
  BY <1>1 DEF IdentityInv, RowsOfRuns, OneIdentity, Fits
<1> QED BY <1>1, <1>2, TryKeeps DEF Retry

LEMMA AnswerKeeps ==
  ASSUME IdentityInv, NEW l \in Loops, NEW o, Answer(l, o)
  PROVE  IdentityInv'
<1> DEFINE f == loops[l]
           next == [f EXCEPT !.at = "retry", !.i = @ + 1]
<1>1. IsFetch(f) /\ Flying(l) /\ op' = op
  BY DEF Answer, IdentityInv, Presented, Flying
<1>2. IsFetch(next) /\ next.id = f.id
  BY <1>1 DEF IsFetch
<1>3. /\ RowsOfRuns' /\ OneIdentity'
      /\ \A row \in rows : \E new \in rows' : new.run = row.run /\ new.id = row.id
  BY <1>1, UpdateKeeps DEF Answer, IdentityInv
<1>4. DOMAIN loops' = Loops
  BY DEF Answer
<1>5. ASSUME NEW x \in Loops, Flying(x)'
      PROVE  /\ IsFetch(loops'[x]) /\ Flying(x) /\ loops'[x].id = loops[x].id
  <2>1. CASE x = l
    BY <1>1, <1>2, <1>5, <2>1 DEF Answer, Flying, Resolved, Waiters
  <2>2. CASE x # l
    BY <1>5, <2>2 DEF Answer, Flying, Waiters, IdentityInv, Presented
  <2> QED BY <2>1, <2>2
<1>6. Presented'
  BY <1>3, <1>5 DEF IdentityInv, Presented
<1> QED BY <1>3, <1>4, <1>6 DEF IdentityInv

LEMMA IdentityInvHolds == Spec => []IdentityInv
<1>1. Init => IdentityInv
  BY DEF Init, Idle, Off, IdentityInv, RowsOfRuns, OneIdentity, Presented, Flying
<1>2. IdentityInv /\ [Next]_vars => IdentityInv'
  <2> SUFFICES ASSUME IdentityInv, [Next]_vars PROVE IdentityInv'
    OBVIOUS
  <2>1. ASSUME NEW r \in Runs, Accept(r) PROVE IdentityInv'
    BY <2>1, QuietKeeps DEF Accept, Started, Flying
  <2>2. ASSUME NEW l \in Loops, Begin(l) PROVE IdentityInv'
    BY <2>2, BeginKeeps
  <2>3. ASSUME NEW l \in Loops, Retry(l) PROVE IdentityInv'
    BY <2>3, RetryKeeps
  <2>4. ASSUME NEW l \in Loops, NEW o \in Outcomes, Answer(l, o) PROVE IdentityInv'
    BY <2>4, AnswerKeeps
  <2>5. ASSUME NEW l \in Loops, Wake(l) PROVE IdentityInv'
    BY <2>5, QuietKeeps DEF Wake, Resolved, Flying, IdentityInv
  <2>6. ASSUME NEW l \in Loops, Complete(l) PROVE IdentityInv'
    BY <2>6, QuietKeeps DEF Complete, Started, Flying, IdentityInv
  <2>7. ASSUME NEW l \in Loops, Fail(l) PROVE IdentityInv'
    BY <2>7, QuietKeeps DEF Fail, Started, Flying, IdentityInv
  <2>8. CASE Crash
    BY <2>8, QuietKeeps DEF Crash, Idle, Off, Flying
  <2>9. CASE Boot
    BY <2>9, QuietKeeps DEF Boot, Started, Off, Flying
  <2>10. CASE UNCHANGED vars
    BY <2>10, QuietKeeps DEF vars, IdentityInv
  <2> QED BY <2>1, <2>2, <2>3, <2>4, <2>5, <2>6, <2>7, <2>8, <2>9, <2>10 DEF Next, Step
<1> QED BY <1>1, <1>2, PTL DEF Spec

\* Whatever the runs, deliveries, retries and kills: one operation, one effect
\* id, and so one Idempotency-Key at the provider.
THEOREM OperationHasOneIdentity == Spec => []OneIdentity
<1>1. IdentityInv => OneIdentity
  BY DEF IdentityInv
<1> QED BY <1>1, IdentityInvHolds, PTL

-----------------------------------------------------------------------------
(* Sets of naturals                                                        *)

LEMMA LeastNatural ==
  ASSUME NEW T, T \subseteq Nat, T # {}
  PROVE  \E m \in T : \A k \in T : m <= k
<1> DEFINE R == OpToRel(<, Nat)
<1>1. IsWellFoundedOn(R, Nat)
  BY NatLessThanWellFounded
<1>2. PICK m \in T : \A k \in T : ~ (<<k, m>> \in R)
  <2> HIDE DEF R
  <2> QED BY <1>1, WFMin, Zenon
<1>3. \A k, l \in Nat : k < l => <<k, l>> \in R
  BY DEF OpToRel
<1>4. \A k \in T : m <= k
  <2> TAKE k \in T
  <2>1. k \in Nat /\ m \in Nat
    OBVIOUS
  <2>2. ~ (k < m)
    <3> HIDE DEF R
    <3> QED BY <1>2, <1>3, <2>1, Zenon
  <2> QED BY <2>1, <2>2
<1> QED BY <1>4

LEMMA GreatestNatural ==
  ASSUME NEW T, T \subseteq Nat, T # {}, NEW n \in Nat, \A k \in T : k <= n
  PROVE  \E m \in T : \A k \in T : k <= m
<1> DEFINE U == {n - k : k \in T}
<1>1. U \subseteq Nat /\ U # {}
  <2>1. \A k \in T : k \in Nat /\ n - k \in Nat
    OBVIOUS
  <2> QED BY <2>1
<1>2. PICK u \in U : \A k \in U : u <= k
  <2> HIDE DEF U
  <2> QED BY <1>1, LeastNatural
<1>3. PICK m \in T : u = n - m
  BY <1>2
<1>4. ASSUME NEW k \in T PROVE k <= m
  <2>1. n - k \in U /\ m \in Nat /\ k \in Nat
    OBVIOUS
  <2>2. n - m <= n - k
    BY <1>2, <1>3, <2>1
  <2> QED BY <2>1, <2>2
<1> QED BY <1>4

-----------------------------------------------------------------------------
(* Sequences                                                               *)

LEMMA SeqBasics ==
  ASSUME NEW S, NEW p \in Seq(S)
  PROVE  /\ Len(p) \in Nat /\ DOMAIN p = 1 .. Len(p) /\ (p = <<>> <=> Len(p) = 0)
         /\ \A i \in 1 .. Len(p) : p[i] \in S
         /\ Range(p) \subseteq S
  BY DEF Range

LEMMA HeadAndTail ==
  ASSUME NEW S, NEW p \in Seq(S), p # <<>>
  PROVE  /\ Head(p) = p[1] /\ Tail(p) \in Seq(S) /\ Len(p) \in Nat \ {0} /\ Len(Tail(p)) = Len(p) - 1
         /\ \A i \in 1 .. Len(p) - 1 : Tail(p)[i] = p[i + 1]
  OBVIOUS

LEMMA Joined ==
  ASSUME NEW S, NEW p \in Seq(S), NEW q \in Seq(S)
  PROVE  /\ p \o q \in Seq(S) /\ Len(p \o q) = Len(p) + Len(q)
         /\ \A i \in 1 .. Len(p) : (p \o q)[i] = p[i]
         /\ \A i \in 1 .. Len(q) : (p \o q)[Len(p) + i] = q[i]
  OBVIOUS

LEMMA JoinedRange ==
  ASSUME NEW S, NEW p \in Seq(S), NEW q \in Seq(S)
  PROVE  /\ Range(p \o q) = Range(p) \cup Range(q)
         /\ IsInjective(p) /\ IsInjective(q) /\ Range(p) \cap Range(q) = {} => IsInjective(p \o q)
<1> DEFINE r == p \o q
<1>1. /\ r \in Seq(S) /\ Len(r) = Len(p) + Len(q)
      /\ \A i \in 1 .. Len(p) : r[i] = p[i]
      /\ \A i \in 1 .. Len(q) : r[Len(p) + i] = q[i]
  BY Joined
<1>2. /\ Len(p) \in Nat /\ DOMAIN p = 1 .. Len(p) /\ Len(q) \in Nat /\ DOMAIN q = 1 .. Len(q)
  BY SeqBasics
<1> HIDE DEF r
<1>3. DOMAIN r = 1 .. Len(p) + Len(q)
  BY <1>1, SeqBasics
<1>4. ASSUME NEW i \in DOMAIN r
      PROVE  \/ i \in 1 .. Len(p) /\ r[i] = p[i]
             \/ i - Len(p) \in 1 .. Len(q) /\ r[i] = q[i - Len(p)]
  <2>1. CASE i <= Len(p)
    BY <1>1, <1>2, <1>3, <2>1
  <2>2. CASE ~(i <= Len(p))
    <3>1. i - Len(p) \in 1 .. Len(q) /\ Len(p) + (i - Len(p)) = i
      BY <1>2, <1>3, <2>2
    <3> QED BY <1>1, <3>1
  <2> QED BY <2>1, <2>2
<1>5. Range(r) \subseteq Range(p) \cup Range(q)
  BY <1>2, <1>4 DEF Range
<1>6. Range(p) \cup Range(q) \subseteq Range(r)
  <2>1. ASSUME NEW i \in DOMAIN p PROVE p[i] \in Range(r)
    BY <1>1, <1>2, <1>3 DEF Range
  <2>2. ASSUME NEW i \in DOMAIN q PROVE q[i] \in Range(r)
    <3>1. Len(p) + i \in DOMAIN r /\ r[Len(p) + i] = q[i]
      BY <1>1, <1>2, <1>3
    <3> QED BY <3>1 DEF Range
  <2> QED BY <2>1, <2>2 DEF Range
<1>7. ASSUME IsInjective(p), IsInjective(q), Range(p) \cap Range(q) = {} PROVE IsInjective(r)
  <2> SUFFICES ASSUME NEW i \in DOMAIN r, NEW j \in DOMAIN r, r[i] = r[j] PROVE i = j
    BY DEF IsInjective
  <2>1. \A k \in DOMAIN p, m \in DOMAIN q : p[k] # q[m]
    BY <1>7 DEF Range
  <2>2. CASE i \in 1 .. Len(p) /\ r[i] = p[i]
    <3>1. j \in 1 .. Len(p) /\ r[j] = p[j]
      BY <1>2, <1>4, <2>1, <2>2
    <3> QED BY <1>2, <1>7, <2>2, <3>1 DEF IsInjective
  <2>3. CASE i - Len(p) \in 1 .. Len(q) /\ r[i] = q[i - Len(p)]
    <3>1. j - Len(p) \in 1 .. Len(q) /\ r[j] = q[j - Len(p)]
      BY <1>2, <1>4, <2>1, <2>3
    <3>2. i - Len(p) = j - Len(p)
      BY <1>2, <1>7, <2>3, <3>1 DEF IsInjective
    <3>3. i \in Int /\ j \in Int
      BY <1>2, <1>3
    <3> QED BY <1>2, <3>2, <3>3
  <2> QED BY <1>4, <2>2, <2>3
<1> QED BY <1>5, <1>6, <1>7 DEF r

(* A sequence that repeats nothing is as long as what it holds.            *)
LEMMA DistinctLength ==
  ASSUME NEW S, NEW p \in Seq(S), IsInjective(p)
  PROVE  IsFiniteSet(Range(p)) /\ Cardinality(Range(p)) = Len(p)
<1>1. Len(p) \in Nat /\ DOMAIN p = 1 .. Len(p)
  BY SeqBasics
<1>2. p \in [1 .. Len(p) -> Range(p)]
  BY <1>1 DEF Range
<1>3. p \in Bijection(1 .. Len(p), Range(p))
  BY <1>1, <1>2 DEF Bijection, Injection, Surjection, Range
<1>4. IsFiniteSet(1 .. Len(p)) /\ Cardinality(1 .. Len(p)) = Len(p)
  BY <1>1, FS_Interval
<1> QED BY <1>3, <1>4, FS_Bijection DEF ExistsBijection

(* The elements at some positions, in their order.                         *)
LEMMA PickedElements ==
  ASSUME NEW S, NEW s \in Seq(S), NEW places \in SUBSET DOMAIN s
  PROVE  /\ Picked(s, places) \in Seq(S)
         /\ Range(Picked(s, places)) = {s[i] : i \in places}
         /\ (\A i, j \in places : s[i] = s[j] => i = j) => IsInjective(Picked(s, places))
<1> DEFINE place(i) == Cardinality({j \in places : j <= i})
           n == Cardinality(places)
           f == [i \in places |-> place(i)]
           at(k) == CHOOSE i \in places : place(i) = k
           p == Picked(s, places)
<1>1. DOMAIN s = 1 .. Len(s) /\ Len(s) \in Nat /\ places \subseteq Nat
  BY SeqBasics
<1>2. IsFiniteSet(places) /\ n \in Nat
  <2>1. IsFiniteSet(1 .. Len(s))
    BY <1>1, FS_Interval
  <2> QED BY <1>1, <2>1, FS_Subset, FS_CardinalityType
<1>3. ASSUME NEW i \in places
      PROVE  /\ IsFiniteSet({j \in places : j <= i}) /\ place(i) \in 1 .. n
  <2> DEFINE T == {j \in places : j <= i}
  <2>1. T \in SUBSET places /\ i \in T
    BY <1>1
  <2>2. IsFiniteSet(T) /\ Cardinality(T) <= n /\ Cardinality(T) \in Nat
    BY <1>2, <2>1, FS_Subset, FS_CardinalityType
  <2>3. Cardinality(T) # 0
    BY <2>1, <2>2, FS_EmptySet
  <2> HIDE DEF T, n
  <2>4. Cardinality(T) \in 1 .. n
    BY <1>2, <2>2, <2>3
  <2> QED BY <2>2, <2>4 DEF T
<1>4. ASSUME NEW i \in places, NEW j \in places, i < j PROVE place(i) # place(j)
  <2> DEFINE T == {k \in places : k <= i}
             U == {k \in places : k <= j}
  <2>1. T \in SUBSET U /\ T # U
    BY <1>1, <1>4
  <2>2. IsFiniteSet(U)
    BY <1>3
  <2>3. Cardinality(T) # Cardinality(U)
    <3> HIDE DEF T, U
    <3> QED BY <2>1, <2>2, FS_Subset
  <2> QED BY <2>3
<1>5. f \in Injection(places, 1 .. n)
  <2>1. f \in [places -> 1 .. n]
    BY <1>3
  <2>2. ASSUME NEW i \in places, NEW j \in places, f[i] = f[j] PROVE i = j
    <3>1. place(i) = place(j) /\ i \in Nat /\ j \in Nat
      BY <1>1, <2>2
    <3>2. ~(i < j) /\ ~(j < i)
      BY <1>4, <3>1
    <3> QED BY <3>1, <3>2
  <2> HIDE DEF f
  <2> QED BY <2>1, <2>2 DEF Injection, IsInjective
<1>6. f \in Surjection(places, 1 .. n)
  <2>1. IsFiniteSet(1 .. n) /\ Cardinality(1 .. n) = n
    BY <1>2, FS_Interval
  <2> HIDE DEF f
  <2> QED BY <1>5, <2>1, FS_Injection
<1>7. ASSUME NEW k \in 1 .. n PROVE at(k) \in places /\ place(at(k)) = k
  <2>1. \E i \in places : place(i) = k
    BY <1>6 DEF Surjection
  <2> QED BY <2>1
<1>8. p = [k \in 1 .. n |-> s[at(k)]]
  BY DEF Picked
<1>9. ASSUME NEW i \in places PROVE at(place(i)) = i
  <2>1. place(i) \in 1 .. n
    BY <1>3
  <2>2. at(place(i)) \in places /\ place(at(place(i))) = place(i)
    BY <1>7, <2>1
  <2> QED BY <1>1, <1>4, <2>2
<1>10. \A i \in places : place(i) \in 1 .. n
  BY <1>3
<1> HIDE DEF at, n, p
<1>11. p \in Seq(S) /\ DOMAIN p = 1 .. n
  <2>1. ASSUME NEW k \in 1 .. n PROVE s[at(k)] \in S
    <3>1. at(k) \in DOMAIN s
      BY <1>7
    <3>2. \A i \in 1 .. Len(s) : s[i] \in S
      BY SeqBasics
    <3> QED BY <1>1, <3>1, <3>2
  <2>2. p \in [1 .. n -> S]
    BY <1>8, <2>1
  <2> QED BY <1>2, <2>2
<1> HIDE DEF place
<1>12. Range(p) = {s[i] : i \in places}
  <2>1. \A k \in 1 .. n : p[k] = s[at(k)] /\ at(k) \in places
    BY <1>7, <1>8
  <2>2. \A i \in places : place(i) \in 1 .. n /\ p[place(i)] = s[i]
    BY <1>8, <1>9, <1>10
  <2> QED BY <1>11, <2>1, <2>2 DEF Range
<1>13. ASSUME \A i, j \in places : s[i] = s[j] => i = j PROVE IsInjective(p)
  <2> SUFFICES ASSUME NEW k \in 1 .. n, NEW m \in 1 .. n, p[k] = p[m] PROVE k = m
    BY <1>11 DEF IsInjective
  <2>1. s[at(k)] = s[at(m)]
    BY <1>8
  <2>2. at(k) = at(m)
    BY <1>7, <1>13, <2>1
  <2> QED BY <1>7, <2>2
<1> QED BY <1>11, <1>12, <1>13 DEF p

-----------------------------------------------------------------------------
(* The order of the nodes                                                  *)

WellFormed(v) ==
  /\ v.nodes \in Seq(Range(v.nodes)) /\ IsInjective(v.nodes)
  /\ v.links \in Seq(Links(v)) /\ \A l \in Links(v) : {l.from, l.to} \subseteq Range(v.nodes)

(* A node has its turn once every edge into it comes from an ordered one,  *)
(* and what is ordered comes after all it has an edge from.                *)
Due(v, order1, n) ==
  \A i \in DOMAIN v.links : v.links[i].to = n => v.links[i].from \in Range(order1)

Sane(v, k) ==
  /\ k.order \in Seq(Range(v.nodes)) /\ k.ready \in Seq(Range(v.nodes))
  /\ IsInjective(k.order) /\ IsInjective(k.ready) /\ Range(k.order) \cap Range(k.ready) = {}
  /\ \A n \in Range(v.nodes) : n \in Range(k.order) \cup Range(k.ready) <=> Due(v, k.order, n)
  /\ \A i \in DOMAIN v.links, p \in DOMAIN k.order :
       v.links[i].to = k.order[p] => \E q \in 1 .. p - 1 : k.order[q] = v.links[i].from

LEMMA LinkEnds ==
  ASSUME NEW v, WellFormed(v)
  PROVE  /\ Len(v.links) \in Nat /\ DOMAIN v.links = 1 .. Len(v.links)
         /\ \A i \in DOMAIN v.links : v.links[i].from \in Range(v.nodes) /\ v.links[i].to \in Range(v.nodes)
         /\ Targets(v) \in Seq(Range(v.nodes)) /\ DOMAIN Targets(v) = DOMAIN v.links
         /\ \A i \in DOMAIN v.links : Targets(v)[i] = v.links[i].to
<1>1. Len(v.links) \in Nat /\ DOMAIN v.links = 1 .. Len(v.links)
  BY SeqBasics DEF WellFormed
<1>2. \A i \in DOMAIN v.links : v.links[i].from \in Range(v.nodes) /\ v.links[i].to \in Range(v.nodes)
  BY DEF WellFormed, Links, Range
<1>3. Targets(v) = [i \in DOMAIN v.links |-> v.links[i].to]
  BY DEF Targets
<1>4. Targets(v) \in [1 .. Len(v.links) -> Range(v.nodes)]
  BY <1>1, <1>2, <1>3
<1> QED BY <1>1, <1>2, <1>3, <1>4

LEMMA KahnInitSane ==
  ASSUME NEW v, WellFormed(v)
  PROVE  Sane(v, KahnInit(v)) /\ KahnInit(v).order = <<>>
<1> DEFINE N == Range(v.nodes)
           places == {i \in DOMAIN v.nodes : v.nodes[i] \notin Range(Targets(v))}
           ready == Picked(v.nodes, places)
<1>1. KahnInit(v).order = <<>> /\ KahnInit(v).ready = ready
  BY DEF KahnInit
<1>2. v.nodes \in Seq(N) /\ IsInjective(v.nodes) /\ places \in SUBSET DOMAIN v.nodes
  BY DEF WellFormed
<1>3. ready \in Seq(N) /\ Range(ready) = {v.nodes[i] : i \in places} /\ IsInjective(ready)
  <2> HIDE DEF places, N
  <2>1. \A i, j \in places : v.nodes[i] = v.nodes[j] => i = j
    BY <1>2 DEF IsInjective
  <2> QED BY <1>2, <2>1, PickedElements
<1>4. <<>> \in Seq(N) /\ DOMAIN <<>> = {} /\ Range(<<>>) = {} /\ IsInjective(<<>>)
  <2>1. <<>> \in Seq(N) /\ DOMAIN <<>> = {}
    OBVIOUS
  <2> QED BY <2>1 DEF Range, IsInjective
<1>5. ASSUME NEW n \in N PROVE n \in Range(ready) <=> Due(v, <<>>, n)
  <2>1. n \in Range(Targets(v)) <=> \E i \in DOMAIN v.links : v.links[i].to = n
    BY LinkEnds DEF Range
  <2>2. Due(v, <<>>, n) <=> n \notin Range(Targets(v))
    BY <1>4, <2>1 DEF Due
  <2>3. n \in Range(ready) <=> n \notin Range(Targets(v))
    BY <1>3 DEF Range
  <2> QED BY <2>2, <2>3
<1> HIDE DEF ready, N
<1>6. \A n \in N : n \in Range(<<>>) \cup Range(ready) <=> Due(v, <<>>, n)
  BY <1>4, <1>5
<1> QED BY <1>1, <1>3, <1>4, <1>6 DEF Sane, N

(* The edges freed by a node lead to what becomes due with it.             *)
LEMMA FreedTargets ==
  ASSUME NEW v, WellFormed(v), NEW k, Sane(v, k), NEW h \in Range(k.ready)
  PROVE  LET F == Freed(v, k.order, h)
             T == {Targets(v)[i] : i \in F} IN
         /\ F \in SUBSET DOMAIN Targets(v)
         /\ \A i, j \in F : Targets(v)[i] = Targets(v)[j] => i = j
         /\ \A n \in Range(v.nodes) :
              n \in T <=> /\ n \notin Range(k.order) \cup Range(k.ready)
                          /\ \A i \in DOMAIN v.links :
                               v.links[i].to = n => v.links[i].from \in Range(k.order) \cup {h}
<1> DEFINE F == Freed(v, k.order, h)
           T == {Targets(v)[i] : i \in F}
           D == DOMAIN v.links
<1>1. D = 1 .. Len(v.links) /\ Len(v.links) \in Nat
  BY LinkEnds
<1>2. ASSUME NEW i
      PROVE  i \in F <=> /\ i \in D /\ v.links[i].from \notin Range(k.order) /\ v.links[i].from = h
                         /\ \A j \in D : v.links[j].from \notin Range(k.order) /\ v.links[j].to = v.links[i].to
                                         => v.links[j].from = h /\ j <= i
  BY DEF Freed, Unordered
<1>3. \A i \in D : Targets(v)[i] = v.links[i].to
  BY LinkEnds
<1>4. h \notin Range(k.order)
  BY DEF Sane
<1>5. F \in SUBSET DOMAIN Targets(v)
  BY <1>2, LinkEnds
<1> HIDE DEF F
<1>6. \A i, j \in F : Targets(v)[i] = Targets(v)[j] => i = j
  <2> SUFFICES ASSUME NEW i \in F, NEW j \in F, Targets(v)[i] = Targets(v)[j] PROVE i = j
    OBVIOUS
  <2>1. v.links[i].to = v.links[j].to /\ i \in D /\ j \in D
    BY <1>2, <1>3
  <2>2. i <= j /\ j <= i
    BY <1>2, <2>1
  <2> QED BY <1>1, <2>1, <2>2
<1>7. ASSUME NEW n \in Range(v.nodes), n \in T
      PROVE  /\ n \notin Range(k.order) \cup Range(k.ready)
             /\ \A i \in D : v.links[i].to = n => v.links[i].from \in Range(k.order) \cup {h}
  <2>1. PICK i \in F : n = Targets(v)[i]
    BY <1>7
  <2>2. i \in D /\ v.links[i].to = n /\ v.links[i].from \notin Range(k.order)
    BY <1>2, <1>3, <2>1
  <2>3. ~ Due(v, k.order, n)
    BY <2>2 DEF Due
  <2>4. \A j \in D : v.links[j].to = n => v.links[j].from \in Range(k.order) \cup {h}
    BY <1>2, <2>1, <2>2
  <2> QED BY <2>3, <2>4 DEF Sane
<1>8. ASSUME NEW n \in Range(v.nodes), n \notin Range(k.order) \cup Range(k.ready),
             \A i \in D : v.links[i].to = n => v.links[i].from \in Range(k.order) \cup {h}
      PROVE  n \in T
  <2> DEFINE E == {i \in D : v.links[i].to = n /\ v.links[i].from \notin Range(k.order)}
  <2>1. ~ Due(v, k.order, n)
    BY <1>8 DEF Sane
  <2>2. E # {} /\ E \subseteq Nat /\ \A i \in E : i <= Len(v.links)
    BY <1>1, <2>1 DEF Due
  <2>3. PICK i \in E : \A j \in E : j <= i
    <3> HIDE DEF E
    <3> QED BY <1>1, <2>2, GreatestNatural
  <2>4. i \in F
    BY <1>2, <1>8, <2>3
  <2> QED BY <1>3, <2>3, <2>4
<1> QED BY <1>5, <1>6, <1>7, <1>8 DEF F

LEMMA KahnStepSane ==
  ASSUME NEW v, WellFormed(v), NEW k, Sane(v, k), k.ready # <<>>
  PROVE  Sane(v, KahnStep(v, k)) /\ Len(KahnStep(v, k).order) = Len(k.order) + 1
<1> DEFINE N == Range(v.nodes)
           h == Head(k.ready)
           F == Freed(v, k.order, h)
           next == Picked(Targets(v), F)
           order1 == Append(k.order, h)
           ready1 == Tail(k.ready) \o next
<1>1. KahnStep(v, k).order = order1 /\ KahnStep(v, k).ready = ready1
  BY DEF KahnStep
<1>2. /\ k.order \in Seq(N) /\ k.ready \in Seq(N) /\ IsInjective(k.order) /\ IsInjective(k.ready)
      /\ Range(k.order) \cap Range(k.ready) = {}
  BY DEF Sane
<1>3. /\ Len(k.ready) \in Nat \ {0} /\ DOMAIN k.ready = 1 .. Len(k.ready) /\ h = k.ready[1]
      /\ Tail(k.ready) \in Seq(N) /\ DOMAIN Tail(k.ready) = 1 .. Len(k.ready) - 1
      /\ \A i \in 1 .. Len(k.ready) - 1 : Tail(k.ready)[i] = k.ready[i + 1]
  <2> HIDE DEF N
  <2>1. /\ h = k.ready[1] /\ Tail(k.ready) \in Seq(N) /\ Len(k.ready) \in Nat \ {0}
        /\ Len(Tail(k.ready)) = Len(k.ready) - 1
        /\ \A i \in 1 .. Len(k.ready) - 1 : Tail(k.ready)[i] = k.ready[i + 1]
    BY <1>2, HeadAndTail
  <2>2. DOMAIN k.ready = 1 .. Len(k.ready) /\ DOMAIN Tail(k.ready) = 1 .. Len(k.ready) - 1
    BY <1>2, <2>1, SeqBasics
  <2> QED BY <2>1, <2>2
<1> HIDE DEF h
<1>4. h \in Range(k.ready) /\ h \in N /\ h \notin Range(k.order)
  <2>1. h \in Range(k.ready)
    BY <1>3 DEF Range
  <2> HIDE DEF N
  <2>2. h \in N
    BY <1>2, <2>1, SeqBasics
  <2> QED BY <1>2, <2>1, <2>2
<1>5. Range(Tail(k.ready)) = Range(k.ready) \ {h} /\ IsInjective(Tail(k.ready))
  <2>1. \A i \in 1 .. Len(k.ready) - 1 : i + 1 \in DOMAIN k.ready /\ i + 1 # 1
    BY <1>3
  <2>2. ASSUME NEW i \in DOMAIN k.ready, k.ready[i] # h PROVE k.ready[i] \in Range(Tail(k.ready))
    <3>1. i - 1 \in 1 .. Len(k.ready) - 1 /\ (i - 1) + 1 = i
      BY <1>3, <2>2
    <3> QED BY <1>3, <3>1 DEF Range
  <2>3. ASSUME NEW i \in DOMAIN Tail(k.ready) PROVE Tail(k.ready)[i] \in Range(k.ready) \ {h}
    <3>1. Tail(k.ready)[i] = k.ready[i + 1] /\ i + 1 \in DOMAIN k.ready /\ i + 1 # 1 /\ 1 \in DOMAIN k.ready
      BY <1>3, <2>1
    <3>2. k.ready[i + 1] # k.ready[1]
      BY <1>2, <3>1 DEF IsInjective
    <3> QED BY <1>3, <3>1, <3>2 DEF Range
  <2>4. IsInjective(Tail(k.ready))
    <3> SUFFICES ASSUME NEW i \in DOMAIN Tail(k.ready), NEW j \in DOMAIN Tail(k.ready), Tail(k.ready)[i] = Tail(k.ready)[j]
                 PROVE  i = j
      BY DEF IsInjective
    <3>1. i + 1 = j + 1
      BY <1>2, <1>3, <2>1 DEF IsInjective
    <3> QED BY <1>3, <3>1
  <2> QED BY <2>2, <2>3, <2>4 DEF Range
<1> DEFINE T == {Targets(v)[i] : i \in F}
<1>6. /\ F \in SUBSET DOMAIN Targets(v)
      /\ \A i, j \in F : Targets(v)[i] = Targets(v)[j] => i = j
      /\ \A n \in N : n \in T <=> /\ n \notin Range(k.order) \cup Range(k.ready)
                                  /\ \A i \in DOMAIN v.links : v.links[i].to = n => v.links[i].from \in Range(k.order) \cup {h}
  BY <1>4, FreedTargets
<1> HIDE DEF F
<1>7. next \in Seq(N) /\ Range(next) = T /\ IsInjective(next)
  <2> HIDE DEF N
  <2>1. Targets(v) \in Seq(N)
    BY LinkEnds DEF N
  <2> QED BY <1>6, <2>1, PickedElements
<1> HIDE DEF T, next
<1>8. T \subseteq N /\ T \cap (Range(k.order) \cup Range(k.ready)) = {}
  <2>1. T \subseteq N
    <3> HIDE DEF N
    <3> QED BY <1>7, SeqBasics
  <2> QED BY <1>6, <2>1
<1> HIDE DEF N
<1>9. /\ ready1 \in Seq(N) /\ Range(ready1) = (Range(k.ready) \ {h}) \cup T /\ IsInjective(ready1)
  <2>1. ready1 \in Seq(N)
    BY <1>3, <1>7
  <2>2. Range(Tail(k.ready)) \cap Range(next) = {}
    BY <1>5, <1>7, <1>8
  <2>3. /\ Range(Tail(k.ready) \o next) = Range(Tail(k.ready)) \cup Range(next)
        /\ IsInjective(Tail(k.ready) \o next)
    BY <1>3, <1>5, <1>7, <2>2, JoinedRange
  <2> QED BY <1>5, <1>7, <2>1, <2>3
<1>10. /\ order1 \in Seq(N) /\ Len(order1) = Len(k.order) + 1 /\ DOMAIN order1 = 1 .. Len(k.order) + 1
       /\ Len(k.order) \in Nat /\ DOMAIN k.order = 1 .. Len(k.order)
       /\ order1[Len(k.order) + 1] = h /\ \A i \in 1 .. Len(k.order) : order1[i] = k.order[i]
  BY <1>2, <1>4
<1> HIDE DEF order1, ready1
<1>11. Range(order1) = Range(k.order) \cup {h} /\ IsInjective(order1)
  <2>1. \A i \in DOMAIN order1 : i = Len(k.order) + 1 \/ i \in DOMAIN k.order
    BY <1>10
  <2>2. Range(order1) = Range(k.order) \cup {h}
    <3>1. \A i \in DOMAIN k.order : i \in DOMAIN order1 /\ order1[i] = k.order[i]
      BY <1>10
    <3>2. Len(k.order) + 1 \in DOMAIN order1
      BY <1>10
    <3> QED BY <1>10, <2>1, <3>1, <3>2 DEF Range
  <2>3. IsInjective(order1)
    <3>1. \A i \in DOMAIN k.order : order1[i] = k.order[i] /\ order1[i] # h
      BY <1>4, <1>10 DEF Range
    <3> QED BY <1>2, <1>10, <2>1, <3>1 DEF IsInjective
  <2> QED BY <2>2, <2>3
<1>12. Range(order1) \cap Range(ready1) = {}
  BY <1>2, <1>4, <1>8, <1>9, <1>11
<1>13. ASSUME NEW n \in N PROVE n \in Range(order1) \cup Range(ready1) <=> Due(v, order1, n)
  <2>1. Due(v, order1, n) <=> \A i \in DOMAIN v.links : v.links[i].to = n => v.links[i].from \in Range(k.order) \cup {h}
    BY <1>11 DEF Due
  <2>2. n \in Range(order1) \cup Range(ready1) <=> n \in Range(k.order) \cup Range(k.ready) \cup T
    BY <1>4, <1>9, <1>11
  <2>3. n \in Range(k.order) \cup Range(k.ready) => Due(v, order1, n)
    <3>1. n \in Range(k.order) \cup Range(k.ready) <=> Due(v, k.order, n)
      BY DEF Sane, N
    <3> QED BY <1>11, <3>1 DEF Due
  <2> QED BY <1>6, <2>1, <2>2, <2>3
<1>14. ASSUME NEW i \in DOMAIN v.links, NEW p \in DOMAIN order1, v.links[i].to = order1[p]
       PROVE  \E q \in 1 .. p - 1 : order1[q] = v.links[i].from
  <2>1. CASE p \in DOMAIN k.order
    <3>1. PICK q \in 1 .. p - 1 : k.order[q] = v.links[i].from
      BY <1>10, <1>14, <2>1 DEF Sane
    <3>2. order1[q] = k.order[q]
      BY <1>10, <2>1, <3>1
    <3> QED BY <3>1, <3>2
  <2>2. CASE p = Len(k.order) + 1
    <3>1. Due(v, k.order, h)
      BY <1>4 DEF Sane, N
    <3>2. v.links[i].from \in Range(k.order)
      BY <1>10, <1>14, <2>2, <3>1 DEF Due
    <3>3. PICK q \in 1 .. Len(k.order) : k.order[q] = v.links[i].from
      BY <1>10, <3>2 DEF Range
    <3> QED BY <1>10, <2>2, <3>3
  <2> QED BY <1>10, <2>1, <2>2
<1> QED BY <1>1, <1>9, <1>10, <1>11, <1>12, <1>13, <1>14 DEF Sane, N

(* The states of Kahn's algorithm src to its m-th step.                     *)
Ordering(v, kahn, m) ==
  /\ kahn = [i \in 0 .. m |-> kahn[i]]
  /\ kahn[0] = KahnInit(v)
  /\ \A i \in 1 .. m : kahn[i] = KahnStep(v, kahn[i - 1])

LEMMA OrderingExists ==
  ASSUME NEW v, NEW m \in Nat
  PROVE  \E kahn : Ordering(v, kahn, m)
<1> DEFINE Bad == {n \in Nat : ~ \E kahn : Ordering(v, kahn, n)}
<1>1. SUFFICES ASSUME Bad # {} PROVE FALSE
  OBVIOUS
<1>2. PICK n \in Bad : \A k \in Bad : n <= k
  <2>1. Bad \subseteq Nat
    OBVIOUS
  <2> HIDE DEF Bad
  <2> QED BY <1>1, <2>1, LeastNatural
<1>3. CASE n = 0
  <2>1. Ordering(v, [i \in 0 .. 0 |-> KahnInit(v)], 0)
    BY DEF Ordering
  <2> QED BY <1>3, <2>1
<1>4. CASE n # 0
  <2>1. n - 1 \in Nat /\ ~(n <= n - 1) /\ n \in Nat
    BY <1>4
  <2>2. PICK kahn : Ordering(v, kahn, n - 1)
    BY <1>2, <2>1
  <2> DEFINE longer == [i \in 0 .. n |-> IF i = n THEN KahnStep(v, kahn[n - 1]) ELSE kahn[i]]
  <2>3. Ordering(v, longer, n)
    <3>1. \A i \in 0 .. n - 1 : longer[i] = kahn[i]
      BY <2>1
    <3>2. longer[n] = KahnStep(v, longer[n - 1])
      BY <2>1, <3>1
    <3>3. \A i \in 1 .. n - 1 : i - 1 \in 0 .. n - 1 /\ i \in 0 .. n - 1
      BY <2>1
    <3>4. \A i \in 1 .. n - 1 : kahn[i] = KahnStep(v, kahn[i - 1])
      BY <2>2 DEF Ordering
    <3>5. longer[0] = KahnInit(v)
      BY <2>1, <2>2, <3>1 DEF Ordering
    <3>6. longer = [i \in 0 .. n |-> longer[i]]
      OBVIOUS
    <3> HIDE DEF longer
    <3>7. ASSUME NEW i \in 1 .. n PROVE longer[i] = KahnStep(v, longer[i - 1])
      <4>1. CASE i = n
        BY <3>2, <4>1
      <4>2. CASE i # n
        <5>1. i \in 1 .. n - 1
          BY <2>1, <4>2
        <5> QED BY <3>1, <3>3, <3>4, <5>1
      <4> QED BY <4>1, <4>2
    <3> QED BY <3>5, <3>6, <3>7 DEF Ordering
  <2> QED BY <2>1, <2>3
<1> QED BY <1>3, <1>4

LEMMA OrderOfOrdering ==
  ASSUME NEW v, Len(v.nodes) \in Nat
  PROVE  \E kahn : /\ Ordering(v, kahn, Len(v.nodes))
                   /\ LET sorted == kahn[Len(v.nodes)].order IN
                      OrderNodes(v) = sorted \o Picked(v.nodes, {i \in DOMAIN v.nodes : v.nodes[i] \notin Range(sorted)})
<1>1. PICK f : Ordering(v, f, Len(v.nodes))
  BY OrderingExists
<1> DEFINE kahn == CHOOSE g : g = [i \in 0 .. Len(v.nodes) |-> IF i = 0 THEN KahnInit(v) ELSE KahnStep(v, g[i - 1])]
           sorted == kahn[Len(v.nodes)].order
<1>2. f = [i \in 0 .. Len(v.nodes) |-> IF i = 0 THEN KahnInit(v) ELSE KahnStep(v, f[i - 1])]
  <2>1. \A i \in 0 .. Len(v.nodes) : f[i] = IF i = 0 THEN KahnInit(v) ELSE KahnStep(v, f[i - 1])
    BY <1>1 DEF Ordering
  <2>2. f = [i \in 0 .. Len(v.nodes) |-> f[i]]
    BY <1>1 DEF Ordering
  <2> QED BY <2>1, <2>2
<1>3. kahn = [i \in 0 .. Len(v.nodes) |-> IF i = 0 THEN KahnInit(v) ELSE KahnStep(v, kahn[i - 1])]
  BY <1>2, Zenon
<1>4. OrderNodes(v) = sorted \o Picked(v.nodes, {i \in DOMAIN v.nodes : v.nodes[i] \notin Range(sorted)})
  BY Zenon DEF OrderNodes
<1> HIDE DEF kahn
<1>5. Ordering(v, kahn, Len(v.nodes))
  <2>1. \A i \in 0 .. Len(v.nodes) : kahn[i] = IF i = 0 THEN KahnInit(v) ELSE KahnStep(v, kahn[i - 1])
    BY <1>3
  <2>2. kahn = [i \in 0 .. Len(v.nodes) |-> kahn[i]]
    BY <1>3
  <2>3. kahn[0] = KahnInit(v)
    BY <2>1
  <2>4. \A i \in 1 .. Len(v.nodes) : kahn[i] = KahnStep(v, kahn[i - 1])
    BY <2>1
  <2> QED BY <2>2, <2>3, <2>4 DEF Ordering
<1> QED BY <1>4, <1>5

(* Each step orders one more node, until none is ready.                    *)
LEMMA OrderingSane ==
  ASSUME NEW v, WellFormed(v), NEW m \in Nat, NEW kahn, Ordering(v, kahn, m), NEW k \in 0 .. m
  PROVE  Sane(v, kahn[k]) /\ (Len(kahn[k].order) = k \/ kahn[k].ready = <<>>)
<1> DEFINE Good(i) == Sane(v, kahn[i]) /\ (Len(kahn[i].order) = i \/ kahn[i].ready = <<>>)
           Bad == {i \in 0 .. m : ~ Good(i)}
<1>1. SUFFICES ASSUME Bad # {} PROVE FALSE
  OBVIOUS
<1>2. PICK n \in Bad : \A i \in Bad : n <= i
  <2>1. Bad \subseteq Nat
    OBVIOUS
  <2> HIDE DEF Bad
  <2> QED BY <1>1, <2>1, LeastNatural
<1>3. Good(0)
  <2>1. kahn[0] = KahnInit(v)
    BY DEF Ordering
  <2>2. Len(<<>>) = 0
    OBVIOUS
  <2> QED BY <2>1, <2>2, KahnInitSane
<1>4. n # 0
  BY <1>2, <1>3
<1>5. n \in 1 .. m /\ Good(n - 1)
  <2>1. n \in 1 .. m /\ n - 1 \in 0 .. m /\ ~(n <= n - 1)
    BY <1>2, <1>4
  <2> QED BY <1>2, <2>1
<1>6. Good(n)
  <2>1. kahn[n] = KahnStep(v, kahn[n - 1])
    BY <1>5 DEF Ordering
  <2>2. CASE kahn[n - 1].ready = <<>>
    <3>1. kahn[n] = kahn[n - 1]
      BY <2>1, <2>2 DEF KahnStep
    <3> QED BY <1>5, <2>2, <3>1
  <2>3. CASE kahn[n - 1].ready # <<>>
    <3>1. Sane(v, kahn[n]) /\ Len(kahn[n].order) = Len(kahn[n - 1].order) + 1
      BY <1>5, <2>1, <2>3, KahnStepSane
    <3>2. Len(kahn[n - 1].order) = n - 1
      BY <1>5, <2>3
    <3> QED BY <1>5, <3>1, <3>2
  <2> QED BY <2>2, <2>3
<1> QED BY <1>2, <1>6

(* Where the nodes stand in an order that repeats none.                    *)
LEMMA PositionOf ==
  ASSUME NEW S, NEW p \in Seq(S), IsInjective(p), NEW i \in 1 .. Len(p)
  PROVE  Position(p, p[i]) = i
<1>1. DOMAIN p = 1 .. Len(p)
  BY SeqBasics
<1>2. Position(p, p[i]) = CHOOSE j \in DOMAIN p : p[j] = p[i]
  BY DEF Position
<1> QED BY <1>1, <1>2 DEF IsInjective

(* orderNodes loses and repeats no node, for any definition, and turns     *)
(* every edge forward when it can.                                         *)
LEMMA OrderNodesSound ==
  ASSUME NEW v, WellFormed(v)
  PROVE  LET o == OrderNodes(v) IN
         /\ o \in Seq(Range(v.nodes)) /\ IsInjective(o)
         /\ Range(o) = Range(v.nodes) /\ Len(o) = Len(v.nodes)
         /\ Acyclic(v) => \A l \in Links(v) : ~ IsBack(o, l)
<1> DEFINE N == Range(v.nodes)
           o == OrderNodes(v)
<1>1. v.nodes \in Seq(N) /\ IsInjective(v.nodes) /\ Len(v.nodes) \in Nat /\ DOMAIN v.nodes = 1 .. Len(v.nodes)
  BY SeqBasics DEF WellFormed
<1>2. PICK kahn :
        /\ Ordering(v, kahn, Len(v.nodes))
        /\ LET sorted == kahn[Len(v.nodes)].order IN
           o = sorted \o Picked(v.nodes, {i \in DOMAIN v.nodes : v.nodes[i] \notin Range(sorted)})
  BY <1>1, OrderOfOrdering
<1> DEFINE k == kahn[Len(v.nodes)]
           places == {i \in DOMAIN v.nodes : v.nodes[i] \notin Range(k.order)}
           rest == Picked(v.nodes, places)
<1>3. Sane(v, k) /\ (Len(k.order) = Len(v.nodes) \/ k.ready = <<>>)
  <2>1. Len(v.nodes) \in 0 .. Len(v.nodes)
    BY <1>1
  <2> QED BY <1>1, <1>2, <2>1, OrderingSane
<1>4. o = k.order \o rest
  BY <1>2
<1> HIDE DEF o, k
<1>5. k.order \in Seq(N) /\ k.ready \in Seq(N) /\ IsInjective(k.order)
  BY <1>3 DEF Sane
<1>6. rest \in Seq(N) /\ Range(rest) = {v.nodes[i] : i \in places} /\ IsInjective(rest)
  <2>1. places \in SUBSET DOMAIN v.nodes /\ \A i, j \in places : v.nodes[i] = v.nodes[j] => i = j
    BY <1>1 DEF IsInjective
  <2> HIDE DEF places, N
  <2> QED BY <1>1, <2>1, PickedElements
<1>7. Range(rest) = N \ Range(k.order)
  BY <1>6 DEF Range
<1> HIDE DEF rest, N
<1>8. Range(k.order) \subseteq N
  BY <1>5, SeqBasics
<1>9. o \in Seq(N) /\ Range(o) = N /\ IsInjective(o)
  <2>1. o \in Seq(N)
    BY <1>4, <1>5, <1>6
  <2>2. Range(k.order) \cap Range(rest) = {}
    BY <1>7
  <2>3. Range(k.order \o rest) = Range(k.order) \cup Range(rest) /\ IsInjective(k.order \o rest)
    BY <1>5, <1>6, <2>2, JoinedRange
  <2> QED BY <1>4, <1>7, <1>8, <2>1, <2>3
<1>10. IsFiniteSet(N) /\ Cardinality(N) = Len(v.nodes) /\ Cardinality(N) = Len(o)
  <2>1. IsFiniteSet(N) /\ Cardinality(N) = Len(o)
    BY <1>9, DistinctLength
  <2>2. Cardinality(Range(v.nodes)) = Len(v.nodes)
    BY <1>1, DistinctLength
  <2> QED BY <2>1, <2>2 DEF N
<1>11. ASSUME Acyclic(v), NEW l \in Links(v) PROVE ~ IsBack(o, l)
  <2>1. PICK rank \in [N -> 1 .. Len(v.nodes)] : \A e \in Links(v) : rank[e.from] < rank[e.to]
    BY <1>11 DEF Acyclic, N
  <2>2. Range(k.order) = N
    <3> SUFFICES ASSUME Range(k.order) # N PROVE FALSE
      OBVIOUS
    <3>1. k.ready = <<>>
      <4> SUFFICES ASSUME Len(k.order) = Len(v.nodes) PROVE FALSE
        BY <1>3
      <4>1. Cardinality(Range(k.order)) = Cardinality(N)
        BY <1>5, <1>10, DistinctLength
      <4> QED BY <1>8, <1>10, <4>1, FS_Subset
    <3>2. Range(k.ready) = {}
      BY <3>1 DEF Range
    <3> DEFINE R == {rank[n] : n \in N \ Range(k.order)}
    <3>3. R \subseteq Nat /\ R # {}
      <4>1. \A n \in N : rank[n] \in Nat
        BY <1>1, <2>1
      <4>2. N \ Range(k.order) # {}
        BY <1>8
      <4> QED BY <4>1, <4>2
    <3>4. PICK m \in R : \A r \in R : m <= r
      <4> HIDE DEF R
      <4> QED BY <3>3, LeastNatural
    <3>5. PICK n \in N \ Range(k.order) : m = rank[n]
      BY <3>4
    <3>6. ~ Due(v, k.order, n)
      BY <1>3, <3>2, <3>5 DEF Sane, N
    <3>7. PICK i \in DOMAIN v.links : v.links[i].to = n /\ v.links[i].from \notin Range(k.order)
      BY <3>6 DEF Due
    <3>8. v.links[i] \in Links(v) /\ v.links[i].from \in N
      BY <3>7, LinkEnds DEF Links, Range, N
    <3>9. rank[v.links[i].from] < m /\ rank[v.links[i].from] \in R
      BY <2>1, <3>5, <3>7, <3>8
    <3>10. m \in Nat /\ rank[v.links[i].from] \in Nat
      BY <3>3, <3>4, <3>9
    <3> HIDE DEF R
    <3>11. m <= rank[v.links[i].from]
      BY <3>4, <3>9
    <3> QED BY <3>9, <3>10, <3>11
  <2>3. PICK i \in DOMAIN v.links : l = v.links[i]
    BY <1>11 DEF Links, Range
  <2>4. l.to \in N
    BY <2>3, LinkEnds DEF N
  <2>5. PICK p \in DOMAIN k.order : k.order[p] = l.to
    BY <2>2, <2>4 DEF Range
  <2>6. PICK q \in 1 .. p - 1 : k.order[q] = l.from
    BY <1>3, <2>3, <2>5 DEF Sane
  <2>7. Len(k.order) \in Nat /\ DOMAIN k.order = 1 .. Len(k.order) /\ Len(rest) \in Nat
    BY <1>5, <1>6, SeqBasics
  <2>8. p \in 1 .. Len(o) /\ q \in 1 .. Len(o) /\ o[p] = l.to /\ o[q] = l.from /\ q < p
    <3>1. Len(o) = Len(k.order) + Len(rest) /\ \A j \in 1 .. Len(k.order) : o[j] = k.order[j]
      BY <1>4, <1>5, <1>6, Joined
    <3> QED BY <2>5, <2>6, <2>7, <3>1
  <2>9. Position(o, l.to) = p /\ Position(o, l.from) = q
    BY <1>9, <2>8, PositionOf
  <2>10. ~(q >= p)
    BY <2>8
  <2> QED BY <2>9, <2>10 DEF IsBack
<1> QED BY <1>9, <1>10, <1>11 DEF o, N

-----------------------------------------------------------------------------
(* The scheduling loop                                                     *)

SchedulerInv ==
  /\ w \in Workflows /\ order = OrderNodes(w)
  /\ \E S : events \in Seq(S)

LEMMA SchedulerInvHolds == SchedulerSpec => []SchedulerInv
<1>1. SchedulerInit => SchedulerInv
  <2>1. <<>> \in Seq({})
    OBVIOUS
  <2> QED BY <2>1 DEF SchedulerInit, SchedulerInv
<1>2. ASSUME SchedulerInv, [SchedulerNext]_schedulerVars PROVE SchedulerInv'
  <2>1. UNCHANGED <<w, order>>
    BY <1>2 DEF SchedulerNext, schedulerVars
  <2>2. (\E e : events' = Append(events, e)) \/ events' = events
    BY <1>2 DEF SchedulerNext, Skip, Start, Breach, Succeed, FailNode, Finish, schedulerVars
  <2>3. \E S : events' \in Seq(S)
    <3>1. PICK S : events \in Seq(S)
      BY <1>2 DEF SchedulerInv
    <3>2. CASE \E e : events' = Append(events, e)
      <4>1. PICK e : events' = Append(events, e)
        BY <3>2
      <4>2. events \in Seq(S \cup {e})
        BY <3>1
      <4> QED BY <4>1, <4>2
    <3> QED BY <2>2, <3>1, <3>2
  <2> QED BY <1>2, <2>1, <2>3 DEF SchedulerInv
<1> QED BY <1>1, <1>2, PTL DEF SchedulerSpec

LEMMA DefinitionsWellFormed == \A v \in Workflows : WellFormed(v)
  BY WorkflowsAssumption DEF WellFormed

(* Whatever the definition, and in whatever order its nodes and edges are  *)
(* written, the visiting order holds each node once, and has every edge of *)
(* a definition without a cycle forward (orderNodes).                      *)
THEOREM OrderIsSound == SchedulerSpec => []OrderSound
<1>1. SchedulerInv => OrderSound
  BY DefinitionsWellFormed, OrderNodesSound DEF SchedulerInv, OrderSound, Nodes
<1> QED BY <1>1, SchedulerInvHolds, PTL

(* The latest outcome of a node in a log is one of its events.             *)
LEMMA LatestOf ==
  ASSUME NEW S, NEW e \in Seq(S), NEW n, NEW types
  PROVE  LET m == LastOf(e, n, types) IN
         m \in Nat /\ (m # 0 => m \in DOMAIN e /\ e[m].node = n)
<1> DEFINE E == EventsOf(e, n, types) \cup {0}
<1>1. E \subseteq Nat /\ E # {} /\ Len(e) \in Nat /\ \A i \in E : i <= Len(e)
  BY SeqBasics DEF EventsOf
<1>2. LastOf(e, n, types) = CHOOSE x \in E : \A y \in E : x >= y
  BY DEF LastOf, Max
<1> HIDE DEF E
<1>3. PICK x \in E : \A y \in E : y <= x
  BY <1>1, GreatestNatural
<1>4. \A y \in E : x >= y
  BY <1>1, <1>3
<1>5. LastOf(e, n, types) \in E
  BY <1>2, <1>4
<1> QED BY <1>1, <1>5 DEF E, EventsOf

(* A node that starts is the first owed one whose forward sources owe      *)
(* nothing.                                                                *)
LEMMA StartedIsNext ==
  ASSUME SchedulerInv, SchedulerNext, Len(events') > Len(events), events'[Len(events')].type = "node.started"
  PROVE  \A l \in Links(w) :
           l.to = events'[Len(events')].node /\ ~ IsBack(order, l)
             => l.from \in Range(w.nodes) /\ ~ Owed(w, order, State, l.from)
<1> DEFINE Visits(n) == Skip(State, n) \/ Start(State, n) \/ Breach(State, n) \/ Succeed(State, n) \/ FailNode(State, n)
<1>1. PICK n : n = NextNode(w, order, State) /\ ((n # NoNode /\ Visits(n)) \/ Finish(n))
  BY DEF SchedulerNext
<1>2. PICK S : events \in Seq(S)
  BY DEF SchedulerInv
<1>3. \A e : LET more == Append(events, e) IN more[Len(more)] = e
  BY <1>2
<1>4. n # NoNode /\ events'[Len(events')].node = n
  <2>1. ~ Finish(n)
    <3>1. Len(events) \in Nat
      BY <1>2
    <3> QED BY <3>1 DEF Finish
  <2>2. PICK type, m, val : events' = Append(events, Event(type, m, val)) /\ (type = "node.started" => m = n)
    BY <1>1, <2>1 DEF Skip, Start, Breach, Succeed, FailNode
  <2>3. events'[Len(events')] = Event(type, m, val)
    BY <1>3, <2>2
  <2> QED BY <1>1, <2>1, <2>2, <2>3 DEF Event
<1> DEFINE owed == {m \in Range(w.nodes) : Owed(w, order, State, m)}
           eligible == {i \in DOMAIN order :
                          /\ order[i] \in owed
                          /\ \A l \in Links(w) : l.to = order[i] /\ ~ IsBack(order, l) => l.from \notin owed}
<1>5. eligible # {} /\ n = order[Min(eligible)]
  BY <1>1, <1>4 DEF NextNode
<1>6. Min(eligible) \in eligible
  <2>1. eligible \subseteq Nat
    <3>1. order \in Seq(Range(w.nodes))
      BY DefinitionsWellFormed, OrderNodesSound DEF SchedulerInv
    <3> QED BY <3>1, SeqBasics
  <2>2. Min(eligible) = CHOOSE x \in eligible : \A y \in eligible : x <= y
    BY DEF Min
  <2> HIDE DEF eligible
  <2>3. \E x \in eligible : \A y \in eligible : x <= y
    BY <1>5, <2>1, LeastNatural
  <2> QED BY <2>2, <2>3
<1>7. \A l \in Links(w) : l.from \in Range(w.nodes)
  BY DefinitionsWellFormed DEF SchedulerInv, WellFormed
<1> QED BY <1>4, <1>5, <1>6, <1>7

(* No node starts on a stale input: each of its forward sources was        *)
(* decided, and not before one of that source's own was decided again      *)
(* (nextNode).                                                             *)
THEOREM NoInputIsStale == SchedulerSpec => NoStaleInput
<1>1. ASSUME SchedulerInv, [SchedulerNext]_schedulerVars, Len(events') > Len(events),
             events'[Len(events')].type = "node.started", NEW l \in Forward(events'[Len(events')].node)
      PROVE  /\ State.outcome[l.from] # 0
             /\ \A src \in Forward(l.from) : State.outcome[src.from] < State.outcome[l.from]
  <2>1. PICK S : events \in Seq(S)
    BY <1>1 DEF SchedulerInv
  <2>2. SchedulerNext
    <3>1. Len(events) \in Nat
      BY <2>1
    <3> QED BY <1>1, <3>1 DEF schedulerVars
  <2>3. l.from \in Range(w.nodes) /\ ~ Owed(w, order, State, l.from)
    BY <1>1, <2>2, StartedIsNext DEF Forward
  <2>4. \A m \in Range(w.nodes) : State.outcome[m] = LastOf(events, m, OutcomeTypes)
    BY DEF State, Fold
  <2>5. ASSUME NEW m \in Range(w.nodes)
        PROVE  State.outcome[m] \in Nat /\ (State.outcome[m] # 0 => events[State.outcome[m]].node = m)
    BY <2>1, <2>4, LatestOf
  <2>6. State.outcome[l.from] # 0
    BY <2>3 DEF Owed
  <2>7. ASSUME NEW src \in Forward(l.from) PROVE State.outcome[src.from] < State.outcome[l.from]
    <3>1. src \in Links(w) /\ src.to = l.from /\ ~ IsBack(order, src)
      BY <2>7 DEF Forward
    <3>2. src.from \in Range(w.nodes)
      BY <1>1, <3>1, DefinitionsWellFormed DEF SchedulerInv, WellFormed
    <3>3. ~(State.outcome[src.from] > State.outcome[l.from])
      BY <2>3, <3>1 DEF Owed
    <3>4. src.from # l.from
      <4> SUFFICES ASSUME src.from = l.from PROVE IsBack(order, src)
        BY <3>1
      <4>1. order \in Seq(Range(w.nodes)) /\ IsInjective(order) /\ Range(order) = Range(w.nodes)
        BY <1>1, DefinitionsWellFormed, OrderNodesSound DEF SchedulerInv
      <4>2. PICK i \in DOMAIN order : order[i] = src.from
        BY <3>2, <4>1 DEF Range
      <4>3. Len(order) \in Nat /\ DOMAIN order = 1 .. Len(order)
        BY <4>1, SeqBasics
      <4>4. Position(order, src.from) = i /\ Position(order, src.to) = i
        BY <3>1, <4>1, <4>2, <4>3, PositionOf
      <4>5. i >= i
        BY <4>3
      <4> QED BY <4>4, <4>5 DEF IsBack
    <3>5. State.outcome[src.from] # State.outcome[l.from]
      BY <2>3, <2>5, <2>6, <3>2, <3>4
    <3> QED BY <2>3, <2>5, <3>2, <3>3, <3>5
  <2> QED BY <2>6, <2>7
<1>2. SchedulerInv /\ [SchedulerNext]_schedulerVars => [FreshInputs]_schedulerVars
  BY <1>1 DEF FreshInputs
<1> QED BY <1>2, SchedulerInvHolds, PTL DEF SchedulerSpec, NoStaleInput
=============================================================================
