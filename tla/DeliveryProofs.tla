--------------------------- MODULE DeliveryProofs ---------------------------
(***************************************************************************)
(* Theorems about what leaves the hosts: webhook deliveries of the v2 host   *)
(* (Webhooks), for any subscriptions, event types and bounds, and the event  *)
(* streams, polls and webhooks of the v1 hosts (HostStreams), for any host,  *)
(* cursors and number of events.                                             *)
(***************************************************************************)
EXTENDS Webhooks, HostStreams, FiniteSetTheorems, SequenceTheorems, WellFoundedInduction, TLAPS

(***************************************************************************)
(* Webhook deliveries.                                                       *)
(*                                                                           *)
(* The three properties lean on each other's bookkeeping, so one invariant  *)
(* carries them all.  LogsSound says how a fork's log relates to the        *)
(* history it inherits, and that without a kill the copy is whole when the  *)
(* fork takes its first step; SubsSound that what is being verified is a    *)
(* subscription that exists; RowsSound that only a verified subscription    *)
(* has deliveries and that a row never counts more attempts than were       *)
(* posted; QueueSound that what is queued or in flight has a row, and that  *)
(* a request in flight is already posted but not yet counted.  A delivery   *)
(* is then settled as its row says, history is never delivered, and the     *)
(* subscriptions present when an event is appended are those that get it.   *)
(* Counts, which rests on that invariant, says how often each was posted.   *)
(***************************************************************************)

\* A set of naturals that is not empty has a least element.
LEMMA LeastNatural ==
  ASSUME NEW T, T \subseteq Nat, T # {}
  PROVE  \E m \in T : \A k \in T : m <= k
<1> DEFINE R == OpToRel(<, Nat)
<1>1. IsWellFoundedOn(R, Nat)
  BY NatLessThanWellFounded
<1>2. PICK m \in T : \A k \in T : ~ (<<k, m>> \in R)
  <2> HIDE DEF R
  <2> QED BY <1>1, WFMin, Zenon
<1>3. \A k, l \in Nat : k < l => <<k, l>> \in R
  BY DEF OpToRel
<1>4. \A k \in T : m <= k
  <2> TAKE k \in T
  <2>1. k \in Nat /\ m \in Nat
    OBVIOUS
  <2>2. ~ (k < m)
    <3> HIDE DEF R
    <3> QED BY <1>2, <1>3, <2>1, Zenon
  <2> QED BY <2>1, <2>2
<1> QED BY <1>4

Solution(f, n, S, base, step) == f \in [0..n -> S] /\ f[0] = base /\ \A i \in 1..n : f[i] = step[i][f[i - 1]]

\* A recurrence over 0..n has a solution.
LEMMA Recurrence ==
  ASSUME NEW n \in Nat, NEW S, NEW base \in S, NEW step \in [1..n -> [S -> S]]
  PROVE  \E f : Solution(f, n, S, base, step)
<1> USE DEF Solution
<1> DEFINE Solves(m, f) == Solution(f, m, S, base, step)
           Bad == {m \in 0..n : ~ \E f : Solves(m, f)}
<1>1. SUFFICES ASSUME Bad # {} PROVE FALSE
  <2>1. n \notin Bad => \E f : Solves(n, f)
    OBVIOUS
  <2> QED BY <2>1
<1>2. PICK m \in Bad : \A k \in Bad : m <= k
  <2>1. Bad \subseteq Nat
    OBVIOUS
  <2> HIDE DEF Bad
  <2> QED BY <1>1, <2>1, LeastNatural, Zenon
<1>3. m \in 0..n /\ ~ \E f : Solves(m, f)
  OBVIOUS
<1>4. m # 0
  <2>1. Solves(0, [i \in 0..0 |-> base])
    OBVIOUS
  <2> QED BY <1>3, <2>1
<1>5. m - 1 \in 0..n /\ m - 1 \notin Bad
  <2>1. m - 1 \in 0..n /\ ~(m <= m - 1)
    BY <1>3, <1>4
  <2> QED BY <1>2, <2>1
<1>6. PICK f : Solves(m - 1, f)
  BY <1>5
<1>7. Solves(m, [i \in 0..m |-> IF i = m THEN step[m][f[m - 1]] ELSE f[i]])
  <2>1. f[m - 1] \in S /\ m \in 1..n
    BY <1>3, <1>4, <1>6
  <2>2. step[m][f[m - 1]] \in S
    BY <2>1
  <2> DEFINE g == [i \in 0..m |-> IF i = m THEN step[m][f[m - 1]] ELSE f[i]]
  <2>3. g \in [0..m -> S]
    BY <2>2, <1>6, <1>3
  <2>4. g[0] = base
    BY <1>4, <1>3, <1>6
  <2>5. ASSUME NEW i \in 1..m PROVE g[i] = step[i][g[i - 1]]
    <3>1. CASE i = m
      BY <3>1, <1>3, <1>4
    <3>2. CASE i # m
      BY <3>2, <1>3, <1>6
    <3> QED BY <3>1, <3>2
  <2> QED BY <2>3, <2>4, <2>5
<1> QED BY <1>3, <1>7

LEMMA WithoutLess ==
  ASSUME NEW S, NEW s \in Seq(S), NEW gone
  PROVE  Without(s, gone) \in Seq(S) /\ Range(Without(s, gone)) \subseteq Range(s)
<1> DEFINE T == {x \in S : \E i \in 1..Len(s) : s[i] = x}
           Q == Seq(T)
           step == [i \in 1..Len(s) |-> [q \in Q |-> IF s[i] \in gone THEN q ELSE Append(q, s[i])]]
           kept == CHOOSE f : f = [i \in 0..Len(s) |->
              IF i = 0 THEN <<>> ELSE IF s[i] \in gone THEN f[i - 1] ELSE Append(f[i - 1], s[i])]
<1>1. step \in [1..Len(s) -> [Q -> Q]]
  OBVIOUS
<1>2. PICK f \in [0..Len(s) -> Q] : f[0] = <<>> /\ \A i \in 1..Len(s) : f[i] = step[i][f[i - 1]]
  <2>1. <<>> \in Q /\ Len(s) \in Nat
    OBVIOUS
  <2> HIDE DEF step, Q, kept, T
  <2> DEFINE n == Len(s)
             base == <<>>
  <2>2. n \in Nat /\ base \in Q /\ step \in [1..n -> [Q -> Q]]
    BY <1>1, <2>1
  <2>3. \E f : Solution(f, n, Q, base, step)
    <3> HIDE DEF n, base
    <3> QED BY <2>2, Recurrence, Zenon
  <2> QED BY <2>3 DEF Solution
<1>3. f = [i \in 0..Len(s) |-> IF i = 0 THEN <<>> ELSE IF s[i] \in gone THEN f[i - 1] ELSE Append(f[i - 1], s[i])]
  OBVIOUS
<1>4. kept = [i \in 0..Len(s) |-> IF i = 0 THEN <<>> ELSE IF s[i] \in gone THEN kept[i - 1] ELSE Append(kept[i - 1], s[i])]
  BY <1>3, Zenon
<1>5. Without(s, gone) = kept[Len(s)]
  BY Zenon DEF Without
<1>6. kept \in [0..Len(s) -> Q]
  <2>1. \A i \in 0..Len(s) : kept[i] = f[i]
   <3> HIDE DEF kept
   <3> DEFINE Differ == {i \in 0..Len(s) : kept[i] # f[i]}
   <3>1. SUFFICES ASSUME Differ # {} PROVE FALSE
     OBVIOUS
   <3>2. PICK i \in Differ : \A j \in Differ : i <= j
     <4>1. Differ \subseteq Nat
       OBVIOUS
     <4> HIDE DEF Differ
     <4> QED BY <3>1, <4>1, LeastNatural, Zenon
   <3>3. i # 0
     BY <1>3, <1>4
   <3>4. i - 1 \in 0..Len(s) /\ kept[i - 1] = f[i - 1]
     BY <3>2, <3>3
   <3> QED BY <3>2, <3>3, <3>4, <1>3, <1>4
  <2> HIDE DEF kept, Q, step
  <2>2. kept = [i \in 0..Len(s) |-> kept[i]]
    BY <1>4
  <2> QED BY <2>1, <2>2
<1>7. kept[Len(s)] \in Q
  <2> HIDE DEF kept, Q
  <2> QED BY <1>6
<1>8. \A q \in Q : q \in Seq(S) /\ Range(q) \subseteq Range(s)
  BY DEF Range
<1> QED
  <2> HIDE DEF kept, Q
  <2> QED BY <1>5, <1>7, <1>8

LEMMA RangeAppend ==
  ASSUME NEW S, NEW s \in Seq(S), NEW x \in S
  PROVE  Append(s, x) \in Seq(S) /\ Range(Append(s, x)) \subseteq Range(s) \cup {x}
<1>1. /\ Len(s) \in Nat /\ DOMAIN s = 1..Len(s) /\ DOMAIN Append(s, x) = 1..(Len(s) + 1)
      /\ \A i \in 1..Len(s) : Append(s, x)[i] = s[i]
      /\ Append(s, x)[Len(s) + 1] = x
  OBVIOUS
<1>2. ASSUME NEW y \in Range(Append(s, x)) PROVE y \in Range(s) \cup {x}
  <2>1. PICK i \in 1..(Len(s) + 1) : y = Append(s, x)[i]
    BY <1>1 DEF Range
  <2>2. i \in 1..Len(s) \/ i = Len(s) + 1
    BY <1>1
  <2> QED BY <1>1, <2>1, <2>2 DEF Range
<1> QED BY <1>2

LEMMA RangeConcat ==
  ASSUME NEW S, NEW s \in Seq(S), NEW t \in Seq(S)
  PROVE  s \o t \in Seq(S) /\ Range(s \o t) \subseteq Range(s) \cup Range(t)
<1>1. /\ Len(s) \in Nat /\ DOMAIN s = 1..Len(s) /\ Len(t) \in Nat /\ DOMAIN t = 1..Len(t)
      /\ DOMAIN (s \o t) = 1..(Len(s) + Len(t))
      /\ \A i \in 1..(Len(s) + Len(t)) : (s \o t)[i] = IF i <= Len(s) THEN s[i] ELSE t[i - Len(s)]
  OBVIOUS
<1>2. ASSUME NEW y \in Range(s \o t) PROVE y \in Range(s) \cup Range(t)
  <2>1. PICK i \in 1..(Len(s) + Len(t)) : y = (s \o t)[i]
    BY <1>1 DEF Range
  <2>2. i \in 1..Len(s) \/ (i - Len(s) \in 1..Len(t) /\ ~(i <= Len(s)))
    BY <1>1
  <2> QED BY <1>1, <2>1, <2>2 DEF Range
<1> QED BY <1>2

---------------------------------------------------------------------------
(* The inductive invariant *)

Modes == {"none", "own", "replay", "branch"}

RowStates == {"none", "pending", "delivered", "dead-lettered", "purged"}

TypeOK ==
  /\ runs \in [Runs -> [mode : Modes, from : Nat, copied : Nat, log : Seq(Types)]]
  /\ subs \in [Subs -> {"new", "live", "gone"}]
  /\ rows \in [Keys -> [state : RowStates, attempts : Nat]]
  /\ due \in Seq(Keys) /\ verifying \subseteq Subs /\ flight \subseteq [key : Keys, attempts : Nat]
  /\ up \in BOOLEAN /\ produced \in Nat /\ crashes \in Nat
  /\ posts \in [Keys -> Nat] /\ accepted \subseteq Keys

\* What a fork inherited its source has; what was not inherited was produced.
LogsSound ==
  LET source == runs[Source]
      fork == runs[Fork]
  IN  /\ source.mode = "own" /\ source.from = 0 /\ source.copied = 0
      /\ fork.mode # "own" /\ fork.copied <= Len(source.log)
      /\ fork.copied <= fork.from /\ fork.copied <= Len(fork.log)
      /\ fork.mode = "none" => fork.from = 0 /\ fork.log = <<>>
      /\ produced <= MaxEvents /\ produced = Len(source.log) + (Len(fork.log) - fork.copied)
      /\ crashes = 0 => fork.copied = fork.from

\* A subscription is registered once; one that is gone does not come back.
SubsSound ==
  /\ \A s \in verifying : subs[s] = "new"
  /\ \A s \in Early : subs[s] # "new"

\* A row is of a subscription there was, and counts no attempt not made.
RowsSound ==
  \A k \in Keys : /\ rows[k].state # "none" => subs[k[1]] # "new"
                  /\ rows[k].attempts <= posts[k]

\* What is due has its row, and so has what is under way, whose POST is counted.
QueueSound ==
  /\ \A k \in Range(due) : rows[k].state # "none"
  /\ \A f \in flight : rows[f.key].state # "none" /\ f.attempts + 1 <= posts[f.key]

IInv ==
  /\ TypeOK /\ LogsSound /\ SubsSound /\ RowsSound /\ QueueSound
  /\ RowsTell /\ HistoryStaysQuiet /\ NoEventUnheard

---------------------------------------------------------------------------
(* Steps that produce nothing *)

\* No run changes, no row appears or disappears, no subscription comes back.
Settling ==
  /\ UNCHANGED <<runs, produced>>
  /\ crashes' \in Nat /\ crashes <= crashes'
  /\ \A k \in Keys : (rows'[k].state = "none") <=> (rows[k].state = "none")
  /\ \A s \in Subs : (subs'[s] = "new" => subs[s] = "new") /\ (subs[s] = "gone" => subs'[s] = "gone")

LEMMA KeyParts == \A k \in Keys : k[1] \in Subs /\ k[2] \in Runs /\ k[3] \in 1..MaxEvents /\ k = <<k[1], k[2], k[3]>>
BY DEF Keys

LEMMA SettlingKeeps ==
  ASSUME IInv, TypeOK', Settling
  PROVE  LogsSound' /\ HistoryStaysQuiet' /\ NoEventUnheard'
         /\ \A k \in Keys : rows'[k].state # "none" => subs'[k[1]] # "new"
<1>1. LogsSound'
  BY DEF IInv, TypeOK, LogsSound, Settling
<1>2. HistoryStaysQuiet'
  BY DEF IInv, HistoryStaysQuiet, Settling
<1>3. NoEventUnheard'
  <2>1. Early \cap Live' \subseteq Live
    BY WebhooksAssumption DEF IInv, TypeOK, SubsSound, Live, Settling
  <2>2. crashes' = 0 => crashes = 0
    BY DEF IInv, TypeOK, Settling
  <2> QED BY <2>1, <2>2 DEF IInv, NoEventUnheard, Settling
<1>4. ASSUME NEW k \in Keys, rows'[k].state # "none" PROVE subs'[k[1]] # "new"
  BY <1>4, KeyParts DEF IInv, RowsSound, Settling
<1> QED BY <1>1, <1>2, <1>3, <1>4

LEMMA KilledTyped == ASSUME IInv, Killed PROVE up' \in BOOLEAN /\ crashes' = crashes + 1 /\ flight' = {} /\ verifying' = {}
BY DEF Killed

LEMMA RegisterKeeps == ASSUME IInv, NEW s \in Subs, Register(s) \/ AskConsent(s) \/ Consent(s) \/ Unregister(s) PROVE IInv'
<1> USE DEF IInv, TypeOK
<1>1. /\ UNCHANGED <<runs, rows, due, flight, up, produced, crashes, posts, accepted>>
      /\ verifying' \subseteq verifying \cup {s} /\ (verifying' # verifying => s \notin verifying' \/ (subs' = subs /\ subs[s] = "new"))
      /\ \/ subs' = subs
         \/ subs[s] = "new" /\ s \notin verifying' /\ subs' = [subs EXCEPT ![s] = "live"]
         \/ subs[s] = "live" /\ subs' = [subs EXCEPT ![s] = "gone"]
  BY DEF Register, AskConsent, Consent, Unregister, SubsSound
<1>2. TypeOK'
  BY <1>1
<1>3. Settling
  BY <1>1 DEF Settling
<1>4. SubsSound'
  BY <1>1, WebhooksAssumption DEF SubsSound
<1>5. RowsSound'
  BY <1>1, <1>2, <1>3, SettlingKeeps DEF RowsSound
<1>6. QueueSound'
  BY <1>1 DEF QueueSound
<1>7. RowsTell'
  <2>1. \A k \in Keys : rows[k].state # "none" /\ k[1] \notin Live => k[1] \notin Live'
    BY <1>1, KeyParts DEF RowsSound, Live
  <2>2. \A k \in Keys : rows'[k] = rows[k] /\ posts'[k] = posts[k] /\ accepted' = accepted
    BY <1>1
  <2> QED BY <2>1, <2>2 DEF RowsTell
<1> QED BY <1>2, <1>3, <1>4, <1>5, <1>6, <1>7, SettlingKeeps

\* A step on rows and queue alone.
LEMMA SettledKeeps ==
  ASSUME IInv, TypeOK', UNCHANGED <<runs, produced, subs>>, crashes' \in {crashes, crashes + 1}, verifying' \subseteq verifying,
         \A k \in Keys : (rows'[k].state = "none") <=> (rows[k].state = "none"),
         \A k \in Keys : rows'[k].attempts <= posts'[k],
         QueueSound', RowsTell'
  PROVE  IInv'
<1>1. Settling
  BY DEF Settling, IInv, TypeOK
<1>2. SubsSound'
  BY DEF IInv, SubsSound
<1>3. RowsSound'
  BY <1>1, SettlingKeeps DEF RowsSound
<1> QED BY <1>1, <1>2, <1>3, SettlingKeeps DEF IInv

LEMMA DeathKeeps == ASSUME IInv, Crash \/ Boot PROVE IInv'
<1> USE DEF IInv, TypeOK
<1>1. /\ UNCHANGED <<runs, subs, rows, due, produced, posts>> /\ crashes' \in {crashes, crashes + 1}
      /\ up' \in BOOLEAN /\ verifying' \subseteq verifying /\ flight' \subseteq flight
      /\ accepted \subseteq accepted' /\ accepted' \subseteq Keys
  <2>1. InFlight \subseteq Keys
    BY DEF InFlight
  <2>2. CASE Crash
    BY <2>1, <2>2 DEF Crash, Killed
  <2>3. CASE Boot
    BY <2>3 DEF Boot
  <2> QED BY <2>2, <2>3
<1>2. TypeOK'
  BY <1>1
<1>3. QueueSound'
  BY <1>1 DEF QueueSound
<1>4. RowsTell'
  BY <1>1 DEF RowsTell, Live
<1> QED BY <1>1, <1>2, <1>3, <1>4, SettledKeeps DEF RowsSound

LEMMA RipenKeeps == ASSUME IInv, NEW k \in Keys, Ripen(k) \/ Purge(k) PROVE IInv'
<1> USE DEF IInv, TypeOK
<1>1. UNCHANGED <<runs, subs, verifying, flight, up, produced, crashes, posts, accepted>>
  BY DEF Ripen, Purge
<1>2. \/ rows[k].state = "pending" /\ due' = Append(due, k) /\ rows' = rows
      \/ rows[k].state = "dead-lettered" /\ due' = due /\ rows' = [rows EXCEPT ![k].state = "purged"]
  BY DEF Ripen, Purge
<1> DEFINE longer == Append(due, k)
<1>3. longer \in Seq(Keys) /\ Range(longer) \subseteq Range(due) \cup {k}
  <2>1. due \in Seq(Keys)
    OBVIOUS
  <2> QED BY <2>1, RangeAppend, Zenon
<1>4. TypeOK'
  <2>1. due' \in Seq(Keys)
    BY <1>2, <1>3
  <2>2. rows' \in [Keys -> [state : RowStates, attempts : Nat]]
    <3>1. [rows[k] EXCEPT !.state = "purged"] \in [state : RowStates, attempts : Nat]
      BY DEF RowStates
    <3> QED BY <1>2, <3>1
  <2> QED BY <1>1, <2>1, <2>2
<1>9. \A j \in Keys : /\ rows'[j].attempts = rows[j].attempts
                      /\ \/ rows'[j].state = rows[j].state
                         \/ rows[j].state = "dead-lettered" /\ rows'[j].state = "purged"
  <2>1. rows \in [Keys -> [state : RowStates, attempts : Nat]]
    OBVIOUS
  <2> HIDE DEF IInv, TypeOK
  <2>2. CASE rows' = rows
    BY <2>2
  <2>3. CASE rows[k].state = "dead-lettered" /\ rows' = [rows EXCEPT ![k].state = "purged"]
    <3>1. PICK row : row = [rows[k] EXCEPT !.state = "purged"]
      OBVIOUS
    <3>2. row.state = "purged" /\ row.attempts = rows[k].attempts
      BY <2>1, <3>1
    <3>3. rows' = [rows EXCEPT ![k] = row]
      BY <2>3, <3>1
    <3> QED BY <2>1, <2>3, <3>2, <3>3
  <2> QED BY <1>2, <2>2, <2>3
<1>5. \A j \in Keys : /\ (rows'[j].state = "none") <=> (rows[j].state = "none")
                      /\ rows'[j].attempts = rows[j].attempts
  BY ONLY <1>9
<1>6. Range(due') \subseteq Range(due) \cup {j \in Keys : rows[j].state # "none"}
  BY <1>2, <1>3
<1>7. QueueSound'
  <2>1. \A j \in Range(due') : j \in Keys
    BY <1>4 DEF Range
  <2> QED BY <1>1, <1>5, <1>6, <2>1 DEF QueueSound
<1>8. RowsTell'
  <2>1. RowsTell
    OBVIOUS
  <2> QED BY ONLY <1>1, <1>9, <2>1 DEF RowsTell, Live
<1> QED BY <1>1, <1>4, <1>5, <1>7, <1>8, SettledKeeps DEF RowsSound

LEMMA LandedKeeps == ASSUME IInv, NEW f \in flight, Delivered(f) \/ Refused(f) PROVE IInv'
<1> USE DEF IInv, TypeOK
<1>1. /\ f.key \in Keys /\ f.attempts \in Nat /\ MaxAttempts \in Nat
      /\ UNCHANGED <<runs, subs, verifying, up, produced, crashes, posts>>
      /\ flight' \subseteq flight /\ due' = Without(due, {f.key}) /\ accepted \subseteq accepted' /\ accepted' \subseteq Keys
  BY WebhooksAssumption DEF Delivered, Refused, Landed
<1>2. PICK state \in {"delivered", "dead-lettered", "pending"} :
        /\ rows' = [rows EXCEPT ![f.key] = [state |-> state, attempts |-> f.attempts + 1]]
        /\ state = "delivered" => f.key \in accepted'
        /\ state = "dead-lettered" => f.attempts + 1 >= MaxAttempts
  BY <1>1 DEF Delivered, Refused, Exhausted
<1>3. due' \in Seq(Keys) /\ Range(due') \subseteq Range(due)
  BY <1>1, WithoutLess
<1>4. TypeOK'
  <2>1. rows' \in [Keys -> [state : RowStates, attempts : Nat]]
    <3>1. rows \in [Keys -> [state : RowStates, attempts : Nat]]
      OBVIOUS
    <3>2. PICK row : row = [state |-> state, attempts |-> f.attempts + 1]
      OBVIOUS
    <3>3. f.attempts + 1 \in Nat /\ state \in RowStates
      BY ONLY <1>1, <1>2 DEF RowStates
    <3>4. row \in [state : RowStates, attempts : Nat]
      BY ONLY <3>2, <3>3
    <3>5. rows' = [rows EXCEPT ![f.key] = row]
      BY ONLY <1>2, <3>2
    <3> QED BY ONLY <3>1, <3>4, <3>5
  <2> QED BY <1>1, <1>3, <2>1
<1>5. rows[f.key].state # "none" /\ f.attempts + 1 <= posts[f.key]
  BY DEF QueueSound
<1>6. \A j \in Keys : /\ (rows'[j].state = "none") <=> (rows[j].state = "none")
                      /\ rows'[j].attempts <= posts'[j]
  BY <1>1, <1>2, <1>5 DEF RowsSound
<1>7. QueueSound'
  <2>1. \A j \in Range(due) : j \in Keys
    BY DEF Range
  <2> QED BY <1>1, <1>3, <1>6, <2>1 DEF QueueSound
<1>8. RowsTell'
  <2> SUFFICES ASSUME NEW j \in Keys
               PROVE  /\ rows'[j].state = "delivered" => j \in accepted'
                      /\ rows'[j].state \in {"dead-lettered", "purged"} => posts'[j] >= MaxAttempts \/ j[1] \notin Live'
    BY DEF RowsTell
  <2>1. CASE j = f.key
    BY <1>1, <1>2, <1>5, <2>1
  <2>2. CASE j # f.key
    BY <1>1, <1>2, <2>2 DEF RowsTell, Live
  <2> QED BY <2>1, <2>2
<1> QED BY <1>1, <1>4, <1>6, <1>7, <1>8, SettledKeeps

LEMMA PageIsDue == ASSUME TypeOK PROVE Range(DuePage) \subseteq Range(due) /\ Range(due) \subseteq Keys
<1>1. due \in Seq(Keys) /\ Len(due) \in Nat /\ Batch \in Nat
  BY WebhooksAssumption DEF TypeOK
<1> QED BY <1>1 DEF DuePage, Range

LEMMA TickKeeps == ASSUME IInv, Tick PROVE IInv'
<1> USE DEF IInv, TypeOK
<1> DEFINE orphans == {k \in ToStart : k[1] \notin Live}
           started == ToStart \ orphans
<1>1. ToStart \subseteq Keys /\ \A k \in ToStart : rows[k].state # "none"
  BY PageIsDue DEF ToStart, QueueSound
<1>2. PICK buried \in SUBSET orphans :
        /\ \/ /\ buried = orphans
              /\ flight' = flight \cup {[key |-> k, attempts |-> rows[k].attempts] : k \in started}
              /\ UNCHANGED <<up, crashes, verifying>>
           \/ Killed
        /\ rows' = [k \in Keys |-> IF k \in buried THEN [rows[k] EXCEPT !.state = "dead-lettered"] ELSE rows[k]]
        /\ due' = Without(due, buried)
  BY DEF Tick
<1>3. /\ posts' = [k \in Keys |-> posts[k] + IF k \in started THEN 1 ELSE 0]
      /\ UNCHANGED <<runs, subs, produced, accepted>>
  BY DEF Tick
<1>4. due' \in Seq(Keys) /\ Range(due') \subseteq Range(due)
  BY <1>2, WithoutLess
<1>5. \A k \in Keys : posts'[k] \in Nat /\ posts'[k] >= posts[k] /\ (k \in started => posts'[k] = posts[k] + 1)
  BY <1>3
<1>6. /\ up' \in BOOLEAN /\ crashes' \in {crashes, crashes + 1} /\ verifying' \subseteq verifying
      /\ flight' \subseteq flight \cup {[key |-> k, attempts |-> rows[k].attempts] : k \in started}
  BY <1>2 DEF Killed
<1>7. TypeOK'
  <2>1. rows' \in [Keys -> [state : RowStates, attempts : Nat]]
    BY <1>2 DEF RowStates
  <2>2. flight' \subseteq [key : Keys, attempts : Nat]
    BY <1>1, <1>6
  <2>3. posts' \in [Keys -> Nat]
    BY <1>3
  <2> QED BY <1>3, <1>4, <1>6, <2>1, <2>2, <2>3
<1>8. \A k \in Keys : /\ (rows'[k].state = "none") <=> (rows[k].state = "none")
                      /\ rows'[k].attempts <= posts'[k]
  BY <1>1, <1>2, <1>5 DEF RowsSound
<1>9. QueueSound'
  <2>1. \A k \in Range(due') : rows'[k].state # "none"
    BY <1>4, <1>8, PageIsDue DEF QueueSound
  <2>2. ASSUME NEW f \in flight' PROVE rows'[f.key].state # "none" /\ f.attempts + 1 <= posts'[f.key]
    <3>1. CASE f \in flight
      BY <3>1, <1>5, <1>8 DEF QueueSound
    <3>2. CASE f \notin flight
      <4>1. PICK k \in started : f = [key |-> k, attempts |-> rows[k].attempts]
        BY <1>6, <3>2
      <4> QED BY <4>1, <1>1, <1>5, <1>8 DEF RowsSound
    <3> QED BY <3>1, <3>2
  <2> QED BY <2>1, <2>2 DEF QueueSound
<1>10. RowsTell'
  <2> SUFFICES ASSUME NEW j \in Keys
               PROVE  /\ rows'[j].state = "delivered" => j \in accepted'
                      /\ rows'[j].state \in {"dead-lettered", "purged"} => posts'[j] >= MaxAttempts \/ j[1] \notin Live'
    BY DEF RowsTell
  <2>1. Live' = Live /\ MaxAttempts \in Nat
    BY <1>3, WebhooksAssumption DEF Live
  <2>2. CASE j \in buried
    BY <1>2, <2>1, <2>2
  <2>3. CASE j \notin buried
    <3>1. rows'[j] = rows[j]
      BY <1>2, <2>3
    <3> QED BY <1>3, <1>5, <2>1, <3>1 DEF RowsTell
  <2> QED BY <2>2, <2>3
<1> QED BY <1>3, <1>6, <1>7, <1>8, <1>9, <1>10, SettledKeeps

---------------------------------------------------------------------------
(* Steps on the logs *)

LEMMA ForkKeeps == ASSUME IInv, NEW mode \in {"replay", "branch"}, NEW from \in 0..MaxEvents, ForkRun(mode, from) PROVE IInv'
<1> USE DEF IInv, TypeOK
<1> DEFINE source == runs[Source].log
<1>1. /\ MaxEvents \in Nat /\ from \in Nat /\ source \in Seq(Types) /\ Len(source) \in Nat /\ from <= Len(source)
      /\ runs[Fork].mode = "none" /\ Source \in Runs /\ Fork \in Runs /\ Source # Fork
  BY WebhooksAssumption DEF ForkRun, Runs
<1>2. PICK n \in 0..from :
        /\ (n = from /\ Lives) \/ Killed
        /\ runs' = [runs EXCEPT ![Fork] = [mode |-> mode, from |-> from, copied |-> n, log |-> SubSeq(source, 1, n)]]
  BY DEF ForkRun
<1>3. UNCHANGED <<subs, rows, due, produced, posts, accepted>>
  BY DEF ForkRun
<1>4. /\ up' \in BOOLEAN /\ crashes' \in Nat /\ crashes <= crashes' /\ (crashes' = 0 => n = from)
      /\ verifying' \subseteq verifying /\ flight' \subseteq flight
  <2>1. CASE n = from /\ Lives
    BY <2>1 DEF Lives
  <2>2. CASE Killed
    BY <2>2, KilledTyped
  <2> QED BY <1>2, <2>1, <2>2
<1>5. SubSeq(source, 1, n) \in Seq(Types) /\ Len(SubSeq(source, 1, n)) = n
  BY <1>1
<1>6. TypeOK'
  <2>1. runs' \in [Runs -> [mode : Modes, from : Nat, copied : Nat, log : Seq(Types)]]
    BY <1>1, <1>2, <1>5 DEF Modes
  <2> QED BY <1>3, <1>4, <2>1
<1>7. /\ runs'[Source] = runs[Source]
      /\ runs'[Fork] = [mode |-> mode, from |-> from, copied |-> n, log |-> SubSeq(source, 1, n)]
  BY <1>1, <1>2
<1>8. LogsSound'
  <2>1. runs[Fork].copied = 0 /\ Len(runs[Fork].log) = 0 /\ n <= from /\ n \in Nat
    BY <1>1 DEF LogsSound
  <2>2. Len(source) + (n - n) = produced /\ produced <= MaxEvents
    BY <1>1, <2>1 DEF LogsSound
  <2>3. /\ runs'[Source].log = source /\ runs'[Source].mode = "own" /\ runs'[Source].from = 0 /\ runs'[Source].copied = 0
        /\ runs'[Fork].mode = mode /\ runs'[Fork].from = from /\ runs'[Fork].copied = n /\ Len(runs'[Fork].log) = n
    BY <1>5, <1>7 DEF LogsSound
  <2> QED BY <1>1, <1>3, <1>4, <2>1, <2>2, <2>3 DEF LogsSound
<1>9. SubsSound' /\ QueueSound' /\ RowsSound' /\ RowsTell'
  BY <1>3, <1>4 DEF SubsSound, QueueSound, RowsSound, RowsTell, Live
<1>10. \A r \in Runs : r = Source \/ r = Fork
  BY DEF Runs
<1>11. HistoryStaysQuiet'
  <2>1. \A k \in Keys : rows[k].state # "none" => k[2] = Source
    BY <1>1, <1>10, KeyParts DEF HistoryStaysQuiet
  <2> QED BY <1>3, <1>7, <2>1 DEF HistoryStaysQuiet
<1>12. NoEventUnheard'
  <2> SUFFICES ASSUME crashes' = 0, NEW k \in Keys, k[1] \in Early \cap Live',
                      k[3] \in runs'[k[2]].copied + 1..Len(runs'[k[2]].log),
                      runs'[k[2]].mode \in {"own", "branch"}, runs'[k[2]].log[k[3]] \in Wanted[k[1]]
               PROVE  rows'[k].state # "none"
    BY DEF NoEventUnheard
  <2>1. k[2] = Source
    <3>1. n \in Nat /\ Len(runs'[Fork].log) = n /\ runs'[Fork].copied = n
      BY <1>2, <1>5, <1>7
    <3> QED BY <1>10, <3>1, KeyParts
  <2>2. crashes = 0 /\ Live' = Live
    BY <1>3, <1>4 DEF Live
  <2> QED BY <1>3, <1>7, <2>1, <2>2 DEF NoEventUnheard
<1> QED BY <1>6, <1>8, <1>9, <1>11, <1>12

KeysOf(told, r, at) == {<<s, r, at>> : s \in told}

LEMMA QueueOf ==
  ASSUME NEW told \in SUBSET Subs, NEW r, NEW at, NEW waiting \in SetToSeqs(KeysOf(told, r, at))
  PROVE  waiting \in Seq(KeysOf(told, r, at))
<1> USE DEF KeysOf
<1> DEFINE S == KeysOf(told, r, at)
<1>1. IsFiniteSet(told)
  BY WebhooksAssumption, FS_Subset
<1>2. IsFiniteSet(S)
  <2> DEFINE key == [s \in told |-> <<s, r, at>>]
  <2>1. key \in Surjection(told, S)
    BY DEF Surjection
  <2> QED BY <1>1, <2>1, FS_Surjection
<1>3. Cardinality(S) \in Nat
  BY <1>2, FS_CardinalityType
<1>4. waiting \in [1..Cardinality(S) -> S]
  BY DEF SetToSeqs
<1>5. waiting \in Seq(S)
  <2> HIDE DEF S
  <2> QED BY <1>3, <1>4
<1> QED BY <1>5

LEMMA ProduceKeeps == ASSUME IInv, NEW r \in Runs, NEW type \in Types, Produce(r, type) PROVE IInv'
<1> USE DEF IInv, TypeOK
<1> DEFINE at == Len(runs[r].log) + 1
           log == Append(runs[r].log, type)
           keys(t) == KeysOf(t, r, at)
<1>1. /\ up /\ runs[r].mode # "none" /\ produced < MaxEvents
      /\ runs' = [runs EXCEPT ![r].log = log] /\ produced' = produced + 1
      /\ UNCHANGED <<subs, posts, accepted>>
  BY DEF Produce
<1>2. PICK told \in SUBSET Audience(runs[r], at, type) :
        /\ (told = Audience(runs[r], at, type) /\ Lives) \/ Killed
        /\ rows' = [k \in Keys |-> IF k \in keys(told) THEN NewRow ELSE rows[k]]
        /\ \E waiting \in SetToSeqs(keys(told)) : due' = due \o waiting
  BY DEF Produce, KeysOf
<1>3. told \subseteq Live /\ Live \subseteq Subs /\ (told # {} => FansOut(runs[r], at))
  BY <1>2 DEF Audience, Live
<1>4. /\ MaxEvents \in Nat /\ runs[r].log \in Seq(Types) /\ at \in 1..MaxEvents
      /\ runs[r].copied < at /\ Len(log) = at /\ log \in Seq(Types)
      /\ log[at] = type /\ \A i \in 1..Len(runs[r].log) : log[i] = runs[r].log[i]
  <2>1. /\ Source \in Runs /\ Fork \in Runs /\ (r = Source \/ r = Fork)
        /\ Len(runs[Source].log) \in Nat /\ Len(runs[Fork].log) \in Nat
    BY DEF Runs
  <2>2. runs[r].copied <= Len(runs[r].log) /\ Len(runs[r].log) <= produced
    BY <2>1 DEF LogsSound
  <2>3. runs[r].log \in Seq(Types) /\ Len(runs[r].log) \in Nat /\ runs[r].copied \in Nat /\ produced \in Nat
    OBVIOUS
  <2> HIDE DEF IInv, TypeOK
  <2>4. MaxEvents \in Nat /\ at \in 1..MaxEvents /\ runs[r].copied < at
    BY <1>1, <2>2, <2>3, WebhooksAssumption
  <2>5. /\ log \in Seq(Types) /\ Len(log) = at /\ log[at] = type
        /\ \A i \in 1..Len(runs[r].log) : log[i] = runs[r].log[i]
    BY <2>3
  <2> QED BY <2>3, <2>4, <2>5
<1>5. keys(told) \subseteq Keys /\ \A k \in Keys : k \in keys(told) <=> k[1] \in told /\ k[2] = r /\ k[3] = at
  <2>1. keys(told) \subseteq Keys
    BY <1>3, <1>4 DEF Keys, KeysOf
  <2> QED BY <2>1, KeyParts DEF KeysOf
<1>6. /\ up' \in BOOLEAN /\ verifying' \subseteq verifying /\ flight' \subseteq flight
      /\ crashes' \in {crashes, crashes + 1} /\ (crashes' = 0 => crashes = 0 /\ told = Audience(runs[r], at, type))
  <2>1. CASE told = Audience(runs[r], at, type) /\ Lives
    BY <2>1 DEF Lives
  <2>2. CASE Killed
    BY <2>2, KilledTyped
  <2> QED BY <1>2, <2>1, <2>2
<1>7. due' \in Seq(Keys) /\ Range(due') \subseteq Range(due) \cup keys(told)
  <2>1. PICK waiting \in SetToSeqs(keys(told)) : due' = due \o waiting
    BY <1>2
  <2>2. waiting \in Seq(keys(told))
    <3>1. told \in SUBSET Subs
      BY <1>3
    <3> QED BY <2>1, <3>1, QueueOf, Zenon
  <2>3. waiting \in Seq(Keys) /\ Range(waiting) \subseteq keys(told)
    <3> HIDE DEF keys
    <3> QED BY <1>5, <2>2 DEF Range
  <2>4. due \in Seq(Keys)
    OBVIOUS
  <2> QED BY <2>1, <2>3, <2>4, RangeConcat
<1>8. \A q \in Runs : runs'[q] = IF q = r THEN [runs[r] EXCEPT !.log = log] ELSE runs[q]
  BY <1>1
<1>9. \A q \in Runs : /\ runs[q].mode \in Modes /\ runs[q].from \in Nat /\ runs[q].copied \in Nat
                        /\ runs[q].log \in Seq(Types) /\ Len(runs[q].log) \in Nat
  OBVIOUS
<1>10. \A q \in Runs : /\ runs'[q].mode = runs[q].mode /\ runs'[q].from = runs[q].from /\ runs'[q].copied = runs[q].copied
                        /\ Len(runs'[q].log) = IF q = r THEN Len(runs[q].log) + 1 ELSE Len(runs[q].log)
  <2>1. runs[r] \in [mode : Modes, from : Nat, copied : Nat, log : Seq(Types)]
    OBVIOUS
  <2>2. Len(log) = Len(runs[r].log) + 1
    BY <1>4
  <2> HIDE DEF IInv, TypeOK, log
  <2> QED BY <1>8, <2>1, <2>2
<1>11. ASSUME NEW q \in Runs, NEW i \in 1..Len(runs[q].log) PROVE runs'[q].log[i] = runs[q].log[i]
  <2>1. runs[r] \in [mode : Modes, from : Nat, copied : Nat, log : Seq(Types)]
    OBVIOUS
  <2>2. \A j \in 1..Len(runs[r].log) : log[j] = runs[r].log[j]
    BY <1>4
  <2> HIDE DEF IInv, TypeOK, log
  <2> QED BY <1>8, <2>1, <2>2
<1>12. \A k \in Keys : rows'[k] = IF k \in keys(told) THEN NewRow ELSE rows[k]
  BY <1>2
<1>13. TypeOK'
  <2>1. runs' \in [Runs -> [mode : Modes, from : Nat, copied : Nat, log : Seq(Types)]]
    BY <1>1, <1>4
  <2>2. rows' \in [Keys -> [state : RowStates, attempts : Nat]]
    <3>1. NewRow \in [state : RowStates, attempts : Nat]
      BY DEF NewRow, RowStates
    <3> QED BY <1>2, <3>1
  <2>3. /\ subs' \in [Subs -> {"new", "live", "gone"}] /\ posts' \in [Keys -> Nat] /\ accepted' \subseteq Keys
        /\ produced' \in Nat
    BY <1>1
  <2>4. /\ verifying' \subseteq Subs /\ flight' \subseteq [key : Keys, attempts : Nat] /\ crashes' \in Nat
    BY <1>6
  <2>5. due' \in Seq(Keys) /\ up' \in BOOLEAN
    BY <1>6, <1>7
  <2> HIDE DEF IInv
  <2> QED BY <2>1, <2>2, <2>3, <2>4, <2>5
<1>14. LogsSound /\ produced \in Nat /\ crashes \in Nat
  OBVIOUS
<1>15. LogsSound'
  <2>1. /\ Source \in Runs /\ Fork \in Runs /\ Source # Fork /\ (r = Source \/ r = Fork)
        /\ Len(runs[Source].log) \in Nat /\ Len(runs[Fork].log) \in Nat /\ MaxEvents \in Nat
    BY WebhooksAssumption DEF Runs
  <2>3. runs'[Fork].mode = "none" => runs'[Fork].log = runs[Fork].log
    BY <1>1, <1>8, <1>10, <2>1
  <2>4. /\ runs'[Source].mode = "own" /\ runs'[Source].from = 0 /\ runs'[Source].copied = 0
        /\ runs'[Fork].mode # "own" /\ runs'[Fork].copied <= runs'[Fork].from
        /\ (runs'[Fork].mode = "none" => runs'[Fork].from = 0 /\ runs'[Fork].log = <<>>)
        /\ (crashes' = 0 => runs'[Fork].copied = runs'[Fork].from)
    <3> HIDE DEF IInv, TypeOK, at, log
    <3> QED BY <1>6, <1>10, <1>14, <2>1, <2>3 DEF LogsSound
  <2>5. /\ runs'[Fork].copied <= Len(runs'[Source].log) /\ runs'[Fork].copied <= Len(runs'[Fork].log)
        /\ produced' <= MaxEvents
        /\ produced' = Len(runs'[Source].log) + (Len(runs'[Fork].log) - runs'[Fork].copied)
    <3>1. /\ runs[Fork].copied <= Len(runs[Source].log) /\ runs[Fork].copied <= Len(runs[Fork].log)
          /\ produced = Len(runs[Source].log) + (Len(runs[Fork].log) - runs[Fork].copied)
      BY DEF LogsSound
    <3> HIDE DEF IInv, TypeOK, at, log
    <3> DEFINE ls == Len(runs[Source].log)
               lf == Len(runs[Fork].log)
               ls2 == Len(runs'[Source].log)
               lf2 == Len(runs'[Fork].log)
               c == runs[Fork].copied
    <3>2. (ls2 = ls + 1 /\ lf2 = lf) \/ (ls2 = ls /\ lf2 = lf + 1)
      <4>1. CASE r = Source
        BY <1>10, <2>1, <4>1
      <4>2. CASE r = Fork
        BY <1>10, <2>1, <4>2
      <4> QED BY <2>1, <4>1, <4>2
    <3>3. c \in Nat /\ ls \in Nat /\ lf \in Nat /\ runs'[Fork].copied = c
      BY <1>9, <1>10, <2>1
    <3>4. produced < MaxEvents /\ produced' = produced + 1 /\ produced \in Nat /\ MaxEvents \in Nat
      BY <1>1, <1>14, <2>1
    <3>5. c <= ls /\ c <= lf /\ produced = ls + (lf - c)
      BY <3>1
    <3>6. c <= ls2 /\ c <= lf2 /\ produced' <= MaxEvents /\ produced' = ls2 + (lf2 - c)
      <4> HIDE DEF ls, lf, ls2, lf2, c
      <4> QED BY <3>2, <3>3, <3>4, <3>5
    <3> QED BY <3>3, <3>6
  <2> QED BY <2>4, <2>5 DEF LogsSound
<1>16. SubsSound'
  BY <1>1, <1>6 DEF SubsSound
<1>17. RowsSound'
  <2> SUFFICES ASSUME NEW k \in Keys
               PROVE  (rows'[k].state # "none" => subs'[k[1]] # "new") /\ rows'[k].attempts <= posts'[k]
    BY DEF RowsSound
  <2>1. CASE k \in keys(told)
    <3>1. subs[k[1]] = "live" /\ posts[k] >= 0
      BY <1>3, <1>5, <2>1 DEF Live
    <3> QED BY <1>1, <1>12, <2>1, <3>1 DEF NewRow
  <2>2. CASE k \notin keys(told)
    BY <1>1, <1>12, <2>2 DEF RowsSound
  <2> QED BY <2>1, <2>2
<1>18. \A k \in Keys : rows[k].state # "none" => rows'[k].state # "none"
  <2> HIDE DEF IInv, TypeOK
  <2> QED BY <1>12 DEF NewRow
<1>19. QueueSound'
  <2>1. ASSUME NEW k \in Range(due') PROVE rows'[k].state # "none"
    <3>1. k \in Keys
      BY <1>7 DEF Range
    <3>2. CASE k \in keys(told)
      BY <1>12, <3>1, <3>2 DEF NewRow
    <3>3. CASE k \in Range(due)
      BY <1>18, <3>1, <3>3 DEF QueueSound
    <3> QED BY <1>7, <3>2, <3>3
  <2>2. \A f \in flight' : rows'[f.key].state # "none" /\ f.attempts + 1 <= posts'[f.key]
    BY <1>1, <1>6, <1>18 DEF QueueSound
  <2> QED BY <2>1, <2>2 DEF QueueSound
<1>20. RowsTell'
  <2>1. \A k \in Keys : rows'[k].state \in {"delivered", "dead-lettered", "purged"} => rows'[k] = rows[k]
    BY <1>12 DEF NewRow
  <2> QED BY <1>1, <2>1 DEF RowsTell, Live
<1>21. HistoryStaysQuiet'
  <2> SUFFICES ASSUME NEW k \in Keys, rows'[k].state # "none"
               PROVE  /\ runs'[k[2]].mode \in {"own", "branch"} /\ k[3] > runs'[k[2]].from
                      /\ k[3] \in runs'[k[2]].copied + 1..Len(runs'[k[2]].log)
    BY DEF HistoryStaysQuiet
  <2>1. CASE k \in keys(told)
    <3>1. k[2] = r /\ k[3] = at /\ FansOut(runs[r], at)
      BY <1>3, <1>5, <2>1
    <3>2. runs[r].mode \in {"own", "branch"} /\ at > runs[r].from
      <4>1. runs[r].mode = "own" => runs[r].from = 0
        BY DEF LogsSound, Runs
      <4>2. at > 0
        BY <1>9
      <4> HIDE DEF IInv, TypeOK
      <4> QED BY <1>1, <1>9, <3>1, <4>1, <4>2 DEF FansOut, Modes
    <3> HIDE DEF IInv, TypeOK
    <3> QED BY <1>4, <1>9, <1>10, <3>1, <3>2
  <2>2. CASE k \notin keys(told)
    <3>1. /\ runs[k[2]].mode \in {"own", "branch"} /\ k[3] > runs[k[2]].from
          /\ k[3] \in runs[k[2]].copied + 1..Len(runs[k[2]].log)
      BY <1>12, <2>2 DEF HistoryStaysQuiet
    <3>2. k[2] \in Runs /\ k \in Keys
      BY ONLY KeyParts, k \in Keys
    <3>3. runs[k[2]].copied \in Nat /\ Len(runs[k[2]].log) \in Nat
      BY ONLY <1>9, <3>2
    <3>4. PICK from, copied, len : from = runs[k[2]].from /\ copied = runs[k[2]].copied /\ len = Len(runs[k[2]].log)
      OBVIOUS
    <3>5. /\ runs'[k[2]].mode = runs[k[2]].mode /\ runs'[k[2]].from = from /\ runs'[k[2]].copied = copied
          /\ Len(runs'[k[2]].log) \in {len, len + 1}
      BY ONLY <1>10, <3>2, <3>4
    <3>6. \A x \in copied + 1..len : x \in copied + 1..Len(runs'[k[2]].log)
      <4>1. PICK after : after = Len(runs'[k[2]].log)
        OBVIOUS
      <4>2. copied \in Nat /\ len \in Nat /\ after \in {len, len + 1}
        BY ONLY <3>3, <3>4, <3>5, <4>1
      <4>3. \A x \in copied + 1..len : x \in copied + 1..after
        BY ONLY <4>2
      <4> QED BY ONLY <4>1, <4>3, Zenon
    <3> QED BY ONLY <3>1, <3>4, <3>5, <3>6, Zenon
  <2> QED BY <2>1, <2>2
<1>22. NoEventUnheard'
  <2> SUFFICES ASSUME crashes' = 0, NEW k \in Keys, k[1] \in Early \cap Live',
                      k[3] \in runs'[k[2]].copied + 1..Len(runs'[k[2]].log),
                      runs'[k[2]].mode \in {"own", "branch"}, runs'[k[2]].log[k[3]] \in Wanted[k[1]]
               PROVE  rows'[k].state # "none"
    BY DEF NoEventUnheard
  <2>1. Live' = Live /\ crashes = 0 /\ told = Audience(runs[r], at, type)
    BY <1>1, <1>6 DEF Live
  <2>2. CASE k[2] = r /\ k[3] = at
    <3>1. runs[r].mode \in {"own", "branch"} /\ type \in Wanted[k[1]]
      BY <1>4, <1>8, <2>2
    <3>2. FansOut(runs[r], at)
      <4>1. runs[r].mode = "branch" => runs[r].copied = runs[r].from
        BY <2>1 DEF LogsSound, Runs
      <4> QED BY <1>4, <3>1, <4>1 DEF FansOut
    <3>3. k[1] \in told
      BY <2>1, <3>1, <3>2 DEF Audience
    <3> QED BY <1>5, <1>12, <2>2, <3>3 DEF NewRow
  <2>3. CASE ~(k[2] = r /\ k[3] = at)
    <3>1. /\ k[3] \in runs[k[2]].copied + 1..Len(runs[k[2]].log) /\ runs[k[2]].mode \in {"own", "branch"}
          /\ runs[k[2]].log[k[3]] \in Wanted[k[1]]
      <4>1. k[2] \in Runs /\ k[3] \in 1..MaxEvents
        BY KeyParts
      <4> HIDE DEF IInv, TypeOK
      <4>2. k[3] \in runs[k[2]].copied + 1..Len(runs[k[2]].log) /\ runs[k[2]].mode \in {"own", "branch"}
        <5>1. PICK q \in Runs : q = k[2]
          BY <4>1
        <5>2. PICK i \in 1..MaxEvents : i = k[3]
          BY <4>1
        <5>3. /\ runs'[q].mode \in {"own", "branch"} /\ i \in runs'[q].copied + 1..Len(runs'[q].log)
              /\ ~(q = r /\ i = at)
          BY <2>3, <5>1, <5>2
        <5>4. /\ runs'[q].mode = runs[q].mode /\ runs'[q].copied = runs[q].copied /\ runs[q].copied \in Nat
              /\ Len(runs[q].log) \in Nat /\ Len(runs'[q].log) = IF q = r THEN Len(runs[q].log) + 1 ELSE Len(runs[q].log)
          BY <1>9, <1>10
        <5>5. i \in runs[q].copied + 1..Len(runs[q].log)
          BY <5>3, <5>4
        <5> QED BY <5>1, <5>2, <5>3, <5>4, <5>5
      <4>3. k[3] \in 1..Len(runs[k[2]].log)
        BY <1>9, <4>1, <4>2
      <4> QED BY <1>11, <4>1, <4>2, <4>3
    <3>2. rows[k].state # "none"
      BY <2>1, <3>1 DEF NoEventUnheard
    <3> QED BY <1>18, <3>2
  <2> QED BY <2>2, <2>3
<1> QED BY <1>13, <1>15, <1>16, <1>17, <1>19, <1>20, <1>21, <1>22

---------------------------------------------------------------------------
(* The theorems *)

LEMMA InitInv == Init => IInv
<1> SUFFICES ASSUME Init PROVE IInv
  OBVIOUS
<1>1. Source \in Runs /\ Fork \in Runs /\ Source # Fork /\ MaxEvents \in Nat
  BY WebhooksAssumption DEF Runs
<1>2. TypeOK
  <2>1. runs \in [Runs -> [mode : Modes, from : Nat, copied : Nat, log : Seq(Types)]]
    <3>1. /\ NoRun \in [mode : Modes, from : Nat, copied : Nat, log : Seq(Types)]
          /\ [NoRun EXCEPT !.mode = "own"] \in [mode : Modes, from : Nat, copied : Nat, log : Seq(Types)]
      <4>1. /\ NoRun = [mode |-> "none", from |-> 0, copied |-> 0, log |-> <<>>]
            /\ [NoRun EXCEPT !.mode = "own"] = [mode |-> "own", from |-> 0, copied |-> 0, log |-> <<>>]
        BY DEF NoRun
      <4>2. <<>> \in Seq(Types) /\ "none" \in Modes /\ "own" \in Modes /\ 0 \in Nat
        BY DEF Modes
      <4> HIDE DEF NoRun
      <4> QED BY <4>1, <4>2
    <3> QED BY <3>1 DEF Init
  <2>2. rows \in [Keys -> [state : RowStates, attempts : Nat]]
    BY DEF Init, NoRow, RowStates
  <2>3. subs \in [Subs -> {"new", "live", "gone"}] /\ posts \in [Keys -> Nat]
    BY DEF Init
  <2> QED BY <2>1, <2>2, <2>3 DEF Init, TypeOK
<1>3. LogsSound
  BY <1>1 DEF Init, LogsSound, NoRun
<1>4. SubsSound
  BY WebhooksAssumption DEF Init, SubsSound
<1>5. RowsSound
  BY DEF Init, RowsSound, NoRow
<1>6. QueueSound
  BY DEF Init, QueueSound, Range
<1>7. RowsTell /\ HistoryStaysQuiet
  BY DEF Init, RowsTell, HistoryStaysQuiet, NoRow
<1>8. NoEventUnheard
  <2>1. \A r \in Runs : runs[r].copied = 0 /\ Len(runs[r].log) = 0
    BY DEF Init, NoRun
  <2> QED BY <2>1, KeyParts DEF NoEventUnheard
<1> QED BY <1>2, <1>3, <1>4, <1>5, <1>6, <1>7, <1>8 DEF IInv

LEMMA NextInv == IInv /\ [Next]_vars => IInv'
<1> SUFFICES ASSUME IInv, [Next]_vars PROVE IInv'
  OBVIOUS
<1>1. ASSUME UNCHANGED vars PROVE IInv'
  BY <1>1 DEF vars, IInv, TypeOK, LogsSound, SubsSound, RowsSound, QueueSound,
              RowsTell, HistoryStaysQuiet, NoEventUnheard, Live
<1> QED
  BY <1>1, ProduceKeeps, ForkKeeps, RegisterKeeps, TickKeeps, LandedKeeps, RipenKeeps, DeathKeeps DEF Next

(* How often a delivery was posted: a row that is not there counts nothing,  *)
(* and what is under way counts what its row does.                           *)
Counts ==
  /\ \A k \in Keys : rows[k].state = "none" => rows[k].attempts = 0
  /\ \A f \in flight : f.attempts = rows[f.key].attempts
  /\ PostsCounted

\* Nothing is posted and no row counts on; at most the process is killed.
LEMMA StandingCounts ==
  ASSUME IInv, Counts, posts' = posts,
         \A k \in Keys : rows'[k].attempts = rows[k].attempts /\ (rows'[k].state = "none" => rows[k].state = "none"),
         (flight' = flight /\ crashes' = crashes) \/ (flight' = {} /\ crashes' = crashes + 1)
  PROVE  Counts'
<1>1. \A f \in flight : f.key \in Keys
  BY DEF IInv, TypeOK
<1>2. \A k \in Keys : posts[k] \in Nat /\ rows[k].attempts \in Nat /\ crashes \in Nat
  BY DEF IInv, TypeOK
<1>3. \A f \in flight' : f.attempts = rows'[f.key].attempts
  BY <1>1 DEF Counts
<1>4. PostsCounted'
  <2> SUFFICES ASSUME NEW k \in Keys
               PROVE  posts'[k] <= rows'[k].attempts + crashes' + IF k \in InFlight' THEN 1 ELSE 0
    BY DEF PostsCounted
  <2>1. posts[k] <= rows[k].attempts + crashes + IF k \in InFlight THEN 1 ELSE 0
    BY DEF Counts, PostsCounted
  <2>2. (InFlight' = InFlight /\ crashes' = crashes) \/ crashes' = crashes + 1
    BY DEF InFlight
  <2> QED BY <1>2, <2>1, <2>2
<1> QED BY <1>3, <1>4 DEF Counts

\* A POST that is over is one its row counts from then on.
LEMMA LandedCounts == ASSUME IInv, Counts, NEW f \in flight, Delivered(f) \/ Refused(f) PROVE Counts'
<1>1. /\ f.key \in Keys /\ f.attempts \in Nat /\ posts' = posts /\ crashes' = crashes /\ flight' = flight \ {f}
  BY DEF Delivered, Refused, Landed, IInv, TypeOK
<1>2. PICK state \in {"delivered", "dead-lettered", "pending"} :
        rows' = [rows EXCEPT ![f.key] = [state |-> state, attempts |-> f.attempts + 1]]
  BY DEF Delivered, Refused
<1>3. /\ \A k \in Keys : posts[k] \in Nat /\ rows[k].attempts \in Nat /\ crashes \in Nat
      /\ \A g \in flight : g.key \in Keys /\ g = [key |-> g.key, attempts |-> g.attempts]
      /\ rows \in [Keys -> [state : RowStates, attempts : Nat]]
  BY DEF IInv, TypeOK
<1>4. \A k \in Keys : rows'[k] = IF k = f.key THEN [state |-> state, attempts |-> f.attempts + 1] ELSE rows[k]
  BY <1>2, <1>3
<1>5. \A g \in flight' : g \in flight /\ g.key # f.key
  <2> SUFFICES ASSUME NEW g \in flight, g.key = f.key PROVE g = f
    BY <1>1
  <2> QED BY <1>3 DEF Counts
<1>6. \A g \in flight' : g.attempts = rows'[g.key].attempts
  BY <1>3, <1>4, <1>5 DEF Counts
<1>7. \A k \in Keys : rows'[k].state = "none" => rows'[k].attempts = 0
  BY <1>4 DEF Counts
<1>8. PostsCounted'
  <2> SUFFICES ASSUME NEW k \in Keys
               PROVE  posts'[k] <= rows'[k].attempts + crashes' + IF k \in InFlight' THEN 1 ELSE 0
    BY DEF PostsCounted
  <2>1. posts[k] <= rows[k].attempts + crashes + IF k \in InFlight THEN 1 ELSE 0
    BY DEF Counts, PostsCounted
  <2>2. CASE k = f.key
    <3>1. rows'[k].attempts = rows[k].attempts + 1
      BY <1>4, <2>2 DEF Counts
    <3> QED BY <1>1, <1>3, <2>1, <3>1
  <2>3. CASE k # f.key
    <3>1. k \in InFlight => k \in InFlight'
      BY <1>1, <2>3 DEF InFlight
    <3>2. rows'[k] = rows[k]
      BY <1>4, <2>3
    <3> QED BY <1>1, <1>3, <2>1, <3>1, <3>2
  <2> QED BY <2>2, <2>3
<1> QED BY <1>6, <1>7, <1>8 DEF Counts

\* What a tick posts was not under way, and is from then on or lost to a kill.
LEMMA TickCounts == ASSUME IInv, Counts, Tick PROVE Counts'
<1> DEFINE orphans == {k \in ToStart : k[1] \notin Live}
           started == ToStart \ orphans
           starts == {[key |-> k, attempts |-> rows[k].attempts] : k \in started}
<1>1. ToStart \subseteq Keys /\ \A k \in ToStart : k \notin InFlight
  BY PageIsDue DEF IInv, ToStart
<1>2. PICK buried \in SUBSET orphans :
        /\ (flight' = flight \cup starts /\ crashes' = crashes) \/ (flight' = {} /\ crashes' = crashes + 1)
        /\ rows' = [k \in Keys |-> IF k \in buried THEN [rows[k] EXCEPT !.state = "dead-lettered"] ELSE rows[k]]
  BY DEF Tick, Killed
<1>3. posts' = [k \in Keys |-> posts[k] + IF k \in started THEN 1 ELSE 0]
  BY DEF Tick
<1>4. /\ \A k \in Keys : posts[k] \in Nat /\ rows[k].attempts \in Nat /\ crashes \in Nat
      /\ rows \in [Keys -> [state : RowStates, attempts : Nat]]
      /\ \A f \in flight : f.key \in Keys
  BY DEF IInv, TypeOK
<1> HIDE DEF started, orphans
<1>5. \A k \in Keys : rows'[k].attempts = rows[k].attempts /\ (rows'[k].state = "none" => rows[k].state = "none")
  BY <1>2, <1>4
<1>6. \A f \in flight' : f.attempts = rows'[f.key].attempts
  <2> SUFFICES ASSUME NEW f \in flight' PROVE f.attempts = rows'[f.key].attempts
    OBVIOUS
  <2>1. CASE f \in flight
    BY <1>4, <1>5, <2>1 DEF Counts
  <2>2. CASE f \in starts
    BY <1>1, <1>5, <2>2 DEF started
  <2> QED BY <1>2, <2>1, <2>2
<1>7. PostsCounted'
  <2> SUFFICES ASSUME NEW k \in Keys
               PROVE  posts'[k] <= rows'[k].attempts + crashes' + IF k \in InFlight' THEN 1 ELSE 0
    BY DEF PostsCounted
  <2>1. posts[k] <= rows[k].attempts + crashes + IF k \in InFlight THEN 1 ELSE 0
    BY DEF Counts, PostsCounted
  <2>2. k \in started => k \notin InFlight
    BY <1>1 DEF started
  <2>3. ASSUME crashes' = crashes, k \in InFlight \/ k \in started PROVE k \in InFlight'
    <3>1. flight' = flight \cup starts
      <4>1. crashes' # crashes + 1
        BY <1>4, <2>3
      <4> QED BY <1>2, <4>1
    <3>2. CASE k \in InFlight
      BY <3>1, <3>2 DEF InFlight
    <3>3. CASE k \in started
      <4>1. [key |-> k, attempts |-> rows[k].attempts] \in flight'
        BY <3>1, <3>3
      <4> QED BY <4>1 DEF InFlight
    <3> QED BY <2>3, <3>2, <3>3
  <2>4. posts'[k] = posts[k] + IF k \in started THEN 1 ELSE 0
    BY <1>3
  <2>5. crashes' \in {crashes, crashes + 1}
    BY <1>2
  <2> QED BY <1>4, <1>5, <2>1, <2>2, <2>3, <2>4, <2>5
<1> QED BY <1>5, <1>6, <1>7 DEF Counts

\* A new row is for an event that had none.
LEMMA ProduceCounts == ASSUME IInv, Counts, NEW r \in Runs, NEW type \in Types, Produce(r, type) PROVE Counts'
<1> DEFINE at == Len(runs[r].log) + 1
<1>1. PICK keys : /\ \A k \in keys : k[2] = r /\ k[3] = at
                  /\ rows' = [k \in Keys |-> IF k \in keys THEN NewRow ELSE rows[k]]
                  /\ posts' = posts
                  /\ (flight' = flight /\ crashes' = crashes) \/ (flight' = {} /\ crashes' = crashes + 1)
  <2>1. PICK told \in SUBSET Audience(runs[r], at, type) :
          /\ Lives \/ Killed
          /\ rows' = [k \in Keys |-> IF k \in {<<s, r, at>> : s \in told} THEN NewRow ELSE rows[k]]
    BY DEF Produce
  <2>2. posts' = posts
    BY DEF Produce
  <2>3. (flight' = flight /\ crashes' = crashes) \/ (flight' = {} /\ crashes' = crashes + 1)
    BY <2>1 DEF Lives, Killed
  <2>4. \A k \in {<<s, r, at>> : s \in told} : k[2] = r /\ k[3] = at
    OBVIOUS
  <2> QED BY <2>1, <2>2, <2>3, <2>4
<1>2. \A k \in Keys \cap keys : rows[k].state = "none"
  <2> SUFFICES ASSUME NEW k \in Keys, k \in keys, rows[k].state # "none" PROVE FALSE
    OBVIOUS
  <2>1. k[3] = at /\ k[3] \in runs[r].copied + 1 .. Len(runs[r].log)
    BY <1>1 DEF IInv, HistoryStaysQuiet
  <2>2. runs[r].copied \in Nat /\ Len(runs[r].log) \in Nat
    BY DEF IInv, TypeOK
  <2> QED BY <2>1, <2>2
<1>3. \A k \in Keys : rows'[k].attempts = rows[k].attempts /\ (rows'[k].state = "none" => rows[k].state = "none")
  BY <1>1, <1>2 DEF Counts, NewRow
<1> QED BY <1>1, <1>3, StandingCounts

LEMMA NextCounts == IInv /\ Counts /\ [Next]_vars => Counts'
<1> SUFFICES ASSUME IInv, Counts, [Next]_vars PROVE Counts'
  OBVIOUS
<1>1. CASE UNCHANGED vars
  BY <1>1, StandingCounts DEF vars
<1>2. ASSUME NEW mode, NEW from, ForkRun(mode, from) PROVE Counts'
  BY <1>2, StandingCounts DEF ForkRun, Lives, Killed
<1>3. ASSUME NEW s \in Subs, Register(s) \/ AskConsent(s) \/ Consent(s) \/ Unregister(s) PROVE Counts'
  BY <1>3, StandingCounts DEF Register, AskConsent, Consent, Unregister
<1>4. ASSUME NEW k \in Keys, Ripen(k) \/ Purge(k) PROVE Counts'
  <2>1. rows \in [Keys -> [state : RowStates, attempts : Nat]]
    BY DEF IInv, TypeOK
  <2> QED BY <1>4, <2>1, StandingCounts DEF Ripen, Purge
<1>5. CASE Crash \/ Boot
  BY <1>5, StandingCounts DEF Crash, Boot, Killed
<1> QED BY <1>1, <1>2, <1>3, <1>4, <1>5, ProduceCounts, TickCounts, LandedCounts DEF Next

LEMMA Invariance == Spec => [](IInv /\ Counts)
<1>1. Init => Counts
  BY DEF Init, Counts, PostsCounted, NoRow, InFlight
<1> QED BY <1>1, InitInv, NextInv, NextCounts, PTL DEF Spec

\* What a row says happened did: a delivered event was taken, none was given up
\* short of the attempts configured unless its subscription is gone, and none
\* was posted beside its own attempt (webhooks.ts: attempt, startDeliveryWorker).
THEOREM RowsAreHonest == Spec => []SettledHonestly
<1>1. IInv /\ Counts => SettledHonestly
  BY DEF IInv, Counts, SettledHonestly
<1> QED BY <1>1, Invariance, PTL

\* No fork delivers an event its source run went through (webhooks.ts:
\* fanOutEvent, over the logs forkRun leaves, half copied ones included).
THEOREM ForksStayQuiet == Spec => []HistoryStaysQuiet
<1>1. IInv => HistoryStaysQuiet
  BY DEF IInv
<1> QED BY <1>1, Invariance, PTL

\* Short of a kill, every event has its delivery to whoever named its type all
\* along (events.ts: appendEvent and its fan-out are one section).
THEOREM EveryEventGoesOut == Spec => []NoEventUnheard
<1>1. IInv => NoEventUnheard
  BY DEF IInv
<1> QED BY <1>1, Invariance, PTL

(***************************************************************************)
(* Streams, polls and webhooks of the v1 hosts.                              *)
(*                                                                           *)
(* What was told of a run to those who follow it, and what is on its way to  *)
(* them, is all of it: an event in the table has been told (Told counts      *)
(* them) or its COMMIT is queued on the connection, which tells of it; a     *)
(* stream that listens has all that was told (StreamFits), and its handler's *)
(* statements find it as they left it (OfStream); an event a subscription    *)
(* has not heard of still waits to be looked up (HookFits).  For that the    *)
(* queue holds one statement of a transaction at a time and one of a stream, *)
(* and a stream opened between an event's INSERT and its COMMIT reads its    *)
(* backlog after that COMMIT (Orderly).                                      *)
(***************************************************************************)

(* A value is in a sequence.                                               *)
Holds(p, s) == \E j \in DOMAIN p : p[j] = s

(* The statements of a transaction, those of a stream, and those that set *)
(* a run's status: of each kind one is on its way at a time.               *)
Transacting == {"begin", "seq", "insert", "commit"}
Following == {"row", "backlog", "recheck", "missed"}
Ending == {"load", "status"}

Differ(a, b) ==
  /\ ~(a.op \in Transacting /\ b.op \in Transacting)
  /\ ~(a.op \in Following /\ b.op \in Following)
  /\ ~(a.op \in Ending /\ b.op \in Ending)
  /\ a.op = "subscriptions" /\ b.op = "subscriptions" => a.by # b.by

(* An event is in the table before anybody here is told of it.             *)
Untold == \E e : Holds(queue, e) /\ e.op = "commit"
Told == IF Untold THEN Len(table) - 2 ELSE Len(table) - 1

(* What a stream has written, its batch included.                          *)
Brought(st) == st.sent \o st.buffer
Reaches(st, k) == \A s \in st.from + 1 .. k : Holds(Brought(st), s)
Gapless(p, from) == \A i \in DOMAIN p : p[i] = from + 1 \/ \E j \in 1 .. i - 1 : p[j] >= p[i] - 1
Batched(st) == ~st.buffered => st.buffer = <<>>
ToldAll(st) == \E i \in EndAt : Reaches(st, i - 1)

Streams ==
  [at : {"off", "open", "live", "closed"}, from : Nat \cup {-1}, said : BOOLEAN, last : Int,
   listening : BOOLEAN, buffered : BOOLEAN, buffer : Seq(Int), sent : Seq(Int)]

Pollers == [at : {"idle", "asked"}, said : BOOLEAN, last : Int, done : BOOLEAN]

Hooks ==
  [at : {"none", "coming", "on", "leaving", "off"}, types : EventTypes, since : Nat, until : Nat, posted : Seq(Nat)]

StreamTypes ==
  /\ table \in Seq({"step", "end"}) /\ line \in Seq(Writers)
  /\ job \in [Writers -> {"none", "step", "end"}]
  /\ ended \in BOOLEAN /\ \E T : queue \in Seq(T)
  /\ stream \in Streams /\ poller \in Pollers /\ hook \in Hooks

(* What a statement on its way says of the state it will find.             *)
OfWriter(e) ==
  /\ e.op \in Transacting => line # <<>> /\ e.by = line[1]
  /\ e.op \in {"insert", "commit"} => held
  /\ e.op = "commit" => table # <<>> /\ table[Len(table)] = job[e.by]
  /\ e.op \in Ending => /\ EndAt # {} /\ e.by = "executor" /\ job["executor"] = "end"
                         /\ \A k \in DOMAIN line : line[k] # "executor"

OfStream(e) ==
  /\ e.op \in {"row", "backlog"} => stream.at = "open" /\ Brought(stream) = <<>> /\ ~stream.listening
  /\ e.op \in {"recheck", "missed"} => stream.at # "off" /\ stream.from <= stream.last /\ Reaches(stream, stream.last)
  /\ e.op = "missed" => ended

OfHook(e) ==
  /\ e.op = "subscriptions" => e.by \in 0 .. Told
  /\ e.op \in {"register", "unregister"} => reader = "hook"

Expects(e) == OfWriter(e) /\ OfStream(e) /\ OfHook(e)

Distinguished(q) == \A i, j \in DOMAIN q : i # j => Differ(q[i], q[j])

(* A stream that was opened at an event before it was committed looks up   *)
(* its backlog after that.                                                 *)
Orderly(q, from, len) ==
  \A i, j \in DOMAIN q : q[i].op = "commit" /\ q[j].op \in {"row", "backlog"} => i < j \/ from < len - 1

QueueFits ==
  /\ host # "postgres" => queue = <<>>
  /\ \A e : Holds(queue, e) => Expects(e)
  /\ Distinguished(queue) /\ Orderly(queue, stream.from, Len(table))

WritersFit ==
  /\ \A k \in DOMAIN line : job[line[k]] # "none" /\ \A l \in DOMAIN line : k # l => line[k] # line[l]
  /\ \A w \in Writers : job[w] = "end" => w = "executor" /\ place = "here"
  /\ ended => EndAt # {}

Follows(st) ==
  /\ st.at = "off" => Brought(st) = <<>> /\ ~st.listening
  /\ st.at # "off" => st.from < Len(table)
  /\ Batched(st)
  /\ st.said => ended
  /\ place = "here" => Gapless(Brought(st), st.from)
  /\ st.at = "closed" => st.buffer = <<>> /\ ~st.listening /\ ToldAll(st)
  /\ st.listening => st.from <= Told /\ (place = "here" => Reaches(st, Told))

StreamFits == Follows(stream)

PollerFits ==
  /\ poller.said => ended
  /\ poller.done => \E i \in EndAt : i - 1 <= poller.last

HookFits ==
  /\ hook.at # "none" => reader = "hook"
  /\ reader = "hook" => place = "here" /\ host # "memory"
  /\ hook.at = "on" =>
       \A s \in hook.since .. Told :
         \/ ~Wants(hook.types, table[s + 1]) \/ Holds(hook.posted, s)
         \/ \E e : Holds(queue, e) /\ e.op = "subscriptions" /\ e.by = s
  /\ \A j \in DOMAIN hook.posted :
       /\ hook.posted[j] <= Told
       /\ \A k \in DOMAIN hook.posted : j # k => hook.posted[j] # hook.posted[k]
       /\ \A e : Holds(queue, e) /\ e.op = "subscriptions" => e.by # hook.posted[j]
       /\ hook.at = "off" => hook.posted[j] < hook.until

StreamInv == StreamTypes /\ QueueFits /\ WritersFit /\ StreamFits /\ PollerFits /\ HookFits

-----------------------------------------------------------------------------
(* The queue of statements                                                 *)

LEMMA HeadAndTail ==
  ASSUME NEW T, NEW q \in Seq(T), q # <<>>
  PROVE  /\ Len(q) \in Nat \ {0} /\ DOMAIN q = 1 .. Len(q) /\ Head(q) = q[1]
         /\ Tail(q) \in Seq(T) /\ DOMAIN Tail(q) = 1 .. Len(q) - 1
         /\ \A i \in 1 .. Len(q) - 1 : Tail(q)[i] = q[i + 1]
  OBVIOUS

LEMMA Concatenated ==
  ASSUME NEW p, NEW q, \E T : p \in Seq(T), \E T : q \in Seq(T)
  PROVE  /\ \E T : p \o q \in Seq(T)
         /\ Len(p) \in Nat /\ DOMAIN p = 1 .. Len(p) /\ Len(q) \in Nat /\ DOMAIN q = 1 .. Len(q)
         /\ DOMAIN (p \o q) = 1 .. Len(p) + Len(q)
         /\ \A i \in 1 .. Len(p) : (p \o q)[i] = p[i]
         /\ \A i \in 1 .. Len(q) : (p \o q)[Len(p) + i] = q[i]
         /\ \A s : Holds(p \o q, s) <=> Holds(p, s) \/ Holds(q, s)
<1>1. PICK T : p \in Seq(T)
  OBVIOUS
<1>2. PICK U : q \in Seq(U)
  OBVIOUS
<1>3. p \in Seq(T \cup U) /\ q \in Seq(T \cup U)
  BY <1>1, <1>2
<1> DEFINE r == p \o q
<1>4. /\ r \in Seq(T \cup U)
      /\ Len(p) \in Nat /\ DOMAIN p = 1 .. Len(p) /\ Len(q) \in Nat /\ DOMAIN q = 1 .. Len(q)
      /\ DOMAIN r = 1 .. Len(p) + Len(q)
      /\ \A i \in 1 .. Len(p) : r[i] = p[i]
      /\ \A i \in 1 .. Len(q) : r[Len(p) + i] = q[i]
  BY <1>3
<1> HIDE DEF r
<1>5. ASSUME NEW s, Holds(r, s) PROVE Holds(p, s) \/ Holds(q, s)
  <2>1. PICK i \in DOMAIN r : r[i] = s
    BY <1>5 DEF Holds
  <2>2. i \in 1 .. Len(p) \/ (i - Len(p) \in 1 .. Len(q) /\ Len(p) + (i - Len(p)) = i)
    BY <1>4, <2>1
  <2> QED BY <1>4, <2>1, <2>2 DEF Holds
<1>6. ASSUME NEW s, Holds(p, s) \/ Holds(q, s) PROVE Holds(r, s)
  <2>1. CASE Holds(p, s)
    <3>1. PICK i \in 1 .. Len(p) : p[i] = s
      BY <1>4, <2>1 DEF Holds
    <3>2. i \in DOMAIN r /\ r[i] = s
      BY <1>4, <3>1
    <3> QED BY <3>2 DEF Holds
  <2>2. CASE Holds(q, s)
    <3>1. PICK i \in 1 .. Len(q) : q[i] = s
      BY <1>4, <2>2 DEF Holds
    <3>2. Len(p) + i \in DOMAIN r /\ r[Len(p) + i] = s
      BY <1>4, <3>1
    <3> QED BY <3>2 DEF Holds
  <2> QED BY <1>6, <2>1, <2>2
<1> QED BY <1>4, <1>5, <1>6 DEF r

LEMMA OneOnly ==
  ASSUME NEW e
  PROVE  /\ \E T : <<e>> \in Seq(T)
         /\ DOMAIN <<e>> = {1} /\ <<e>>[1] = e /\ Len(<<e>>) = 1
         /\ \A s : Holds(<<e>>, s) <=> s = e
<1>1. <<e>> \in Seq({e}) /\ DOMAIN <<e>> = {1} /\ <<e>>[1] = e /\ Len(<<e>>) = 1
  OBVIOUS
<1> QED BY <1>1 DEF Holds

LEMMA NoneAtAll ==
  /\ \E T : <<>> \in Seq(T)
  /\ DOMAIN <<>> = {} /\ Len(<<>>) = 0
  /\ \A s : ~Holds(<<>>, s)
<1>1. <<>> \in Seq({}) /\ DOMAIN <<>> = {} /\ Len(<<>>) = 0
  OBVIOUS
<1> QED BY <1>1 DEF Holds

(* What is left of the queue once its first statement was executed.        *)
LEMMA RestOfQueue ==
  ASSUME NEW q, \E T : q \in Seq(T), q # <<>>, Distinguished(q), NEW from, NEW len, Orderly(q, from, len), from \in Int, len \in Int
  PROVE  /\ \E T : Tail(q) \in Seq(T)
         /\ Holds(q, Head(q))
         /\ \A e : Holds(q, e) <=> e = Head(q) \/ Holds(Tail(q), e)
         /\ \A e : Holds(Tail(q), e) => Differ(Head(q), e)
         /\ Distinguished(Tail(q)) /\ Orderly(Tail(q), from, len)
<1>1. PICK T : q \in Seq(T)
  OBVIOUS
<1> DEFINE r == Tail(q)
<1>2. /\ Len(q) \in Nat \ {0} /\ DOMAIN q = 1 .. Len(q) /\ Head(q) = q[1]
      /\ r \in Seq(T) /\ DOMAIN r = 1 .. Len(q) - 1
      /\ \A i \in 1 .. Len(q) - 1 : r[i] = q[i + 1]
  BY <1>1, HeadAndTail
<1> HIDE DEF r
<1>3. ASSUME NEW i \in DOMAIN r PROVE i \in Int /\ i + 1 \in DOMAIN q /\ i + 1 # 1 /\ r[i] = q[i + 1]
  BY <1>2
<1>4. Holds(q, Head(q))
  <2>1. 1 \in DOMAIN q
    BY <1>2
  <2> QED BY <1>2, <2>1 DEF Holds
<1>5. ASSUME NEW e PROVE Holds(q, e) <=> e = Head(q) \/ Holds(r, e)
  <2>1. ASSUME Holds(r, e) PROVE Holds(q, e)
    BY <1>3, <2>1 DEF Holds
  <2>2. ASSUME Holds(q, e), e # Head(q) PROVE Holds(r, e)
    <3>1. PICK i \in DOMAIN q : q[i] = e
      BY <2>2 DEF Holds
    <3>2. i - 1 \in DOMAIN r /\ r[i - 1] = e
      BY <1>2, <2>2, <3>1
    <3> QED BY <3>2 DEF Holds
  <2> QED BY <1>4, <2>1, <2>2
<1>6. ASSUME NEW e, Holds(r, e) PROVE Differ(Head(q), e)
  <2>1. PICK i \in DOMAIN r : r[i] = e
    BY <1>6 DEF Holds
  <2>2. 1 \in DOMAIN q /\ i + 1 \in DOMAIN q /\ i + 1 # 1 /\ q[i + 1] = e
    BY <1>2, <1>3, <2>1
  <2> QED BY <1>2, <2>2 DEF Distinguished
<1>7. Distinguished(r)
  <2> SUFFICES ASSUME NEW i \in DOMAIN r, NEW j \in DOMAIN r, i # j PROVE Differ(r[i], r[j])
    BY DEF Distinguished
  <2>1. i + 1 # j + 1
    BY <1>3
  <2> QED BY <1>3, <2>1 DEF Distinguished
<1>8. Orderly(r, from, len)
  <2> SUFFICES ASSUME NEW i \in DOMAIN r, NEW j \in DOMAIN r, r[i].op = "commit", r[j].op \in {"row", "backlog"}
               PROVE  i < j \/ from < len - 1
    BY DEF Orderly
  <2>1. i + 1 < j + 1 \/ from < len - 1
    BY <1>3 DEF Orderly
  <2> QED BY <1>3, <2>1
<1> QED BY <1>2, <1>4, <1>5, <1>6, <1>7, <1>8 DEF r

(* Statements issued behind others.                                        *)
LEMMA QueueGrows ==
  ASSUME NEW q, \E T : q \in Seq(T), Distinguished(q), NEW from, NEW len, Orderly(q, from, len), from \in Int, len \in Int,
         NEW new, \E T : new \in Seq(T), Distinguished(new),
         \A d, e : Holds(q, d) /\ Holds(new, e) => Differ(d, e) /\ Differ(e, d),
         \A e : Holds(new, e) => e.op \notin {"row", "backlog"} \/ \A d : Holds(new, d) => d.op # "commit",
         \A d, e : Holds(q, d) /\ Holds(new, e) => d.op \notin {"row", "backlog"} \/ e.op # "commit" \/ from < len - 1
  PROVE  /\ \E T : q \o new \in Seq(T)
         /\ Distinguished(q \o new) /\ Orderly(q \o new, from, len)
         /\ \A e : Holds(q \o new, e) <=> Holds(q, e) \/ Holds(new, e)
<1> DEFINE r == q \o new
<1>1. /\ \E T : r \in Seq(T)
      /\ Len(q) \in Nat /\ DOMAIN q = 1 .. Len(q) /\ Len(new) \in Nat /\ DOMAIN new = 1 .. Len(new)
      /\ DOMAIN r = 1 .. Len(q) + Len(new)
      /\ \A i \in 1 .. Len(q) : r[i] = q[i]
      /\ \A i \in 1 .. Len(new) : r[Len(q) + i] = new[i]
      /\ \A s : Holds(r, s) <=> Holds(q, s) \/ Holds(new, s)
  BY Concatenated
<1> HIDE DEF r
<1>2. ASSUME NEW i \in DOMAIN r
      PROVE  \/ i \in DOMAIN q /\ r[i] = q[i] /\ i <= Len(q)
             \/ i - Len(q) \in DOMAIN new /\ r[i] = new[i - Len(q)] /\ i > Len(q)
  <2>1. CASE i <= Len(q)
    BY <1>1, <2>1
  <2>2. CASE i > Len(q)
    <3>1. i - Len(q) \in 1 .. Len(new) /\ Len(q) + (i - Len(q)) = i
      BY <1>1, <2>2
    <3> QED BY <1>1, <2>2, <3>1
  <2> QED BY <1>1, <2>1, <2>2
<1>3. \A i \in DOMAIN q : Holds(q, q[i])
  BY DEF Holds
<1>4. \A i \in DOMAIN new : Holds(new, new[i])
  BY DEF Holds
<1>5. Distinguished(r)
  <2> SUFFICES ASSUME NEW i \in DOMAIN r, NEW j \in DOMAIN r, i # j PROVE Differ(r[i], r[j])
    BY DEF Distinguished
  <2>1. CASE i <= Len(q) /\ j <= Len(q)
    BY <1>1, <1>2, <2>1 DEF Distinguished
  <2>2. CASE i > Len(q) /\ j > Len(q)
    <3>1. i - Len(q) \in DOMAIN new /\ j - Len(q) \in DOMAIN new /\ r[i] = new[i - Len(q)] /\ r[j] = new[j - Len(q)]
      BY <1>1, <1>2, <2>2
    <3>2. i - Len(q) # j - Len(q)
      BY <1>1
    <3> QED BY <3>1, <3>2 DEF Distinguished
  <2>3. CASE i <= Len(q) /\ j > Len(q)
    <3>1. Holds(q, r[i]) /\ Holds(new, r[j])
      BY <1>1, <1>2, <1>3, <1>4, <2>3
    <3> QED BY <3>1
  <2>4. CASE i > Len(q) /\ j <= Len(q)
    <3>1. Holds(new, r[i]) /\ Holds(q, r[j])
      BY <1>1, <1>2, <1>3, <1>4, <2>4
    <3> QED BY <3>1
  <2> QED BY <1>1, <2>1, <2>2, <2>3, <2>4
<1>6. Orderly(r, from, len)
  <2> SUFFICES ASSUME NEW i \in DOMAIN r, NEW j \in DOMAIN r, r[i].op = "commit", r[j].op \in {"row", "backlog"}
               PROVE  i < j \/ from < len - 1
    BY DEF Orderly
  <2>1. CASE i <= Len(q) /\ j <= Len(q)
    BY <1>1, <1>2, <2>1 DEF Orderly
  <2>2. CASE i <= Len(q) /\ j > Len(q)
    BY <1>1, <2>2
  <2>3. CASE i > Len(q) /\ j <= Len(q)
    <3>1. Holds(new, r[i]) /\ Holds(q, r[j])
      BY <1>1, <1>2, <1>3, <1>4, <2>3
    <3> QED BY <3>1
  <2>4. CASE i > Len(q) /\ j > Len(q)
    <3>1. Holds(new, r[i]) /\ Holds(new, r[j])
      BY <1>1, <1>2, <1>4, <2>4
    <3> QED BY <3>1
  <2> QED BY <1>1, <2>1, <2>2, <2>3, <2>4
<1> QED BY <1>1, <1>5, <1>6 DEF r

-----------------------------------------------------------------------------
(* What is written to a stream                                             *)

(* All that is written to a stream leaves these as they are.               *)
SameAsked(old, st) == st.from = old.from /\ st.said = old.said /\ st.last = old.last /\ st.buffered = old.buffered

LEMMA Associative ==
  ASSUME NEW p \in Seq(Int), NEW q \in Seq(Int), NEW r \in Seq(Int)
  PROVE  (p \o q) \o r = p \o (q \o r)
  OBVIOUS

LEMMA BroughtNumbers ==
  ASSUME NEW st \in Streams
  PROVE  /\ Brought(st) \in Seq(Int) /\ Len(Brought(st)) \in Nat /\ DOMAIN Brought(st) = 1 .. Len(Brought(st))
         /\ \A s \in Int : Holds(Brought(st), s) <=> Holds(st.sent, s) \/ Holds(st.buffer, s)
<1>1. st.sent \in Seq(Int) /\ st.buffer \in Seq(Int)
  BY DEF Streams
<1>2. st.sent \o st.buffer \in Seq(Int) /\ (\E T : st.sent \in Seq(T)) /\ \E T : st.buffer \in Seq(T)
  BY <1>1
<1> QED BY <1>2, Concatenated DEF Brought

LEMMA Flushed ==
  ASSUME NEW st \in Streams
  PROVE  /\ FlushBatch(st) \in Streams /\ Brought(FlushBatch(st)) = Brought(st) /\ SameAsked(st, FlushBatch(st))
         /\ FlushBatch(st).at = st.at /\ FlushBatch(st).listening = st.listening /\ FlushBatch(st).buffer = <<>>
<1> DEFINE f == FlushBatch(st)
<1>1. st.sent \in Seq(Int) /\ st.buffer \in Seq(Int)
  BY DEF Streams
<1>2. st.sent \o st.buffer \in Seq(Int) /\ <<>> \in Seq(Int) /\ (st.sent \o st.buffer) \o <<>> = st.sent \o st.buffer
  BY <1>1
<1>3. f = [st EXCEPT !.sent = st.sent \o st.buffer, !.buffer = <<>>]
  BY DEF FlushBatch
<1> HIDE DEF f
<1>4. /\ f \in Streams /\ f.sent = st.sent \o st.buffer /\ f.buffer = <<>> /\ SameAsked(st, f)
      /\ f.at = st.at /\ f.listening = st.listening
  BY <1>2, <1>3 DEF Streams, SameAsked
<1> QED BY <1>2, <1>4 DEF Brought, f

LEMMA Closed ==
  ASSUME NEW st \in Streams
  PROVE  /\ CloseStream(st) \in Streams /\ Brought(CloseStream(st)) = Brought(st) /\ SameAsked(st, CloseStream(st))
         /\ CloseStream(st).at = "closed" /\ ~CloseStream(st).listening /\ CloseStream(st).buffer = <<>>
<1> DEFINE f == FlushBatch(st)
           c == CloseStream(st)
<1>1. /\ f \in Streams /\ Brought(f) = Brought(st) /\ SameAsked(st, f) /\ f.buffer = <<>>
  BY Flushed
<1>2. c = [f EXCEPT !.at = "closed", !.listening = FALSE]
  BY DEF CloseStream
<1> HIDE DEF f, c
<1>3. c \in Streams /\ c.sent = f.sent /\ c.buffer = f.buffer /\ SameAsked(f, c) /\ c.at = "closed" /\ c.listening = FALSE
  BY <1>1, <1>2 DEF Streams, SameAsked
<1> QED BY <1>1, <1>3 DEF Brought, SameAsked, c

(* One event comes right behind all the others.                            *)
LEMMA EventWritten ==
  ASSUME NEW st \in Streams, Batched(st), st.at # "closed", NEW s \in Int, NEW kind
  PROVE  /\ WriteEvent(st, s, kind) \in Streams /\ Batched(WriteEvent(st, s, kind))
         /\ Brought(WriteEvent(st, s, kind)) = Brought(st) \o <<s>> /\ SameAsked(st, WriteEvent(st, s, kind))
         /\ WriteEvent(st, s, kind).at = st.at /\ WriteEvent(st, s, kind).listening = st.listening
<1> DEFINE x == WriteEvent(st, s, kind)
           g == [st EXCEPT !.buffer = Append(st.buffer, s)]
<1>1. st.sent \in Seq(Int) /\ st.buffer \in Seq(Int)
  BY DEF Streams
<1>2. CASE ~st.buffered
  <2>1. x = [st EXCEPT !.sent = Append(st.sent, s)]
    BY <1>2 DEF WriteEvent
  <2>2. Append(st.sent, s) \in Seq(Int) /\ Append(st.sent, s) \o <<>> = (st.sent \o <<>>) \o <<s>>
    <3>1. Append(st.sent, s) \in Seq(Int) /\ Append(st.sent, s) = st.sent \o <<s>>
      BY <1>1, AppendProperties, AppendIsConcat
    <3> QED BY <1>1, <3>1, ConcatEmptySeq
  <2> HIDE DEF x
  <2>3. x \in Streams /\ x.sent = Append(st.sent, s) /\ x.buffer = st.buffer /\ SameAsked(st, x) /\ x.at = st.at /\ x.listening = st.listening
    BY <2>1, <2>2 DEF Streams, SameAsked
  <2>4. st.buffer = <<>>
    BY <1>2 DEF Batched
  <2> QED BY <2>2, <2>3, <2>4 DEF Brought, x, Batched, SameAsked
<1>3. CASE st.buffered
  <2>1. Append(st.buffer, s) \in Seq(Int) /\ st.sent \o Append(st.buffer, s) = (st.sent \o st.buffer) \o <<s>>
    <3>1. Append(st.buffer, s) \in Seq(Int) /\ Append(st.buffer, s) = st.buffer \o <<s>>
      BY <1>1, AppendProperties, AppendIsConcat
    <3>2. <<s>> \in Seq(Int)
      OBVIOUS
    <3>3. (st.sent \o st.buffer) \o <<s>> = st.sent \o (st.buffer \o <<s>>)
      BY <1>1, <3>2, Associative
    <3> QED BY <3>1, <3>3
  <2> HIDE DEF g
  <2>2. /\ g \in Streams /\ g.buffer = Append(st.buffer, s) /\ g.sent = st.sent /\ SameAsked(st, g)
        /\ g.at = st.at /\ g.listening = st.listening
    BY <2>1 DEF g, Streams, SameAsked
  <2>3. Brought(g) = Brought(st) \o <<s>>
    BY <2>1, <2>2 DEF Brought
  <2>4. x = IF kind = "end" THEN FlushBatch(g) ELSE g
    BY <1>3 DEF WriteEvent, g
  <2> HIDE DEF x
  <2>5. CASE x = g
    BY <1>3, <2>2, <2>3, <2>5 DEF x, Batched, SameAsked
  <2>6. CASE x = FlushBatch(g)
    <3>1. /\ x \in Streams /\ Brought(x) = Brought(g) /\ SameAsked(g, x) /\ x.at = g.at /\ x.listening = g.listening
      BY <2>2, <2>6, Flushed
    <3> QED BY <1>3, <2>2, <2>3, <3>1 DEF x, Batched, SameAsked
  <2> QED BY <2>4, <2>5, <2>6
<1> QED BY <1>2, <1>3 DEF Streams

LEMMA Cut ==
  ASSUME NEW p \in Seq(Int), NEW q \in Seq(Int), NEW k \in 0 .. Len(q)
  PROVE  /\ SubSeq(q, 1, k) \in Seq(Int) /\ SubSeq(q, k + 1, Len(q)) \in Seq(Int)
         /\ (p \o SubSeq(q, 1, k)) \o SubSeq(q, k + 1, Len(q)) = p \o q
<1>1. Len(q) \in Nat /\ DOMAIN q = 1 .. Len(q) /\ \A i \in 1 .. Len(q) : q[i] \in Int
  OBVIOUS
<1>2. SubSeq(q, 1, k) \in Seq(Int)
  <2>1. \A i \in 1 .. k : q[i] \in Int
    BY <1>1
  <2> QED BY <1>1, <2>1, SubSeqProperties
<1>3. SubSeq(q, k + 1, Len(q)) \in Seq(Int)
  <2>1. \A i \in k + 1 .. Len(q) : q[i] \in Int
    BY <1>1
  <2> QED BY <1>1, <2>1, SubSeqProperties
<1>4. SubSeq(q, 1, k) \o SubSeq(q, k + 1, Len(q)) = q
  <2>1. 1 \in 1 .. Len(q) + 1 /\ k \in 1 - 1 .. Len(q) /\ Len(q) \in k .. Len(q)
    BY <1>1
  <2>2. SubSeq(q, 1, k) \o SubSeq(q, k + 1, Len(q)) = SubSeq(q, 1, Len(q))
    BY <2>1, ConcatAdjacentSubSeq
  <2> QED BY <2>2, SubSeqFull
<1> DEFINE a == SubSeq(q, 1, k)
           b == SubSeq(q, k + 1, Len(q))
<1> HIDE DEF a, b
<1>5. (p \o a) \o b = p \o (a \o b)
  BY <1>2, <1>3, Associative DEF a, b
<1> QED BY <1>2, <1>3, <1>4, <1>5 DEF a, b

(* The rows after one come behind all that was written.                    *)
LEMMA RowsWritten ==
  ASSUME NEW st \in Streams, Batched(st), st.at # "closed", NEW from \in Nat \cup {-1}, Len(table) \in Nat
  PROVE  LET new == [i \in 1 .. Len(table) - 1 - from |-> from + i]
             x == WriteAfter(st, from)
         IN  /\ x \in Streams /\ Batched(x) /\ Brought(x) = Brought(st) \o new /\ SameAsked(st, x)
             /\ x.at = st.at /\ x.listening = st.listening
<1> DEFINE new == [i \in 1 .. Len(table) - 1 - from |-> from + i]
           x == WriteAfter(st, from)
           gathered == st.buffer \o new
           ends == {i \in DOMAIN new : new[i] + 1 \in EndAt}
           out == IF ends = {} THEN 0 ELSE Len(st.buffer) + CHOOSE i \in ends : TRUE
           first == SubSeq(gathered, 1, out)
           second == SubSeq(gathered, out + 1, Len(gathered))
<1>1. st.sent \in Seq(Int) /\ st.buffer \in Seq(Int)
  BY DEF Streams
<1>2. new \in Seq(Int) /\ Len(new) \in Nat /\ DOMAIN new = 1 .. Len(new)
  <2> DEFINE n == IF Len(table) - 1 - from >= 0 THEN Len(table) - 1 - from ELSE 0
  <2>1. n \in Nat /\ 1 .. Len(table) - 1 - from = 1 .. n
    OBVIOUS
  <2>2. new \in [1 .. n -> Int]
    BY <2>1
  <2> HIDE DEF new, n
  <2>3. new \in Seq(Int)
    BY <2>1, <2>2
  <2> QED BY <2>3
<1>3. CASE ~st.buffered
  <2>1. x = [st EXCEPT !.sent = st.sent \o new]
    BY <1>3 DEF WriteAfter
  <2> HIDE DEF new, x
  <2>2. st.sent \o new \in Seq(Int) /\ (st.sent \o new) \o <<>> = (st.sent \o <<>>) \o new
    BY <1>1, <1>2
  <2>3. x \in Streams /\ x.sent = st.sent \o new /\ x.buffer = st.buffer /\ SameAsked(st, x) /\ x.at = st.at /\ x.listening = st.listening
    BY <2>1, <2>2 DEF Streams, SameAsked
  <2>4. st.buffer = <<>>
    BY <1>3 DEF Batched
  <2>5. Batched(x) /\ Brought(x) = Brought(st) \o new
    BY <2>2, <2>3, <2>4 DEF Brought, Batched
  <2> QED BY <2>3, <2>5 DEF new, x
<1>4. CASE st.buffered
  <2>1. x = [st EXCEPT !.sent = st.sent \o first, !.buffer = second]
    BY <1>4 DEF WriteAfter
  <2>2. gathered \in Seq(Int) /\ Len(gathered) = Len(st.buffer) + Len(new) /\ Len(st.buffer) \in Nat
    <3> HIDE DEF new
    <3> QED BY <1>1, <1>2
  <2>3. out \in 0 .. Len(gathered)
    <3> HIDE DEF new, gathered
    <3>1. CASE ends = {}
      BY <2>2, <3>1
    <3>2. CASE ends # {}
      <4> DEFINE i == CHOOSE j \in ends : TRUE
      <4>1. i \in ends
        BY <3>2
      <4>2. i \in 1 .. Len(new)
        BY <1>2, <4>1
      <4>3. out = Len(st.buffer) + i
        BY <3>2
      <4> HIDE DEF i, out
      <4> QED BY <1>2, <2>2, <4>2, <4>3
    <3> QED BY <3>1, <3>2
  <2> HIDE DEF new, x, out
  <2>4. st.sent \o gathered = (st.sent \o st.buffer) \o new
    BY <1>1, <1>2, Associative
  <2> HIDE DEF gathered
  <2>5. first \in Seq(Int) /\ second \in Seq(Int) /\ (st.sent \o first) \o second = st.sent \o gathered
    BY <1>1, <2>2, <2>3, Cut
  <2> HIDE DEF first, second
  <2>6. st.sent \o first \in Seq(Int)
    BY <1>1, <2>5
  <2>7. x \in Streams /\ x.sent = st.sent \o first /\ x.buffer = second /\ SameAsked(st, x) /\ x.at = st.at /\ x.listening = st.listening
    BY <2>1, <2>5, <2>6 DEF Streams, SameAsked
  <2>8. Batched(x) /\ Brought(x) = Brought(st) \o new
    BY <1>4, <2>4, <2>5, <2>7 DEF Brought, Batched, SameAsked
  <2> QED BY <2>7, <2>8 DEF new, x
<1> QED BY <1>3, <1>4 DEF Streams

LEMMA OneMore ==
  ASSUME NEW p \in Seq(Int), NEW from \in Int, Gapless(p, from), NEW s \in Int,
         s = from + 1 \/ \E j \in DOMAIN p : p[j] >= s - 1
  PROVE  Gapless(p \o <<s>>, from)
<1> DEFINE q == p \o <<s>>
<1>1. /\ Len(p) \in Nat /\ DOMAIN p = 1 .. Len(p) /\ DOMAIN q = 1 .. Len(p) + 1
      /\ q[Len(p) + 1] = s /\ \A i \in 1 .. Len(p) : q[i] = p[i]
  OBVIOUS
<1> HIDE DEF q
<1>2. ASSUME NEW i \in DOMAIN q PROVE q[i] = from + 1 \/ \E j \in 1 .. i - 1 : q[j] >= q[i] - 1
  <2>1. CASE i \in 1 .. Len(p)
    <3>1. p[i] = from + 1 \/ \E j \in 1 .. i - 1 : p[j] >= p[i] - 1
      BY <1>1, <2>1 DEF Gapless
    <3>2. \A j \in 1 .. i - 1 : j \in 1 .. Len(p)
      BY <1>1, <2>1
    <3> QED BY <1>1, <2>1, <3>1, <3>2
  <2>2. CASE i = Len(p) + 1
    <3>1. \A j \in DOMAIN p : j \in 1 .. i - 1
      BY <1>1, <2>2
    <3> QED BY <1>1, <2>2, <3>1
  <2> QED BY <1>1, <2>1, <2>2
<1> QED BY <1>2 DEF Gapless, q

LEMMA ManyMore ==
  ASSUME NEW p \in Seq(Int), NEW from \in Int, Gapless(p, from), NEW k \in Int, NEW n \in Int,
         k = from \/ Holds(p, k)
  PROVE  Gapless(p \o [i \in 1 .. n |-> k + i], from)
<1> DEFINE new == [i \in 1 .. n |-> k + i]
           q == p \o new
           m == IF n >= 0 THEN n ELSE 0
<1>1. new \in Seq(Int) /\ Len(new) = m /\ m \in Nat
  <2>1. m \in Nat /\ 1 .. n = 1 .. m
    OBVIOUS
  <2>2. new \in [1 .. m -> Int]
    BY <2>1
  <2> HIDE DEF new, m
  <2> QED BY <2>1, <2>2
<1>2. \A i \in 1 .. m : new[i] = k + i
  OBVIOUS
<1> HIDE DEF new, m
<1>3. /\ Len(p) \in Nat /\ DOMAIN p = 1 .. Len(p) /\ DOMAIN q = 1 .. Len(p) + m
      /\ (\A i \in 1 .. Len(p) : q[i] = p[i]) /\ \A i \in 1 .. m : q[Len(p) + i] = new[i]
  BY <1>1
<1> HIDE DEF q
<1>4. ASSUME NEW i \in DOMAIN q PROVE q[i] = from + 1 \/ \E j \in 1 .. i - 1 : q[j] >= q[i] - 1
  <2>1. CASE i \in 1 .. Len(p)
    <3>1. p[i] = from + 1 \/ \E j \in 1 .. i - 1 : p[j] >= p[i] - 1
      BY <1>3, <2>1 DEF Gapless
    <3>2. \A j \in 1 .. i - 1 : j \in 1 .. Len(p)
      BY <1>3, <2>1
    <3> QED BY <1>3, <2>1, <3>1, <3>2
  <2>2. CASE i = Len(p) + 1
    <3>1. 1 \in 1 .. m /\ q[i] = k + 1
      BY <1>1, <1>2, <1>3, <2>2
    <3>2. ASSUME Holds(p, k) PROVE \E j \in 1 .. i - 1 : q[j] >= q[i] - 1
      <4>1. PICK j \in DOMAIN p : p[j] = k
        BY <3>2 DEF Holds
      <4>2. j \in 1 .. i - 1 /\ q[j] = k
        BY <1>3, <2>2, <4>1
      <4> QED BY <3>1, <4>2
    <3> QED BY <3>1, <3>2
  <2>3. CASE i > Len(p) + 1
    <3> DEFINE h == i - Len(p)
    <3>1. h \in 1 .. m /\ h - 1 \in 1 .. m /\ i = Len(p) + h /\ i - 1 = Len(p) + (h - 1) /\ i - 1 \in 1 .. i - 1
      <4>1. m \in Nat /\ Len(p) \in Nat /\ i \in 1 .. Len(p) + m /\ i > Len(p) + 1
        BY <1>1, <1>3, <2>3
      <4> QED BY <4>1
    <3>2. q[i] = k + h /\ q[i - 1] = k + (h - 1)
      BY <1>2, <1>3, <3>1
    <3> QED BY <3>1, <3>2
  <2> QED BY <1>3, <2>1, <2>2, <2>3
<1> QED BY <1>4 DEF Gapless, q, new

(* What comes behind takes nothing away.                                   *)
LEMMA StillReaches ==
  ASSUME NEW st \in Streams, NEW x, x.from = st.from, NEW more \in Seq(Int), Brought(x) = Brought(st) \o more
  PROVE  /\ \A s : Holds(Brought(st), s) \/ Holds(more, s) <=> Holds(Brought(x), s)
         /\ \A k : Reaches(st, k) => Reaches(x, k)
<1>1. /\ \E T : Brought(st) \in Seq(T)
      /\ \E T : more \in Seq(T)
  BY BroughtNumbers
<1>2. \A s : Holds(Brought(st), s) \/ Holds(more, s) <=> Holds(Brought(x), s)
  <2>1. PICK p, q : p = Brought(st) /\ q = more
    OBVIOUS
  <2>2. \A s : Holds(p \o q, s) <=> Holds(p, s) \/ Holds(q, s)
    BY <1>1, <2>1, Concatenated, Zenon
  <2> QED BY <2>1, <2>2, Zenon
<1> QED BY <1>2 DEF Reaches

LEMMA RowsReached ==
  ASSUME NEW st \in Streams, NEW k \in Int, Reaches(st, k), NEW x, x.from = st.from, Len(table) \in Nat,
         Brought(x) = Brought(st) \o [i \in 1 .. Len(table) - 1 - k |-> k + i]
  PROVE  Reaches(x, Len(table) - 1) /\ \A h : Reaches(st, h) => Reaches(x, h)
<1> DEFINE n == Len(table) - 1 - k
           m == IF n >= 0 THEN n ELSE 0
           new == [i \in 1 .. n |-> k + i]
<1>1. new \in Seq(Int) /\ DOMAIN new = 1 .. n
  <2>1. m \in Nat /\ 1 .. n = 1 .. m
    OBVIOUS
  <2>2. new \in [1 .. m -> Int]
    BY <2>1
  <2> HIDE DEF new, m
  <2>3. new \in Seq(Int)
    BY <2>1, <2>2
  <2> QED BY <2>1, <2>2, <2>3
<1>2. \A i \in 1 .. n : new[i] = k + i
  OBVIOUS
<1> HIDE DEF new
<1>3. /\ \A s : Holds(Brought(st), s) \/ Holds(new, s) <=> Holds(Brought(x), s)
      /\ \A h : Reaches(st, h) => Reaches(x, h)
  BY <1>1, StillReaches DEF new
<1>4. ASSUME NEW s \in st.from + 1 .. Len(table) - 1 PROVE Holds(Brought(x), s)
  <2>0. st.from \in Int
    BY DEF Streams
  <2>1. CASE s <= k
    BY <1>3, <2>0, <2>1 DEF Reaches
  <2>2. CASE s > k
    <3>1. s - k \in 1 .. n /\ k + (s - k) = s
      BY <2>0, <2>2
    <3>2. Holds(new, s)
      BY <1>1, <1>2, <3>1 DEF Holds
    <3> QED BY <1>3, <3>2
  <2> QED BY <2>0, <2>1, <2>2
<1> QED BY <1>3, <1>4 DEF Reaches

(* A listener is told of an event.                                         *)
LEMMA ToldOf ==
  ASSUME NEW st \in Streams, Batched(st), st.at # "closed", st.listening, NEW s \in Int, NEW kind
  PROVE  /\ OnEvent(st, s, kind) \in Streams /\ Batched(OnEvent(st, s, kind))
         /\ Brought(OnEvent(st, s, kind)) = Brought(st) \o <<s>> /\ SameAsked(st, OnEvent(st, s, kind))
         /\ kind # "end" => OnEvent(st, s, kind).at = st.at /\ OnEvent(st, s, kind).listening
         /\ kind = "end" => /\ OnEvent(st, s, kind).at = "closed" /\ ~OnEvent(st, s, kind).listening
                            /\ OnEvent(st, s, kind).buffer = <<>>
<1> DEFINE w == WriteEvent(st, s, kind)
           x == OnEvent(st, s, kind)
<1>1. /\ w \in Streams /\ Batched(w) /\ Brought(w) = Brought(st) \o <<s>> /\ SameAsked(st, w)
      /\ w.at = st.at /\ w.listening = st.listening
  BY EventWritten
<1>2. x = IF kind = "end" THEN CloseStream(w) ELSE w
  BY DEF OnEvent
<1> HIDE DEF w, x
<1>3. CASE kind = "end"
  <2>1. /\ x \in Streams /\ Brought(x) = Brought(w) /\ SameAsked(w, x)
        /\ x.at = "closed" /\ ~x.listening /\ x.buffer = <<>>
    BY <1>1, <1>2, <1>3, Closed
  <2> QED BY <1>1, <1>3, <2>1 DEF x, SameAsked, Batched
<1>4. CASE kind # "end"
  BY <1>1, <1>2, <1>4 DEF x
<1> QED BY <1>3, <1>4

-----------------------------------------------------------------------------
(* What a step leaves as it is                                             *)

RowsGrow ==
  /\ table' \in Seq({"step", "end"}) /\ Len(table) <= Len(table') /\ EndAt \subseteq EndAt'
  /\ \A i \in DOMAIN table : i \in DOMAIN table' /\ table'[i] = table[i]
  /\ ended => ended'

LEMMA RowsStay ==
  ASSUME StreamTypes, table' = table, ended => ended'
  PROVE  RowsGrow /\ Len(table) \in Nat
  BY DEF RowsGrow, StreamTypes, EndAt

LEMMA RowsAppended ==
  ASSUME StreamTypes, NEW kind \in {"step", "end"}, table' = Append(table, kind), ended => ended'
  PROVE  RowsGrow /\ Len(table') = Len(table) + 1 /\ table'[Len(table) + 1] = kind /\ Len(table) \in Nat /\ table' # <<>>
         /\ (kind = "end" => Len(table) + 1 \in EndAt')
<1>1. /\ table' \in Seq({"step", "end"}) /\ Len(table') = Len(table) + 1 /\ Len(table) \in Nat /\ table'[Len(table) + 1] = kind
      /\ DOMAIN table = 1 .. Len(table) /\ DOMAIN table' = 1 .. Len(table) + 1 /\ \A i \in DOMAIN table : table'[i] = table[i]
  BY DEF StreamTypes
<1>2. table' # <<>>
  BY <1>1
<1> QED BY <1>1, <1>2 DEF RowsGrow, EndAt

LEMMA StreamStays ==
  ASSUME StreamTypes, StreamFits, stream' = stream, place' = place, RowsGrow, Told \in Int, Told' \in Int, Told <= Told',
         place = "here" /\ stream.listening => Told' = Told
  PROVE  StreamFits'
<1>1. stream.from \in Int /\ Len(table) \in Nat /\ Len(table') \in Nat
  BY DEF StreamTypes, Streams, RowsGrow
<1>2. ToldAll(stream) => ToldAll(stream)'
  BY DEF RowsGrow, ToldAll, Reaches
<1>3. stream.at # "off" => stream.from < Len(table')
  BY <1>1 DEF StreamFits, Follows, RowsGrow
<1>4. stream.listening => stream.from <= Told' /\ (place = "here" => Reaches(stream, Told'))
  BY <1>1 DEF StreamFits, Follows
<1> QED BY <1>2, <1>3, <1>4 DEF StreamFits, Follows, RowsGrow, Reaches

LEMMA PollerStays ==
  ASSUME PollerFits, poller' = poller, RowsGrow
  PROVE  PollerFits'
  BY DEF PollerFits, RowsGrow

(* The subscriptions that wait to be looked up.                            *)
SameLookUps ==
  \A e : e.op = "subscriptions" => (Holds(queue', e) <=> Holds(queue, e))

LEMMA HookStays ==
  ASSUME StreamTypes, HookFits, hook' = hook, reader' = reader, place' = place, host' = host, RowsGrow,
         Told \in Int, Told' \in Int, Told <= Told', hook.at = "on" => Told' = Told, Told < Len(table), SameLookUps
  PROVE  HookFits'
<1>1. /\ hook.since \in Nat /\ hook.posted \in Seq(Nat) /\ DOMAIN table = 1 .. Len(table)
      /\ \A j \in DOMAIN hook.posted : hook.posted[j] \in Nat
  BY DEF StreamTypes, Hooks
<1>2. ASSUME hook.at = "on", NEW s \in hook.since .. Told'
      PROVE  \/ ~Wants(hook.types, table'[s + 1]) \/ Holds(hook.posted, s)
             \/ \E e : Holds(queue', e) /\ e.op = "subscriptions" /\ e.by = s
  <2>1. s \in hook.since .. Told /\ s + 1 \in DOMAIN table
    BY <1>1, <1>2
  <2>2. table'[s + 1] = table[s + 1]
    BY <2>1 DEF RowsGrow
  <2>3. \/ ~Wants(hook.types, table[s + 1]) \/ Holds(hook.posted, s)
        \/ \E e : Holds(queue, e) /\ e.op = "subscriptions" /\ e.by = s
    BY <1>2, <2>1 DEF HookFits
  <2> QED BY <2>2, <2>3 DEF SameLookUps
<1>3. ASSUME NEW j \in DOMAIN hook.posted PROVE hook.posted[j] <= Told'
  BY <1>1 DEF HookFits
<1>4. \A j \in DOMAIN hook.posted : \A e : Holds(queue', e) /\ e.op = "subscriptions" => e.by # hook.posted[j]
  BY DEF HookFits, SameLookUps
<1> QED BY <1>2, <1>3, <1>4 DEF HookFits

LEMMA WriterCalm ==
  ASSUME table' = table, line' = line, job' = job, held' = held, NEW e, OfWriter(e)
  PROVE  OfWriter(e)'
  BY DEF OfWriter, EndAt

LEMMA StreamCalm ==
  ASSUME stream' = stream, ended => ended', NEW e, OfStream(e)
  PROVE  OfStream(e)'
  BY DEF OfStream, Reaches, Brought

LEMMA HookCalm ==
  ASSUME Told \in Int, Told' \in Int, Told <= Told', reader' = reader, NEW e, OfHook(e)
  PROVE  OfHook(e)'
  BY DEF OfHook

LEMMA WritersCalm ==
  ASSUME WritersFit, line' = line, job' = job, place' = place, ended' = ended, EndAt \subseteq EndAt'
  PROVE  WritersFit'
  BY DEF WritersFit

-----------------------------------------------------------------------------
(* A statement is executed, or issued                                      *)

LEMMA IssuedThen ==
  ASSUME StreamInv, NEW op, Executed(op), NEW new, \E T : new \in Seq(T), Issue(new)
  PROVE  \A d : Holds(queue', d) <=> Holds(Tail(queue), d) \/ Holds(new, d)
<1>1. (\E T : queue \in Seq(T)) /\ queue # <<>>
  BY DEF StreamInv, StreamTypes, Executed
<1>2. \E T : Tail(queue) \in Seq(T)
  BY <1>1, HeadAndTail
<1> QED BY <1>2, Concatenated DEF Issue

LEMMA AskedThen ==
  ASSUME StreamTypes, NEW e, queue' = Append(queue, e)
  PROVE  /\ queue' = queue \o <<e>>
         /\ \A d : Holds(queue', d) <=> Holds(queue, d) \/ d = e
<1>1. PICK T : queue \in Seq(T)
  BY DEF StreamTypes
<1>2. queue \in Seq(T \cup {e}) /\ e \in T \cup {e}
  BY <1>1
<1>3. queue' = queue \o <<e>>
  BY <1>2, AppendIsConcat
<1> DEFINE new == <<e>>
<1>4. (\E U : new \in Seq(U)) /\ \A d : Holds(new, d) <=> d = e
  BY OneOnly
<1> HIDE DEF new
<1>5. \A d : Holds(queue \o new, d) <=> Holds(queue, d) \/ Holds(new, d)
  BY <1>1, <1>4, Concatenated
<1> QED BY <1>3, <1>4, <1>5 DEF new

LEMMA Executes ==
  ASSUME StreamInv, NEW op, Executed(op)
  PROVE  /\ host = "postgres" /\ Head(queue).op = op /\ Expects(Head(queue)) /\ Holds(queue, Head(queue))
         /\ \E T : Tail(queue) \in Seq(T)
         /\ \A e : Holds(queue, e) <=> e = Head(queue) \/ Holds(Tail(queue), e)
         /\ \A e : Holds(Tail(queue), e) =>
              /\ Expects(e) /\ Differ(Head(queue), e)
              /\ op \in Transacting => e.op \notin Transacting
              /\ op \in Following => e.op \notin Following
              /\ op \in Ending => e.op \notin Ending
         /\ Distinguished(Tail(queue)) /\ Orderly(Tail(queue), stream.from, Len(table))
         /\ stream.from \in Int /\ Len(table) \in Nat
<1>1. Head(queue).op = op /\ queue # <<>> /\ host = "postgres"
  BY DEF Executed, StreamInv, QueueFits
<1>2. (\E T : queue \in Seq(T)) /\ stream.from \in Int /\ Len(table) \in Nat
  BY DEF StreamInv, StreamTypes, Streams
<1>3. /\ \E T : Tail(queue) \in Seq(T)
      /\ Holds(queue, Head(queue))
      /\ \A e : Holds(queue, e) <=> e = Head(queue) \/ Holds(Tail(queue), e)
      /\ \A e : Holds(Tail(queue), e) => Differ(Head(queue), e)
      /\ Distinguished(Tail(queue)) /\ Orderly(Tail(queue), stream.from, Len(table))
  BY <1>1, <1>2, RestOfQueue DEF StreamInv, QueueFits
<1>4. \A e : Holds(queue, e) => Expects(e)
  BY DEF StreamInv, QueueFits
<1> QED BY <1>1, <1>2, <1>3, <1>4 DEF Differ

LEMMA ToldNumber ==
  ASSUME StreamTypes
  PROVE  Told \in Int /\ Told < Len(table) /\ Len(table) \in Nat /\ Told <= Len(table) - 1 /\ Told >= Len(table) - 2
<1>1. Len(table) \in Nat
  BY DEF StreamTypes
<1> QED BY <1>1 DEF Told

LEMMA LaterOrder ==
  ASSUME NEW q, NEW from \in Int, NEW m \in Int, NEW n \in Int, m <= n, Orderly(q, from, m)
  PROVE  Orderly(q, from, n)
  BY DEF Orderly

(* Nothing is issued.                                                      *)
LEMMA IssuesNone ==
  ASSUME StreamInv, NEW op, Executed(op), Issue(<<>>), host' = host, stream'.from = stream.from,
         Len(table) <= Len(table'), Len(table') \in Int,
         \A d : Holds(Tail(queue), d) => Expects(d)'
  PROVE  /\ QueueFits' /\ \E T : queue' \in Seq(T)
         /\ \A d : Holds(queue', d) <=> Holds(Tail(queue), d)
<1>1. /\ host = "postgres" /\ Distinguished(Tail(queue)) /\ Orderly(Tail(queue), stream.from, Len(table))
      /\ stream.from \in Int /\ Len(table) \in Nat
      /\ \E T : Tail(queue) \in Seq(T)
  BY Executes
<1>2. queue' = Tail(queue)
  BY <1>1, ConcatEmptySeq DEF Issue
<1> QED BY <1>1, <1>2, LaterOrder DEF QueueFits

(* One statement is issued behind the others.                              *)
LEMMA IssuesOne ==
  ASSUME StreamInv, NEW op, Executed(op), NEW e, Issue(<<e>>), host' = host, stream'.from = stream.from,
         Len(table) <= Len(table'), Len(table') \in Int,
         e.op \in Transacting => op \in Transacting,
         e.op \in Following => op \in Following,
         e.op \in Ending => op \in Ending,
         e.op # "subscriptions",
         e.op = "commit" => Len(table) < Len(table'),
         Expects(e)',
         \A d : Holds(Tail(queue), d) => Expects(d)'
  PROVE  /\ QueueFits' /\ \E T : queue' \in Seq(T)
         /\ \A d : Holds(queue', d) <=> Holds(Tail(queue), d) \/ d = e
<1> DEFINE rest == Tail(queue)
           new == <<e>>
<1>1. /\ host = "postgres" /\ Distinguished(rest) /\ Orderly(rest, stream.from, Len(table))
      /\ stream.from \in Int /\ Len(table) \in Nat
      /\ \E T : rest \in Seq(T)
      /\ \A d : Holds(rest, d) =>
           /\ Expects(d)
           /\ op \in Transacting => d.op \notin Transacting
           /\ op \in Following => d.op \notin Following
           /\ op \in Ending => d.op \notin Ending
  BY Executes
<1>2. /\ \E T : new \in Seq(T)
      /\ DOMAIN new = {1} /\ \A s : Holds(new, s) <=> s = e
  BY OneOnly
<1>3. queue' = rest \o new
  BY DEF Issue
<1> HIDE DEF rest, new
<1>4. Distinguished(new) /\ Orderly(rest, stream.from, Len(table'))
  BY <1>1, <1>2, LaterOrder DEF Distinguished
<1>5. ASSUME NEW d, Holds(rest, d) PROVE Differ(d, e) /\ Differ(e, d)
  BY <1>1, <1>5 DEF Differ
<1>6. ASSUME NEW d, Holds(rest, d), d.op \in {"row", "backlog"}, e.op = "commit" PROVE stream.from < Len(table') - 1
  <2>1. stream.at = "open"
    BY <1>1, <1>6 DEF Expects, OfStream
  <2>2. stream.from < Len(table)
    BY <2>1 DEF StreamInv, StreamFits, Follows
  <2> QED BY <1>1, <1>6, <2>2
<1>7. /\ \E T : rest \o new \in Seq(T)
      /\ Distinguished(rest \o new) /\ Orderly(rest \o new, stream.from, Len(table'))
      /\ \A d : Holds(rest \o new, d) <=> Holds(rest, d) \/ Holds(new, d)
  <2>1. \A d, f : Holds(rest, d) /\ Holds(new, f) => Differ(d, f) /\ Differ(f, d)
    BY <1>2, <1>5
  <2>2. \A f : Holds(new, f) => f.op \notin {"row", "backlog"} \/ \A d : Holds(new, d) => d.op # "commit"
    BY <1>2
  <2>3. \A d, f : Holds(rest, d) /\ Holds(new, f) => d.op \notin {"row", "backlog"} \/ f.op # "commit" \/ stream.from < Len(table') - 1
    BY <1>2, <1>6
  <2>4. /\ Distinguished(rest) /\ stream.from \in Int /\ \E T : rest \in Seq(T)
        /\ \E T : new \in Seq(T)
    BY <1>1, <1>2
  <2> QED BY <1>4, <2>1, <2>2, <2>3, <2>4, QueueGrows
<1>8. \A d : Holds(queue', d) <=> Holds(rest, d) \/ d = e
  BY <1>2, <1>3, <1>7
<1>9. \A d : Holds(queue', d) => Expects(d)'
  BY <1>8 DEF rest
<1> QED BY <1>1, <1>3, <1>7, <1>8, <1>9 DEF QueueFits, rest

(* A request's first statement, or a writer's.                             *)
LEMMA AsksOne ==
  ASSUME StreamInv, host = "postgres", NEW e, queue' = Append(queue, e), host' = host, table' = table,
         stream'.from = stream.from \/ \A d : Holds(queue, d) => d.op \notin Following,
         stream'.from \in Int,
         e.op \in Transacting => \A d : Holds(queue, d) => d.op \notin Transacting,
         e.op \in Following => \A d : Holds(queue, d) => d.op \notin Following,
         e.op \notin {"subscriptions", "commit"} \cup Ending,
         Expects(e)',
         \A d : Holds(queue, d) => Expects(d)'
  PROVE  /\ QueueFits' /\ \E T : queue' \in Seq(T)
         /\ \A d : Holds(queue', d) <=> Holds(queue, d) \/ d = e
<1> DEFINE new == <<e>>
<1>1. /\ Distinguished(queue) /\ Orderly(queue, stream.from, Len(table))
      /\ stream.from \in Int /\ Len(table) \in Nat
      /\ \E T : queue \in Seq(T)
  BY DEF StreamInv, QueueFits, StreamTypes, Streams
<1>2. /\ \E T : new \in Seq(T)
      /\ DOMAIN new = {1} /\ \A s : Holds(new, s) <=> s = e
  BY OneOnly
<1>3. queue' = queue \o new
  BY AskedThen DEF StreamInv
<1> HIDE DEF new
<1>4. Distinguished(new) /\ Orderly(queue, stream'.from, Len(table))
  <2>1. CASE stream'.from = stream.from
    BY <1>1, <1>2, <2>1 DEF Distinguished
  <2>2. CASE \A d : Holds(queue, d) => d.op \notin Following
    <3>1. \A i \in DOMAIN queue : queue[i].op \notin {"row", "backlog"}
      BY <2>2 DEF Holds, Following
    <3> QED BY <1>2, <3>1 DEF Distinguished, Orderly
  <2> QED BY <2>1, <2>2
<1>5. ASSUME NEW d, Holds(queue, d) PROVE Differ(d, e) /\ Differ(e, d)
  BY <1>5 DEF Differ
<1>7. /\ \E T : queue \o new \in Seq(T)
      /\ Distinguished(queue \o new) /\ Orderly(queue \o new, stream'.from, Len(table))
      /\ \A d : Holds(queue \o new, d) <=> Holds(queue, d) \/ Holds(new, d)
  <2>1. \A d, f : Holds(queue, d) /\ Holds(new, f) => Differ(d, f) /\ Differ(f, d)
    BY <1>2, <1>5
  <2>2. \A d : Holds(new, d) => d.op # "commit"
    BY <1>2
  <2> QED BY <1>1, <1>2, <1>4, <2>1, <2>2, QueueGrows
<1>8. \A d : Holds(queue', d) <=> Holds(queue, d) \/ d = e
  BY <1>2, <1>3, <1>7
<1>9. \A d : Holds(queue', d) => Expects(d)'
  BY <1>8
<1> QED BY <1>1, <1>3, <1>7, <1>8, <1>9 DEF QueueFits

(* A step that appends no event, tells nobody of one, and looks nothing up.*)
LEMMA Quiet ==
  ASSUME StreamInv, UNCHANGED <<host, place, reader, table>>, ended => ended',
         \A d : d.op \in {"commit", "subscriptions"} => (Holds(queue', d) <=> Holds(queue, d))
  PROVE  /\ Told' = Told /\ RowsGrow
         /\ poller' = poller => PollerFits'
         /\ hook' = hook => HookFits'
         /\ stream' = stream => StreamFits'
         /\ \A d : OfHook(d) => OfHook(d)'
         /\ stream' = stream => \A d : OfStream(d) => OfStream(d)'
         /\ UNCHANGED <<line, job, held>> => \A d : OfWriter(d) => OfWriter(d)'
         /\ UNCHANGED <<line, job, ended>> => WritersFit'
<1>1. Told' = Told /\ SameLookUps
  BY DEF Told, Untold, SameLookUps
<1>2. Told \in Int /\ Told < Len(table) /\ RowsGrow
  BY ToldNumber, RowsStay DEF StreamInv
<1>3. Told' \in Int /\ Told <= Told'
  BY <1>1, <1>2
<1>4. poller' = poller => PollerFits'
  BY <1>2, PollerStays DEF StreamInv
<1>5. hook' = hook => HookFits'
  BY <1>1, <1>2, <1>3, HookStays DEF StreamInv
<1>6. stream' = stream => StreamFits'
  BY <1>1, <1>2, <1>3, StreamStays DEF StreamInv
<1>7. \A d : OfHook(d) => OfHook(d)'
  BY <1>2, <1>3, HookCalm
<1>8. stream' = stream => \A d : OfStream(d) => OfStream(d)'
  BY StreamCalm
<1>9. UNCHANGED <<line, job, held>> => \A d : OfWriter(d) => OfWriter(d)'
  BY WriterCalm
<1>10. UNCHANGED <<line, job, ended>> => WritersFit'
  BY <1>2, WritersCalm DEF StreamInv, RowsGrow
<1> QED BY <1>1, <1>2, <1>4, <1>5, <1>6, <1>7, <1>8, <1>9, <1>10

-----------------------------------------------------------------------------
(* The writers                                                             *)

LEMMA AskLockStep ==
  ASSUME StreamInv, NEW w \in Writers, NEW kind \in {"step", "end"}, AskLock(w, kind)
  PROVE  StreamInv'
<1>1. /\ host = "postgres" /\ job[w] = "none" /\ job' = [job EXCEPT ![w] = kind] /\ line' = Append(line, w)
      /\ queue' = IF line = <<>> THEN Append(queue, Query("begin", w)) ELSE queue
      /\ UNCHANGED <<host, place, reader, table, ended, held, stream, poller, hook>>
      /\ kind = "end" => w = "executor" /\ place = "here"
  BY DEF AskLock, MayAppend, database, Writers
<1>2. /\ line \in Seq(Writers) /\ Len(line) \in Nat /\ DOMAIN line = 1 .. Len(line)
      /\ line' \in Seq(Writers) /\ DOMAIN line' = 1 .. Len(line) + 1 /\ line' # <<>>
      /\ line'[Len(line) + 1] = w /\ \A k \in 1 .. Len(line) : line'[k] = line[k]
      /\ line = <<>> <=> Len(line) = 0
  BY <1>1 DEF StreamInv, StreamTypes
<1>3. job \in [Writers -> {"none", "step", "end"}] /\ job' \in [Writers -> {"none", "step", "end"}]
  BY <1>1 DEF StreamInv, StreamTypes
<1>4. PICK e : e = Query("begin", w)
  OBVIOUS
<1>5. e.op = "begin" /\ e.by = w
  BY <1>4 DEF Query
<1>6. \A d : Holds(queue', d) => Holds(queue, d) \/ (line = <<>> /\ d = e)
  BY <1>1, <1>4, AskedThen DEF StreamInv
<1>7. \A d : Holds(queue, d) => Holds(queue', d)
  BY <1>1, <1>4, AskedThen DEF StreamInv
<1>8. /\ Told' = Told /\ RowsGrow /\ PollerFits' /\ HookFits' /\ StreamFits'
      /\ \A d : OfHook(d) => OfHook(d)'
      /\ \A d : OfStream(d) => OfStream(d)'
  <2>1. \A d : d.op \in {"commit", "subscriptions"} => (Holds(queue', d) <=> Holds(queue, d))
    BY <1>5, <1>6, <1>7
  <2> QED BY <1>1, <2>1, Quiet
<1>9. WritersFit'
  <2>1. \A k \in DOMAIN line : line[k] # w /\ job'[line[k]] # "none"
    BY <1>1, <1>2, <1>3 DEF StreamInv, WritersFit
  <2>2. \A k \in DOMAIN line' : job'[line'[k]] # "none" /\ \A l \in DOMAIN line' : k # l => line'[k] # line'[l]
    <3> SUFFICES ASSUME NEW k \in DOMAIN line', NEW l \in DOMAIN line'
                 PROVE  job'[line'[k]] # "none" /\ (k # l => line'[k] # line'[l])
      OBVIOUS
    <3>1. (k \in DOMAIN line \/ k = Len(line) + 1) /\ (l \in DOMAIN line \/ l = Len(line) + 1)
      BY <1>2
    <3>2. job'[w] # "none"
      BY <1>1, <1>3
    <3> QED BY <1>2, <2>1, <3>1, <3>2 DEF StreamInv, WritersFit
  <2>3. \A v \in Writers : job'[v] = "end" => v = "executor" /\ place = "here"
    BY <1>1, <1>3 DEF StreamInv, WritersFit
  <2>4. EndAt' = EndAt
    BY <1>1 DEF EndAt
  <2> QED BY <1>1, <2>2, <2>3, <2>4 DEF WritersFit, StreamInv
<1>10. ASSUME NEW d, Holds(queue, d) PROVE Expects(d)'
  <2>1. Expects(d)
    BY <1>10 DEF StreamInv, QueueFits
  <2>2. OfWriter(d)'
    <3>1. d.op \in Transacting => line' # <<>> /\ d.by = line'[1] /\ job'[d.by] = job[d.by]
      <4> SUFFICES ASSUME d.op \in Transacting PROVE line' # <<>> /\ d.by = line'[1] /\ job'[d.by] = job[d.by]
        OBVIOUS
      <4>1. line # <<>> /\ d.by = line[1]
        BY <2>1 DEF Expects, OfWriter
      <4>2. 1 \in DOMAIN line /\ job[line[1]] # "none"
        BY <1>2, <4>1 DEF StreamInv, WritersFit
      <4> QED BY <1>1, <1>2, <4>1, <4>2
    <3>2. d.op \in Ending => job'["executor"] = "end" /\ \A k \in DOMAIN line' : line'[k] # "executor"
      <4> SUFFICES ASSUME d.op \in Ending PROVE job'["executor"] = "end" /\ \A k \in DOMAIN line' : line'[k] # "executor"
        OBVIOUS
      <4>1. job["executor"] = "end" /\ \A k \in DOMAIN line : line[k] # "executor"
        BY <2>1 DEF Expects, OfWriter
      <4> QED BY <1>1, <1>2, <1>3, <4>1
    <3>3. EndAt' = EndAt
      BY <1>1 DEF EndAt
    <3>4. d.op \in {"insert", "commit"} => d.op \in Transacting
      BY DEF Transacting
    <3> QED BY <1>1, <2>1, <3>1, <3>2, <3>3, <3>4 DEF Expects, OfWriter
  <2> QED BY <1>8, <2>1, <2>2 DEF Expects
<1>11. QueueFits' /\ \E T : queue' \in Seq(T)
  <2>1. CASE line = <<>>
    <3>1. \A d : Holds(queue, d) => d.op \notin Transacting
      BY <2>1 DEF StreamInv, QueueFits, Expects, OfWriter
    <3>2. Expects(e)'
      <4>1. OfWriter(e)'
        BY <1>2, <1>5, <2>1 DEF OfWriter, Transacting, Ending
      <4> QED BY <1>5, <4>1 DEF Expects, OfStream, OfHook
    <3>3. queue' = Append(queue, e)
      BY <1>1, <1>4, <2>1
    <3>4. stream'.from = stream.from /\ stream.from \in Int
      BY <1>1 DEF StreamInv, StreamTypes, Streams
    <3> QED BY <1>1, <1>5, <1>10, <3>1, <3>2, <3>3, <3>4, AsksOne DEF Following, Ending
  <2>2. CASE line # <<>>
    BY <1>1, <1>10, <2>2 DEF StreamInv, QueueFits, StreamTypes
  <2> QED BY <2>1, <2>2
<1>12. StreamTypes'
  BY <1>1, <1>2, <1>3, <1>11 DEF StreamInv, StreamTypes
<1> QED BY <1>8, <1>9, <1>11, <1>12 DEF StreamInv

(* One statement of a writer after another.                                *)
LEMMA WriterTurn ==
  ASSUME StreamInv, NEW op, Executed(op), NEW e, Issue(<<e>>), op \notin {"commit", "subscriptions"}, e.op \notin {"commit", "subscriptions"},
         UNCHANGED <<host, place, reader, table, ended, line, job, stream, poller, hook>>,
         op \in Transacting \/ held' = held,
         e.op \in Transacting <=> op \in Transacting,
         e.op \in Ending <=> op \in Ending,
         e.op \notin Following, e.op \notin {"register", "unregister"},
         OfWriter(e)'
  PROVE  StreamInv'
<1>1. /\ \A d : Holds(queue, d) <=> d = Head(queue) \/ Holds(Tail(queue), d)
      /\ \A d : Holds(Tail(queue), d) => Expects(d) /\ (op \in Transacting => d.op \notin Transacting)
      /\ stream.from \in Int /\ Len(table) \in Nat /\ Head(queue).op = op
  BY Executes
<1>2. \A d : Holds(queue', d) <=> Holds(Tail(queue), d) \/ d = e
  <2>1. PICK new : new = <<e>>
    OBVIOUS
  <2>2. /\ \E T : new \in Seq(T)
        /\ \A d : Holds(new, d) <=> d = e
    BY <2>1, OneOnly
  <2> QED BY <2>1, <2>2, IssuedThen
<1>3. /\ PollerFits' /\ HookFits' /\ StreamFits' /\ WritersFit'
      /\ \A d : OfHook(d) => OfHook(d)'
      /\ \A d : OfStream(d) => OfStream(d)'
      /\ held' = held => \A d : OfWriter(d) => OfWriter(d)'
  <2>1. \A d : d.op \in {"commit", "subscriptions"} => (Holds(queue', d) <=> Holds(queue, d))
    BY <1>1, <1>2
  <2> QED BY <2>1, Quiet
<1>4. \A d : Holds(Tail(queue), d) => Expects(d)'
  <2> SUFFICES ASSUME NEW d, Holds(Tail(queue), d) PROVE Expects(d)'
    OBVIOUS
  <2>1. Expects(d) /\ (op \in Transacting => d.op \notin Transacting)
    BY <1>1
  <2>2. OfWriter(d)'
    <3>1. CASE held' = held
      BY <1>3, <2>1, <3>1 DEF Expects
    <3>2. CASE d.op \notin Transacting
      BY <2>1, <3>2 DEF Expects, OfWriter, Transacting, EndAt
    <3> QED BY <2>1, <3>1, <3>2
  <2> QED BY <1>3, <2>1, <2>2 DEF Expects
<1>5. Expects(e)'
  BY DEF Expects, OfStream, OfHook, Following
<1>6. QueueFits' /\ \E T : queue' \in Seq(T)
  <2>1. Len(table) <= Len(table') /\ Len(table') \in Int
    BY <1>1
  <2> QED BY <1>4, <1>5, <2>1, IssuesOne DEF Transacting
<1>7. StreamTypes'
  BY <1>6 DEF StreamInv, StreamTypes
<1> QED BY <1>3, <1>6, <1>7 DEF StreamInv

LEMMA BeginStep ==
  ASSUME StreamInv, Begin
  PROVE  StreamInv'
<1>1. PICK e : e = Query("seq", Head(queue).by)
  OBVIOUS
<1>2. /\ Executed("begin") /\ Issue(<<e>>) /\ e.op = "seq" /\ e.by = Head(queue).by
      /\ UNCHANGED <<host, place, reader, table, ended, line, job, held, stream, poller, hook>>
  BY <1>1 DEF Begin, Query, database, writing
<1>3. line # <<>> /\ Head(queue).by = line[1]
  BY <1>2, Executes DEF Expects, OfWriter, Transacting
<1>4. OfWriter(e)'
  BY <1>2, <1>3 DEF OfWriter, Transacting, Ending
<1>5. /\ "begin" \in Transacting /\ e.op \in Transacting /\ "begin" \notin Ending /\ e.op \notin Ending /\ e.op \notin Following
      /\ e.op \notin {"commit", "subscriptions"} /\ e.op \notin {"register", "unregister"}
  BY <1>2 DEF Transacting, Ending, Following
<1> QED BY <1>2, <1>4, <1>5, WriterTurn

LEMMA AllocateSeqStep ==
  ASSUME StreamInv, AllocateSeq
  PROVE  StreamInv'
<1>1. PICK e : e = Query("insert", Head(queue).by)
  OBVIOUS
<1>2. /\ Executed("seq") /\ Issue(<<e>>) /\ e.op = "insert" /\ e.by = Head(queue).by /\ held' = TRUE
      /\ UNCHANGED <<host, place, reader, table, ended, line, job, stream, poller, hook>>
  BY <1>1 DEF AllocateSeq, Query, database
<1>3. line # <<>> /\ Head(queue).by = line[1]
  BY <1>2, Executes DEF Expects, OfWriter, Transacting
<1>4. OfWriter(e)'
  BY <1>2, <1>3 DEF OfWriter, Transacting, Ending
<1>5. PICK op : op = "seq"
  OBVIOUS
<1>6. /\ op \in Transacting /\ e.op \in Transacting /\ op \notin Ending /\ e.op \notin Ending /\ e.op \notin Following
      /\ e.op \notin {"commit", "subscriptions"} /\ op \notin {"commit", "subscriptions"} /\ e.op \notin {"register", "unregister"}
      /\ Executed(op) /\ Issue(<<e>>)
  BY <1>2, <1>5 DEF Transacting, Ending, Following
<1> QED BY <1>2, <1>4, <1>6, WriterTurn

LEMMA LoadEndingStep ==
  ASSUME StreamInv, LoadEnding
  PROVE  StreamInv'
<1>1. PICK e : e = Query("status", Head(queue).by)
  OBVIOUS
<1>2. /\ Executed("load") /\ Issue(<<e>>) /\ e.op = "status" /\ e.by = Head(queue).by
      /\ UNCHANGED <<host, place, reader, table, ended, line, job, held, stream, poller, hook>>
  BY <1>1 DEF LoadEnding, Query, database, writing
<1>3. OfWriter(Head(queue)) /\ Head(queue).op = "load"
  BY <1>2, Executes DEF Expects
<1>4. OfWriter(e)'
  BY <1>2, <1>3 DEF OfWriter, Transacting, Ending, EndAt
<1>5. /\ "load" \notin Transacting /\ e.op \notin Transacting /\ "load" \in Ending /\ e.op \in Ending /\ e.op \notin Following
  BY <1>2 DEF Transacting, Ending, Following
<1>6. e.op \notin {"commit", "subscriptions"} /\ e.op \notin {"register", "unregister"}
  BY <1>2
<1> QED BY <1>2, <1>4, <1>5, <1>6, WriterTurn

LEMMA SetRunTerminalStep ==
  ASSUME StreamInv, SetRunTerminal
  PROVE  StreamInv'
<1>1. /\ Executed("status") /\ Issue(<<>>) /\ ended' = TRUE /\ job' = [job EXCEPT ![Head(queue).by] = "none"]
      /\ UNCHANGED <<host, place, reader, table, line, held, stream, poller, hook>>
  BY DEF SetRunTerminal
<1>2. /\ \A d : Holds(queue, d) <=> d = Head(queue) \/ Holds(Tail(queue), d)
      /\ \A d : Holds(Tail(queue), d) => Expects(d) /\ d.op \notin Ending
      /\ stream.from \in Int /\ Len(table) \in Nat /\ Head(queue).op = "status" /\ Expects(Head(queue))
  BY <1>1, Executes DEF Ending
<1>3. \A d : Holds(queue', d) <=> Holds(Tail(queue), d)
  BY <1>1, IssuedThen, NoneAtAll
<1>4. /\ PollerFits' /\ HookFits' /\ StreamFits'
      /\ \A d : OfHook(d) => OfHook(d)'
      /\ \A d : OfStream(d) => OfStream(d)'
  <2>1. \A d : d.op \in {"commit", "subscriptions"} => (Holds(queue', d) <=> Holds(queue, d))
    BY <1>2, <1>3
  <2> QED BY <1>1, <2>1, Quiet
<1>5. /\ EndAt # {} /\ Head(queue).by = "executor" /\ \A k \in DOMAIN line : line[k] # "executor"
  BY <1>2 DEF Expects, OfWriter, Ending
<1>6. /\ job \in [Writers -> {"none", "step", "end"}] /\ job' = [job EXCEPT !["executor"] = "none"] /\ "executor" \in Writers
      /\ line \in Seq(Writers)
  BY <1>1, <1>5 DEF StreamInv, StreamTypes, Writers
<1>7. \A w \in Writers : w # "executor" => job'[w] = job[w]
  BY <1>6
<1>8. \A k \in DOMAIN line : line[k] \in Writers /\ job'[line[k]] = job[line[k]]
  BY <1>5, <1>6, <1>7
<1>9. WritersFit'
  <2>1. EndAt' = EndAt
    BY <1>1 DEF EndAt
  <2>2. job'["executor"] = "none"
    BY <1>6
  <2> QED BY <1>1, <1>5, <1>7, <1>8, <2>1, <2>2 DEF StreamInv, WritersFit
<1>10. ASSUME NEW d, Holds(Tail(queue), d) PROVE Expects(d)'
  <2>1. Expects(d) /\ d.op \notin Ending
    BY <1>2, <1>10
  <2>2. OfWriter(d)'
    <3>1. d.op = "commit" => job'[d.by] = job[d.by]
      <4>1. line # <<>> => 1 \in DOMAIN line
        BY <1>6
      <4> QED BY <1>8, <2>1, <4>1 DEF Expects, OfWriter, Transacting
    <3> QED BY <1>1, <2>1, <3>1 DEF Expects, OfWriter
  <2> QED BY <1>4, <2>1, <2>2 DEF Expects
<1>11. QueueFits' /\ \E T : queue' \in Seq(T)
  <2>1. Len(table) <= Len(table') /\ Len(table') \in Int /\ host' = host /\ stream'.from = stream.from
    BY <1>1, <1>2
  <2> QED BY <1>1, <1>10, <2>1, IssuesNone
<1>12. StreamTypes'
  BY <1>1, <1>6, <1>11 DEF StreamInv, StreamTypes
<1> QED BY <1>4, <1>9, <1>11, <1>12 DEF StreamInv

LEMMA InsertEventStep ==
  ASSUME StreamInv, InsertEvent
  PROVE  StreamInv'
<1>1. PICK e : e = Query("commit", Head(queue).by)
  OBVIOUS
<1>2. /\ Executed("insert") /\ Issue(<<e>>) /\ e.op = "commit" /\ e.by = Head(queue).by
      /\ table' = Append(table, job[Head(queue).by])
      /\ UNCHANGED <<host, place, reader, ended, line, job, held, stream, poller, hook>>
  BY <1>1 DEF InsertEvent, Query, writing
<1>3. /\ \A d : Holds(queue, d) <=> d = Head(queue) \/ Holds(Tail(queue), d)
      /\ \A d : Holds(Tail(queue), d) => Expects(d) /\ d.op \notin Transacting
      /\ stream.from \in Int /\ Len(table) \in Nat /\ Head(queue).op = "insert" /\ Expects(Head(queue))
  BY <1>2, Executes DEF Transacting
<1>4. \A d : Holds(queue', d) <=> Holds(Tail(queue), d) \/ d = e
  <2>1. PICK new : new = <<e>>
    OBVIOUS
  <2>2. /\ \E T : new \in Seq(T)
        /\ \A d : Holds(new, d) <=> d = e
    BY <2>1, OneOnly
  <2> QED BY <1>2, <2>1, <2>2, IssuedThen
<1>5. /\ line # <<>> /\ Head(queue).by = line[1] /\ held
  BY <1>3 DEF Expects, OfWriter, Transacting
<1>6. PICK kind \in {"step", "end"} : kind = job[line[1]]
  <2>1. line \in Seq(Writers) /\ job \in [Writers -> {"none", "step", "end"}]
    BY DEF StreamInv, StreamTypes
  <2>2. 1 \in DOMAIN line /\ line[1] \in Writers
    BY <1>5, <2>1
  <2>3. job[line[1]] # "none"
    BY <2>2 DEF StreamInv, WritersFit
  <2> QED BY <2>1, <2>2, <2>3
<1>7. table' = Append(table, kind)
  BY <1>2, <1>5, <1>6
<1>8. /\ RowsGrow /\ Len(table') = Len(table) + 1 /\ table'[Len(table) + 1] = kind /\ table' # <<>>
  BY <1>2, <1>7, RowsAppended DEF StreamInv
<1>9. ~Untold /\ Untold' /\ Told' = Told /\ Told \in Int /\ Told < Len(table)
  <2>1. ~Untold
    BY <1>3 DEF Untold, Transacting
  <2>2. Untold'
    BY <1>2, <1>4 DEF Untold
  <2>3. Told = Len(table) - 1 /\ Told' = Len(table') - 2
    BY <2>1, <2>2 DEF Told
  <2> QED BY <1>3, <1>8, <2>1, <2>2, <2>3
<1>10. PollerFits' /\ HookFits' /\ StreamFits'
  <2>1. SameLookUps
    BY <1>2, <1>3, <1>4 DEF SameLookUps
  <2>2. Told' \in Int /\ Told <= Told'
    BY <1>9
  <2> QED BY <1>2, <1>8, <1>9, <2>1, <2>2, PollerStays, HookStays, StreamStays DEF StreamInv
<1>11. WritersFit'
  BY <1>2, <1>8, WritersCalm DEF StreamInv, RowsGrow
<1>12. ASSUME NEW d, Holds(Tail(queue), d) PROVE Expects(d)'
  <2>1. Expects(d) /\ d.op \notin Transacting
    BY <1>3, <1>12
  <2>2. OfWriter(d)'
    BY <1>2, <1>8, <2>1 DEF Expects, OfWriter, Transacting, RowsGrow
  <2>3. OfStream(d)' /\ OfHook(d)'
    <3>1. Told' \in Int /\ Told <= Told'
      BY <1>9
    <3> QED BY <1>2, <1>9, <2>1, <3>1, StreamCalm, HookCalm DEF Expects
  <2> QED BY <2>2, <2>3 DEF Expects
<1>13. Expects(e)'
  <2>1. table'[Len(table')] = job'[e.by]
    BY <1>2, <1>3, <1>5, <1>6, <1>8
  <2> QED BY <1>2, <1>5, <1>8, <2>1 DEF Expects, OfWriter, OfStream, OfHook, Ending
<1>14. QueueFits' /\ \E T : queue' \in Seq(T)
  <2>1. Len(table) <= Len(table') /\ Len(table') \in Int /\ host' = host /\ stream'.from = stream.from /\ Len(table) < Len(table')
    BY <1>2, <1>3, <1>8
  <2> QED BY <1>2, <1>12, <1>13, <2>1, IssuesOne DEF Transacting, Following, Ending
<1>15. StreamTypes'
  BY <1>2, <1>8, <1>14 DEF StreamInv, StreamTypes, RowsGrow
<1> QED BY <1>10, <1>11, <1>14, <1>15 DEF StreamInv

(* A statement that is issued, or not.                                     *)
LEMMA IssuedOrNot ==
  ASSUME NEW c \in BOOLEAN, NEW e, NEW from, NEW len, NEW q, q = IF c THEN <<e>> ELSE <<>>
  PROVE  /\ \E T : q \in Seq(T)
         /\ \A d : Holds(q, d) <=> c /\ d = e
         /\ Distinguished(q) /\ Orderly(q, from, len)
<1>1. /\ \E T : q \in Seq(T)
      /\ \A d : Holds(q, d) <=> c /\ d = e
      /\ DOMAIN q \subseteq {1}
  <2>1. CASE c
    <3>1. q = <<e>>
      BY <2>1
    <3> QED BY <2>1, <3>1, OneOnly
  <2>2. CASE ~c
    <3>1. q = <<>>
      BY <2>2
    <3> QED BY <2>2, <3>1, NoneAtAll
  <2> QED BY <2>1, <2>2
<1>2. Distinguished(q)
  BY <1>1 DEF Distinguished
<1>3. \A i, j \in DOMAIN q : q[i].op = "commit" => q[j].op = "commit"
  BY <1>1
<1>4. Orderly(q, from, len)
  BY <1>3 DEF Orderly
<1> QED BY <1>1, <1>2, <1>4

(* A stream is told of the event after those it was told of.               *)
LEMMA StreamHears ==
  ASSUME NEW st \in Streams, Follows(st), NEW kind \in {"step", "end"}, NEW s \in Int, s = Told + 1, Told \in Int,
         NEW x, x = OnEvent(st, s, kind), RowsGrow, Told' = s, place' = place, Len(table) \in Nat,
         kind = "end" => place = "here" /\ s + 1 \in EndAt'
  PROVE  /\ x \in Streams /\ x.from = st.from /\ x.last = st.last
         /\ Follows(x)'
         /\ \A k : Reaches(st, k) => Reaches(x, k)
         /\ ~st.listening => x = st
         /\ st.at # "off" => x.at # "off"
<1>1. CASE ~st.listening
  <2>1. x = st
    BY <1>1 DEF OnEvent
  <2>2. Len(table') \in Nat /\ Len(table) <= Len(table')
    BY DEF RowsGrow
  <2>3. ToldAll(st) => ToldAll(st)'
    BY DEF RowsGrow, ToldAll, Reaches
  <2>4. st.from \in Int
    BY DEF Streams
  <2> QED BY <1>1, <2>1, <2>2, <2>3, <2>4 DEF Follows, RowsGrow
<1>2. CASE st.listening
  <2>1. /\ st.at \notin {"off", "closed"} /\ Batched(st) /\ st.from \in Int /\ st.from <= Told /\ st.from < Len(table)
        /\ place = "here" => Reaches(st, Told) /\ Gapless(Brought(st), st.from)
        /\ st.said => ended
    BY <1>2 DEF Follows, Streams
  <2>2. /\ x \in Streams /\ Batched(x) /\ Brought(x) = Brought(st) \o <<s>> /\ SameAsked(st, x)
        /\ kind # "end" => x.at = st.at /\ x.listening
        /\ kind = "end" => x.at = "closed" /\ ~x.listening /\ x.buffer = <<>>
    BY <1>2, <2>1, ToldOf
  <2>3. x.from = st.from /\ x.last = st.last /\ x.said = st.said
    BY <2>2 DEF SameAsked
  <2>4. /\ \A k : Holds(Brought(st), k) \/ k = s <=> Holds(Brought(x), k)
        /\ \A k : Reaches(st, k) => Reaches(x, k)
    <3> DEFINE new == <<s>>
    <3>1. new \in Seq(Int) /\ \A k : Holds(new, k) <=> k = s
      BY OneOnly
    <3>2. Brought(x) = Brought(st) \o new
      BY <2>2
    <3> HIDE DEF new
    <3> QED BY <2>3, <3>1, <3>2, StillReaches
  <2>5. place = "here" => Reaches(x, s)
    BY <2>1, <2>3, <2>4 DEF Reaches
  <2>6. place = "here" => Gapless(Brought(x), x.from)
    <3> SUFFICES ASSUME place = "here" PROVE Gapless(Brought(x), x.from)
      OBVIOUS
    <3>1. Brought(st) \in Seq(Int)
      BY BroughtNumbers
    <3>2. s = st.from + 1 \/ \E j \in DOMAIN Brought(st) : Brought(st)[j] >= s - 1
      <4>1. CASE st.from = Told
        BY <4>1
      <4>2. CASE st.from < Told
        <5>1. Holds(Brought(st), Told)
          BY <2>1, <4>2 DEF Reaches
        <5> QED BY <5>1 DEF Holds
      <4> QED BY <2>1, <4>1, <4>2
    <3> QED BY <2>1, <2>2, <2>3, <3>1, <3>2, OneMore
  <2>7. Len(table') \in Nat /\ Len(table) <= Len(table')
    BY DEF RowsGrow
  <2>8. ASSUME kind = "end" PROVE ToldAll(x)'
    <3>1. Reaches(x, s) /\ s + 1 \in EndAt' /\ s = (s + 1) - 1
      BY <2>5, <2>8
    <3> QED BY <3>1 DEF ToldAll, Reaches
  <2>9. Follows(x)'
    BY <2>1, <2>2, <2>3, <2>5, <2>6, <2>7, <2>8 DEF Follows, RowsGrow, Reaches
  <2> QED BY <1>2, <2>1, <2>2, <2>3, <2>4, <2>9
<1> QED BY <1>1, <1>2

LEMMA CommitStep ==
  ASSUME StreamInv, Commit
  PROVE  StreamInv'
<1> DEFINE w == Head(queue).by
           rest == Tail(queue)
<1>1. PICK first, second, third :
        first = Query("begin", line[2]) /\ second = Query("subscriptions", Len(table) - 1) /\ third = Query("load", w)
  OBVIOUS
<1>2. PICK b \in BOOLEAN, c \in BOOLEAN : (b <=> Len(line) > 1) /\ (c <=> job[w] = "end")
  OBVIOUS
<1>3. PICK p, r, new :
        p = (IF b THEN <<first>> ELSE <<>>) /\ r = (IF c THEN <<third>> ELSE <<>>) /\ new = (p \o <<second>>) \o r
  OBVIOUS
<1>4. /\ Executed("commit")
      /\ Issue((IF Len(line) > 1 THEN <<Query("begin", line[2])>> ELSE <<>>) \o <<Query("subscriptions", Len(table) - 1)>>
               \o (IF job[w] = "end" THEN <<Query("load", w)>> ELSE <<>>))
      /\ stream' = OnEvent(stream, Len(table) - 1, job[w])
      /\ job' = IF job[w] = "end" THEN job ELSE [job EXCEPT ![w] = "none"]
      /\ line' = Tail(line) /\ held' = FALSE
      /\ UNCHANGED <<host, place, reader, table, ended, poller, hook>>
  BY DEF Commit, database
<1>5. Issue(new)
  BY <1>1, <1>2, <1>3, <1>4
<1>6. /\ first.op = "begin" /\ first.by = line[2]
      /\ second.op = "subscriptions" /\ second.by = Len(table) - 1
      /\ third.op = "load" /\ third.by = w
  BY <1>1 DEF Query
<1>7. /\ host = "postgres" /\ Head(queue).op = "commit" /\ Expects(Head(queue)) /\ Holds(queue, Head(queue))
      /\ \E T : rest \in Seq(T)
      /\ \A d : Holds(queue, d) <=> d = Head(queue) \/ Holds(rest, d)
      /\ \A d : Holds(rest, d) => Expects(d) /\ d.op \notin Transacting
      /\ Distinguished(rest) /\ Orderly(rest, stream.from, Len(table))
      /\ stream.from \in Int /\ Len(table) \in Nat
  BY <1>4, Executes DEF Transacting
<1>8. /\ line # <<>> /\ w = line[1] /\ table # <<>> /\ table[Len(table)] = job[w]
  BY <1>7 DEF Expects, OfWriter, Transacting
<1>9. /\ line \in Seq(Writers) /\ Len(line) \in Nat \ {0} /\ DOMAIN line = 1 .. Len(line) /\ 1 \in DOMAIN line
      /\ line' \in Seq(Writers) /\ DOMAIN line' = 1 .. Len(line) - 1 /\ \A k \in 1 .. Len(line) - 1 : line'[k] = line[k + 1]
      /\ w \in Writers
  <2>1. line \in Seq(Writers)
    BY DEF StreamInv, StreamTypes
  <2>2. Len(line) \in Nat \ {0} /\ DOMAIN line = 1 .. Len(line)
    BY <1>8, <2>1
  <2> QED BY <1>4, <1>8, <2>1, <2>2
<1>10. /\ job \in [Writers -> {"none", "step", "end"}] /\ job' \in [Writers -> {"none", "step", "end"}]
       /\ job[w] \in {"step", "end"}
       /\ \A v \in Writers : v # w => job'[v] = job[v]
       /\ job[w] = "end" => w = "executor" /\ place = "here" /\ job'["executor"] = "end"
  BY <1>4, <1>8, <1>9 DEF StreamInv, StreamTypes, WritersFit
<1>11. PICK kind \in {"step", "end"} : kind = job[w]
  BY <1>10
<1>12. \A k \in DOMAIN line' : k + 1 \in DOMAIN line /\ line'[k] # w /\ line'[k] = line[k + 1] /\ job'[line'[k]] = job[line'[k]]
  <2> SUFFICES ASSUME NEW k \in DOMAIN line'
               PROVE  k + 1 \in DOMAIN line /\ line'[k] # w /\ line'[k] = line[k + 1] /\ job'[line'[k]] = job[line'[k]]
    OBVIOUS
  <2>1. k + 1 \in DOMAIN line /\ k + 1 # 1 /\ line'[k] = line[k + 1] /\ line[k + 1] \in Writers
    BY <1>9
  <2>2. line[k + 1] # line[1]
    BY <1>9, <2>1 DEF StreamInv, WritersFit
  <2> QED BY <1>8, <1>10, <2>1, <2>2
<1>13. EndAt' = EndAt /\ RowsGrow /\ DOMAIN table = 1 .. Len(table) /\ Len(table) >= 1
  <2>1. RowsGrow
    BY <1>4, RowsStay DEF StreamInv
  <2>2. table \in Seq({"step", "end"})
    BY DEF StreamInv, StreamTypes
  <2> QED BY <1>4, <1>8, <2>1, <2>2 DEF EndAt
<1>14. \A d : Holds(rest, d) => ~(c /\ d.op \in Ending)
  BY <1>2, <1>7, <1>8, <1>9, <1>10 DEF Expects, OfWriter
<1>15. /\ \E T : new \in Seq(T)
       /\ \A d : Holds(new, d) <=> (b /\ d = first) \/ d = second \/ (c /\ d = third)
       /\ Distinguished(new)
  <2>0. PICK from \in Int, len \in Int : TRUE
    OBVIOUS
  <2>1. PICK q : q = <<second>>
    OBVIOUS
  <2>2. /\ \E T : p \in Seq(T)
        /\ Distinguished(p) /\ Orderly(p, from, len) /\ \A d : Holds(p, d) <=> b /\ d = first
    BY ONLY <1>2, <1>3, <2>0, IssuedOrNot, Zenon
  <2>3. /\ \E T : r \in Seq(T)
        /\ Distinguished(r) /\ Orderly(r, from, len) /\ \A d : Holds(r, d) <=> c /\ d = third
    BY <1>2, <1>3, IssuedOrNot, Zenon
  <2>4. /\ \E T : q \in Seq(T)
        /\ Distinguished(q) /\ Orderly(q, from, len) /\ \A d : Holds(q, d) <=> d = second
    <3>1. /\ \E T : q \in Seq(T)
          /\ DOMAIN q = {1} /\ \A d : Holds(q, d) <=> d = second
      BY <2>1, OneOnly
    <3>2. Distinguished(q)
      BY <3>1 DEF Distinguished
    <3>3. \A d : Holds(q, d) => d.op # "commit"
      BY <1>6, <3>1
    <3> QED BY <3>1, <3>2, <3>3 DEF Orderly, Holds
  <2>5. first.op = "begin" /\ second.op = "subscriptions" /\ third.op = "load"
    BY <1>6
  <2>6. /\ \E T : p \o q \in Seq(T)
        /\ Distinguished(p \o q) /\ Orderly(p \o q, from, len)
        /\ \A d : Holds(p \o q, d) <=> Holds(p, d) \/ Holds(q, d)
    <3>1. \A d, e : Holds(p, d) /\ Holds(q, e) => Differ(d, e) /\ Differ(e, d)
      BY <2>2, <2>4, <2>5 DEF Differ, Transacting, Following, Ending
    <3>2. \A e : Holds(q, e) => e.op \notin {"row", "backlog"} \/ \A d : Holds(q, d) => d.op # "commit"
      BY <2>4, <2>5
    <3>3. \A d, e : Holds(p, d) /\ Holds(q, e) => d.op \notin {"row", "backlog"} \/ e.op # "commit" \/ from < len - 1
      BY <2>4, <2>5
    <3> QED BY <2>0, <2>2, <2>4, <3>1, <3>2, <3>3, QueueGrows
  <2>7. PICK pq : pq = p \o q
    OBVIOUS
  <2>8. /\ \E T : pq \in Seq(T)
        /\ Distinguished(pq) /\ Orderly(pq, from, len)
        /\ \A d : Holds(pq, d) <=> (b /\ d = first) \/ d = second
    BY <2>2, <2>4, <2>6, <2>7
  <2>9. /\ \E T : pq \o r \in Seq(T)
        /\ Distinguished(pq \o r)
        /\ \A d : Holds(pq \o r, d) <=> Holds(pq, d) \/ Holds(r, d)
    <3>1. \A d, e : Holds(pq, d) /\ Holds(r, e) => Differ(d, e) /\ Differ(e, d)
      BY <2>3, <2>5, <2>8 DEF Differ, Transacting, Following, Ending
    <3>2. \A e : Holds(r, e) => e.op \notin {"row", "backlog"} \/ \A d : Holds(r, d) => d.op # "commit"
      BY <2>3, <2>5
    <3>3. \A d, e : Holds(pq, d) /\ Holds(r, e) => d.op \notin {"row", "backlog"} \/ e.op # "commit" \/ from < len - 1
      BY <2>3, <2>5
    <3> QED BY <2>0, <2>3, <2>8, <3>1, <3>2, <3>3, QueueGrows
  <2>10. new = pq \o r
    BY <1>3, <2>1, <2>7
  <2>11. \A d : Holds(new, d) <=> (b /\ d = first) \/ d = second \/ (c /\ d = third)
    BY <2>3, <2>8, <2>9, <2>10
  <2> QED BY <2>9, <2>10, <2>11
<1>16. \A d : Holds(queue', d) <=> Holds(rest, d) \/ Holds(new, d)
  BY <1>4, <1>5, <1>15, IssuedThen
<1>17. Untold /\ ~Untold' /\ Told = Len(table) - 2 /\ Told' = Len(table) - 1
  <2>1. Untold
    BY <1>7 DEF Untold
  <2>2. ~Untold'
    BY <1>6, <1>7, <1>15, <1>16 DEF Untold, Transacting
  <2> QED BY <1>4, <2>1, <2>2 DEF Told
<1>18. /\ stream' \in Streams /\ stream'.from = stream.from /\ stream'.last = stream.last
       /\ StreamFits'
       /\ \A k : Reaches(stream, k) => Reaches(stream, k)'
       /\ ~stream.listening => stream' = stream
       /\ stream.at # "off" => stream'.at # "off"
  <2>1. stream \in Streams /\ Follows(stream)
    BY DEF StreamInv, StreamTypes, StreamFits
  <2>2. PICK s \in Int : s = Len(table) - 1 /\ s = Told + 1 /\ Told \in Int /\ Told' = s
    BY <1>7, <1>17
  <2>3. kind = "end" => place = "here" /\ s + 1 \in EndAt'
    <3> SUFFICES ASSUME kind = "end" PROVE place = "here" /\ s + 1 \in EndAt'
      OBVIOUS
    <3>1. Len(table) \in EndAt /\ s + 1 = Len(table)
      BY <1>7, <1>8, <1>11, <1>13, <2>2 DEF EndAt
    <3> QED BY <1>10, <1>11, <1>13, <3>1
  <2>4. PICK x : x = OnEvent(stream, s, kind)
    OBVIOUS
  <2>5. /\ x \in Streams /\ x.from = stream.from /\ x.last = stream.last
        /\ Follows(x)'
        /\ \A k : Reaches(stream, k) => Reaches(x, k)
        /\ ~stream.listening => x = stream
        /\ stream.at # "off" => x.at # "off"
    <3>1. place' = place /\ RowsGrow /\ Len(table) \in Nat
      BY <1>4, <1>7, <1>13
    <3> QED BY <2>1, <2>2, <2>3, <2>4, <3>1, StreamHears
  <2>6. stream' = x
    BY <1>4, <1>11, <2>2, <2>4
  <2> QED BY <2>5, <2>6 DEF StreamFits, Reaches
<1>19. PollerFits'
  BY <1>4, <1>13, PollerStays DEF StreamInv
<1>20. HookFits'
  <2>1. HookFits /\ hook' = hook /\ reader' = reader /\ place' = place /\ host' = host /\ table' = table
    BY <1>4 DEF StreamInv
  <2>2. /\ hook.since \in Nat /\ hook.posted \in Seq(Nat)
        /\ \A j \in DOMAIN hook.posted : hook.posted[j] \in Nat
    BY DEF StreamInv, StreamTypes, Hooks
  <2>3. \A d : d.op = "subscriptions" => (Holds(queue', d) <=> Holds(queue, d) \/ d = second)
    BY <1>6, <1>7, <1>15, <1>16
  <2>4. ASSUME hook.at = "on", NEW s \in hook.since .. Told'
        PROVE  \/ ~Wants(hook.types, table[s + 1]) \/ Holds(hook.posted, s)
               \/ \E e : Holds(queue', e) /\ e.op = "subscriptions" /\ e.by = s
    <3>1. CASE s = Len(table) - 1
      BY <1>6, <2>3, <3>1
    <3>2. CASE s # Len(table) - 1
      <4>1. s \in hook.since .. Told
        BY <1>7, <1>17, <2>2, <3>2
      <4>2. \/ ~Wants(hook.types, table[s + 1]) \/ Holds(hook.posted, s)
            \/ \E e : Holds(queue, e) /\ e.op = "subscriptions" /\ e.by = s
        BY <2>1, <2>4, <4>1 DEF HookFits
      <4> QED BY <2>3, <4>2
    <3> QED BY <3>1, <3>2
  <2>5. \A j \in DOMAIN hook.posted : hook.posted[j] <= Told /\ hook.posted[j] <= Told' /\ hook.posted[j] # second.by
    BY <1>6, <1>7, <1>17, <2>1, <2>2 DEF HookFits
  <2>6. \A j \in DOMAIN hook.posted : \A e : Holds(queue', e) /\ e.op = "subscriptions" => e.by # hook.posted[j]
    BY <2>1, <2>3, <2>5 DEF HookFits
  <2> QED BY <2>1, <2>4, <2>5, <2>6 DEF HookFits
<1>21. WritersFit'
  <2>1. \A k \in DOMAIN line' : job'[line'[k]] # "none" /\ \A l \in DOMAIN line' : k # l => line'[k] # line'[l]
    <3> SUFFICES ASSUME NEW k \in DOMAIN line', NEW l \in DOMAIN line'
                 PROVE  job'[line'[k]] # "none" /\ (k # l => line'[k] # line'[l])
      OBVIOUS
    <3>1. k + 1 \in DOMAIN line /\ l + 1 \in DOMAIN line /\ (k # l => k + 1 # l + 1)
      BY <1>9
    <3> QED BY <1>12, <3>1 DEF StreamInv, WritersFit
  <2>2. \A v \in Writers : job'[v] = "end" => v = "executor" /\ place = "here"
    BY <1>4, <1>9, <1>10 DEF StreamInv, WritersFit
  <2> QED BY <1>4, <1>13, <2>1, <2>2 DEF StreamInv, WritersFit
<1>22. ASSUME NEW d, Holds(rest, d) PROVE Expects(d)'
  <2>1. Expects(d) /\ d.op \notin Transacting
    BY <1>7, <1>22
  <2>2. OfWriter(d)'
    <3>1. d.op \in Ending => job'["executor"] = "end" /\ \A k \in DOMAIN line' : line'[k] # "executor"
      <4> SUFFICES ASSUME d.op \in Ending PROVE job'["executor"] = "end" /\ \A k \in DOMAIN line' : line'[k] # "executor"
        OBVIOUS
      <4>1. job["executor"] = "end" /\ \A k \in DOMAIN line : line[k] # "executor"
        BY <2>1 DEF Expects, OfWriter
      <4>2. w # "executor" /\ "executor" \in Writers
        BY <1>8, <1>9, <4>1 DEF Writers
      <4> QED BY <1>10, <1>12, <4>1, <4>2
    <3> QED BY <1>13, <2>1, <3>1 DEF Expects, OfWriter, Transacting
  <2>3. OfStream(d)'
    <3>1. d.op \in {"row", "backlog"} => ~stream.listening /\ stream' = stream
      BY <1>18, <2>1 DEF Expects, OfStream
    <3>2. Brought(stream)' = Brought(stream')
      BY DEF Brought
    <3> QED BY <1>4, <1>18, <2>1, <3>1, <3>2 DEF Expects, OfStream
  <2>4. OfHook(d)'
    <3>1. Told \in Int /\ Told' \in Int /\ Told <= Told' /\ reader' = reader
      BY <1>4, <1>7, <1>17
    <3> QED BY <2>1, <3>1, HookCalm DEF Expects
  <2> QED BY <2>2, <2>3, <2>4 DEF Expects
<1>23. ASSUME NEW d, Holds(new, d) PROVE Expects(d)' /\ d.op \in {"begin", "subscriptions", "load"}
  <2>1. CASE b /\ d = first
    <3>1. Len(line) > 1
      BY <1>2, <2>1
    <3>2. 1 \in DOMAIN line' /\ line'[1] = line[2]
      BY <1>9, <3>1
    <3>3. line' # <<>>
      BY <3>2
    <3> QED BY <1>6, <2>1, <3>2, <3>3 DEF Expects, OfWriter, OfStream, OfHook, Ending, Transacting
  <2>2. CASE d = second
    <3>1. d.by \in 0 .. Told'
      BY <1>6, <1>7, <1>13, <1>17, <2>2
    <3>2. d.op = "subscriptions"
      BY <1>6, <2>2
    <3> QED BY <3>1, <3>2 DEF Expects, OfWriter, OfStream, OfHook, Ending, Transacting
  <2>3. CASE c /\ d = third
    <3>1. w = "executor" /\ job'["executor"] = "end"
      BY <1>2, <1>10, <2>3
    <3>2. \A k \in DOMAIN line' : line'[k] # "executor"
      BY <1>12, <3>1
    <3>3. Len(table) \in EndAt
      BY <1>2, <1>8, <1>13, <2>3 DEF EndAt
    <3>4. EndAt' # {}
      BY <1>13, <3>3
    <3>5. d.op = "load" /\ d.by = "executor"
      BY <1>6, <2>3, <3>1
    <3> QED BY <3>1, <3>2, <3>4, <3>5 DEF Expects, OfWriter, OfStream, OfHook, Ending, Transacting
  <2> QED BY <1>15, <1>23, <2>1, <2>2, <2>3
<1>24. ASSUME NEW d, NEW e, Holds(rest, d), Holds(new, e) PROVE Differ(d, e) /\ Differ(e, d)
  <2>1. d.op \notin Transacting /\ ~(c /\ d.op \in Ending) /\ (d.op = "subscriptions" => d.by \in 0 .. Told)
    BY <1>7, <1>14, <1>24 DEF Expects, OfHook
  <2>2. d.op = "subscriptions" => d.by # Len(table) - 1
    BY <1>7, <1>17, <2>1
  <2>3. (b /\ e = first) \/ e = second \/ (c /\ e = third)
    BY <1>15, <1>24
  <2> QED BY <1>6, <2>1, <2>2, <2>3 DEF Differ, Transacting, Following, Ending
<1>25. QueueFits' /\ \E T : queue' \in Seq(T)
  <2>1. queue' = rest \o new
    BY <1>5 DEF Issue
  <2>2. \A e : Holds(new, e) => e.op \notin {"row", "backlog"} /\ e.op # "commit"
    BY <1>23
  <2>3. Orderly(new, stream.from, Len(table)) /\ \A d, e : Holds(rest, d) /\ Holds(new, e) => Differ(d, e) /\ Differ(e, d)
    BY <1>24, <2>2 DEF Orderly, Holds
  <2> HIDE DEF rest
  <2>4. /\ \E T : rest \o new \in Seq(T)
        /\ Distinguished(rest \o new) /\ Orderly(rest \o new, stream.from, Len(table))
    BY <1>7, <1>15, <2>2, <2>3, QueueGrows
  <2>5. \A d : Holds(queue', d) => Expects(d)'
    BY <1>16, <1>22, <1>23
  <2> QED BY <1>4, <1>7, <1>18, <2>1, <2>4, <2>5 DEF QueueFits
<1>26. StreamTypes'
  BY <1>4, <1>9, <1>10, <1>18, <1>25 DEF StreamInv, StreamTypes
<1> QED BY <1>18, <1>19, <1>20, <1>21, <1>25, <1>26 DEF StreamInv

(* The connection is left alone.                                           *)
LEMMA QueueKept ==
  ASSUME StreamInv, queue' = queue, host' = host, stream'.from = stream.from, RowsGrow,
         \A d : Holds(queue, d) => Expects(d)'
  PROVE  /\ QueueFits'
         /\ \E T : queue' \in Seq(T)
<1>1. /\ host # "postgres" => queue = <<>>
      /\ Distinguished(queue) /\ Orderly(queue, stream.from, Len(table))
      /\ stream.from \in Int /\ Len(table) \in Nat /\ Len(table') \in Nat /\ Len(table) <= Len(table')
      /\ \E T : queue \in Seq(T)
  BY DEF StreamInv, QueueFits, StreamTypes, Streams, RowsGrow
<1>2. Orderly(queue, stream.from, Len(table'))
  BY <1>1, LaterOrder
<1> QED BY <1>1, <1>2 DEF QueueFits

LEMMA AppendThereStep ==
  ASSUME StreamInv, NEW kind \in {"step", "end"}, AppendThere(kind)
  PROVE  StreamInv'
<1>1. /\ place = "there" /\ ~held /\ table' = Append(table, kind)
      /\ UNCHANGED <<host, place, reader, ended, queue, line, held, job, stream, poller, hook>>
  BY DEF AppendThere, writing
<1>2. RowsGrow /\ Len(table') = Len(table) + 1 /\ Len(table) \in Nat
  BY <1>1, RowsAppended DEF StreamInv
<1>3. \A d : Holds(queue, d) => Expects(d) /\ d.op \notin {"insert", "commit"}
  BY <1>1 DEF StreamInv, QueueFits, Expects, OfWriter
<1>4. Told = Len(table) - 1 /\ Told' = Len(table) /\ Told \in Int /\ Told' \in Int /\ Told <= Told' /\ Told < Len(table)
  <2>1. ~Untold /\ ~Untold'
    BY <1>1, <1>3 DEF Untold
  <2> QED BY <1>2, <2>1 DEF Told
<1>5. PollerFits' /\ StreamFits' /\ WritersFit'
  BY <1>1, <1>2, <1>4, PollerStays, StreamStays, WritersCalm DEF StreamInv, RowsGrow
<1>6. HookFits'
  <2>1. hook.at # "on"
    BY <1>1 DEF StreamInv, HookFits
  <2>2. SameLookUps
    BY <1>1 DEF SameLookUps
  <2> QED BY <1>1, <1>2, <1>4, <2>1, <2>2, HookStays DEF StreamInv
<1>7. ASSUME NEW d, Holds(queue, d) PROVE Expects(d)'
  <2>1. OfWriter(d)'
    BY <1>1, <1>2, <1>3, <1>7 DEF Expects, OfWriter, RowsGrow
  <2>2. OfStream(d)' /\ OfHook(d)'
    BY <1>1, <1>3, <1>4, <1>7, StreamCalm, HookCalm DEF Expects
  <2> QED BY <2>1, <2>2 DEF Expects
<1>8. QueueFits' /\ \E T : queue' \in Seq(T)
  BY <1>1, <1>2, <1>7, QueueKept
<1>9. StreamTypes'
  BY <1>1, <1>2, <1>8 DEF StreamInv, StreamTypes, RowsGrow
<1> QED BY <1>5, <1>6, <1>8, <1>9 DEF StreamInv

LEMMA EndThereStep ==
  ASSUME StreamInv, EndThere
  PROVE  StreamInv'
<1>1. /\ ended' = TRUE /\ EndAt # {}
      /\ UNCHANGED <<host, place, reader, table, queue, line, held, job, stream, poller, hook>>
  BY DEF EndThere, writing
<1>2. /\ RowsGrow /\ PollerFits' /\ HookFits' /\ StreamFits'
      /\ \A d : OfWriter(d) /\ OfStream(d) /\ OfHook(d) => OfWriter(d)' /\ OfStream(d)' /\ OfHook(d)'
  BY <1>1, Quiet
<1>3. \A d : Holds(queue, d) => Expects(d)'
  BY <1>2 DEF StreamInv, QueueFits, Expects
<1>4. QueueFits' /\ \E T : queue' \in Seq(T)
  BY <1>1, <1>2, <1>3, QueueKept
<1>5. WritersFit'
  BY <1>1 DEF StreamInv, WritersFit, EndAt
<1>6. StreamTypes'
  BY <1>1, <1>4 DEF StreamInv, StreamTypes
<1> QED BY <1>2, <1>4, <1>5, <1>6 DEF StreamInv

(* An event is posted to a subscription that wants it.                     *)
LEMMA HookHears ==
  ASSUME StreamTypes, HookFits, NEW s \in Nat, NEW kind, hook' = Posted(s, kind), table'[s + 1] = kind,
         reader' = reader, place' = place, host' = host, RowsGrow,
         Told \in Int, Told' \in Int, Told <= Told', s <= Told', Told < Len(table),
         \A k \in Nat : k <= Told' => k <= Told \/ k = s,
         \A j \in DOMAIN hook.posted : hook.posted[j] # s,
         \A e : Holds(queue', e) /\ e.op = "subscriptions" => Holds(queue, e) /\ e.by # s,
         \A e : Holds(queue, e) /\ e.op = "subscriptions" => Holds(queue', e) \/ e.by = s
  PROVE  hook' \in Hooks /\ HookFits'
<1>1. /\ hook \in Hooks /\ hook.since \in Nat /\ hook.posted \in Seq(Nat) /\ DOMAIN table = 1 .. Len(table)
      /\ \A j \in DOMAIN hook.posted : hook.posted[j] \in Nat
  BY DEF StreamTypes, Hooks
<1>2. PICK more : more = Append(hook.posted, s)
  OBVIOUS
<1>3. /\ Len(hook.posted) \in Nat /\ DOMAIN hook.posted = 1 .. Len(hook.posted)
      /\ more \in Seq(Nat) /\ DOMAIN more = 1 .. Len(hook.posted) + 1
      /\ more[Len(hook.posted) + 1] = s /\ \A j \in DOMAIN hook.posted : more[j] = hook.posted[j]
  BY <1>1, <1>2
<1>4. PICK heard \in BOOLEAN : heard <=> hook.at \in {"on", "leaving"} /\ Wants(hook.types, kind)
  OBVIOUS
<1>5. hook' = IF heard THEN [hook EXCEPT !.posted = more] ELSE hook
  BY <1>2, <1>4 DEF Posted
<1>6. /\ hook' \in Hooks
      /\ hook'.at = hook.at /\ hook'.types = hook.types /\ hook'.since = hook.since /\ hook'.until = hook.until
      /\ heard => hook'.posted = more
      /\ ~heard => hook'.posted = hook.posted
  BY <1>1, <1>3, <1>5 DEF Hooks
<1>7. /\ \A k : Holds(hook.posted, k) => Holds(hook'.posted, k)
      /\ heard => Holds(hook'.posted, s)
  <2>1. Len(hook.posted) + 1 \in DOMAIN more /\ \A j \in DOMAIN hook.posted : j \in DOMAIN more
    BY <1>3
  <2>2. CASE heard
    <3>1. hook'.posted = more
      BY <1>6, <2>2
    <3> QED BY ONLY <1>3, <2>1, <3>1 DEF Holds
  <2>3. CASE ~heard
    BY <1>6, <2>3
  <2> QED BY <1>4, <2>2, <2>3
<1>8. ASSUME hook'.at = "on", NEW k \in hook'.since .. Told'
      PROVE  \/ ~Wants(hook'.types, table'[k + 1]) \/ Holds(hook'.posted, k)
             \/ \E e : Holds(queue', e) /\ e.op = "subscriptions" /\ e.by = k
  <2>1. k \in Nat /\ k <= Told' /\ k >= hook.since
    BY <1>1, <1>6, <1>8
  <2>2. CASE k = s
    BY <1>4, <1>6, <1>7, <1>8, <2>2
  <2>3. CASE k # s
    <3>1. k \in hook.since .. Told /\ k + 1 \in DOMAIN table
      BY <1>1, <2>1, <2>3
    <3>2. table'[k + 1] = table[k + 1]
      BY <3>1 DEF RowsGrow
    <3>3. \/ ~Wants(hook.types, table[k + 1]) \/ Holds(hook.posted, k)
          \/ \E e : Holds(queue, e) /\ e.op = "subscriptions" /\ e.by = k
      BY <1>6, <1>8, <3>1 DEF HookFits
    <3> QED BY <1>6, <1>7, <2>3, <3>2, <3>3
  <2> QED BY <2>2, <2>3
<1>9. \A j \in DOMAIN hook.posted :
        /\ hook.posted[j] <= Told
        /\ \A k \in DOMAIN hook.posted : j # k => hook.posted[j] # hook.posted[k]
        /\ \A e : Holds(queue, e) /\ e.op = "subscriptions" => e.by # hook.posted[j]
        /\ hook.at = "off" => hook.posted[j] < hook.until
  BY DEF HookFits
<1>10. ASSUME NEW j \in DOMAIN hook'.posted
       PROVE  /\ hook'.posted[j] <= Told'
              /\ \A k \in DOMAIN hook'.posted : j # k => hook'.posted[j] # hook'.posted[k]
              /\ \A e : Holds(queue', e) /\ e.op = "subscriptions" => e.by # hook'.posted[j]
              /\ hook'.at = "off" => hook'.posted[j] < hook'.until
  <2>1. CASE heard
    <3>1. hook'.posted = more /\ hook'.at # "off"
      BY <1>4, <1>6, <2>1
    <3>2. \A i \in DOMAIN more : (i \in DOMAIN hook.posted /\ more[i] = hook.posted[i]) \/ (i = Len(hook.posted) + 1 /\ more[i] = s)
      BY <1>3
    <3>3. more[j] <= Told'
      BY <1>1, <1>9, <1>10, <3>1, <3>2
    <3>4. \A k \in DOMAIN more : j # k => more[j] # more[k]
      BY <1>9, <1>10, <3>1, <3>2
    <3>5. \A e : Holds(queue', e) /\ e.op = "subscriptions" => e.by # more[j]
      BY <1>9, <1>10, <3>1, <3>2
    <3> QED BY <3>1, <3>3, <3>4, <3>5
  <2>2. CASE ~heard
    <3>1. hook'.posted = hook.posted /\ j \in DOMAIN hook.posted /\ hook.posted[j] \in Nat
      BY <1>1, <1>6, <1>10, <2>2
    <3>2. hook.posted[j] <= Told'
      BY <1>9, <3>1
    <3> QED BY <1>6, <1>9, <3>1, <3>2
  <2> QED BY <1>4, <2>1, <2>2
<1>11. (hook'.at # "none" => reader' = "hook") /\ (reader' = "hook" => place' = "here" /\ host' # "memory")
  BY <1>6 DEF HookFits
<1> QED BY <1>6, <1>8, <1>10, <1>11 DEF HookFits

LEMMA LookUpStep ==
  ASSUME StreamInv, LookUp
  PROVE  StreamInv'
<1>1. PICK s : s = Head(queue).by
  OBVIOUS
<1>2. /\ Executed("subscriptions") /\ Issue(<<>>) /\ hook' = Posted(s, table[s + 1])
      /\ UNCHANGED <<host, place, reader, table, ended, line, held, job, stream, poller>>
  BY <1>1 DEF LookUp, database, writing
<1>3. /\ Head(queue).op = "subscriptions" /\ Expects(Head(queue)) /\ Holds(queue, Head(queue))
      /\ \A d : Holds(queue, d) <=> d = Head(queue) \/ Holds(Tail(queue), d)
      /\ \A d : Holds(Tail(queue), d) => Expects(d) /\ Differ(Head(queue), d)
      /\ stream.from \in Int /\ Len(table) \in Nat
  BY <1>2, Executes
<1>4. \A d : Holds(queue', d) <=> Holds(Tail(queue), d)
  BY <1>2, IssuedThen, NoneAtAll
<1>5. Told' = Told /\ Told \in Int /\ Told < Len(table) /\ RowsGrow
  <2>1. Untold' = Untold
    BY <1>3, <1>4 DEF Untold
  <2>2. Told \in Int /\ Told < Len(table) /\ RowsGrow
    BY <1>2, ToldNumber, RowsStay DEF StreamInv
  <2> QED BY <1>2, <2>1, <2>2 DEF Told
<1>6. s \in Nat /\ s <= Told
  BY <1>1, <1>3, <1>5 DEF Expects, OfHook
<1>7. hook' \in Hooks /\ HookFits'
  <2>1. \A j \in DOMAIN hook.posted : hook.posted[j] # s
    BY <1>1, <1>3 DEF StreamInv, HookFits
  <2>2. \A e : Holds(queue', e) /\ e.op = "subscriptions" => Holds(queue, e) /\ e.by # s
    BY <1>1, <1>3, <1>4 DEF Differ
  <2>3. \A e : Holds(queue, e) /\ e.op = "subscriptions" => Holds(queue', e) \/ e.by = s
    BY <1>1, <1>3, <1>4
  <2>4. PICK kind : kind = table[s + 1]
    OBVIOUS
  <2>5. /\ StreamTypes /\ HookFits /\ hook' = Posted(s, kind) /\ table'[s + 1] = kind
        /\ Told' \in Int /\ Told <= Told' /\ s <= Told' /\ \A k \in Nat : k <= Told' => k <= Told \/ k = s
    BY <1>2, <1>5, <1>6, <2>4 DEF StreamInv
  <2> QED BY <1>2, <1>5, <1>6, <2>1, <2>2, <2>3, <2>5, HookHears
<1>8. PollerFits' /\ StreamFits' /\ WritersFit'
  <2>1. Told' \in Int /\ Told <= Told' /\ EndAt \subseteq EndAt'
    BY <1>5 DEF RowsGrow
  <2> QED BY <1>2, <1>5, <2>1, PollerStays, StreamStays, WritersCalm DEF StreamInv
<1>9. \A d : Holds(Tail(queue), d) => Expects(d)'
  <2>1. Told' \in Int /\ Told <= Told'
    BY <1>5
  <2> QED BY <1>2, <1>3, <1>5, <2>1, WriterCalm, StreamCalm, HookCalm DEF Expects
<1>10. QueueFits' /\ \E T : queue' \in Seq(T)
  <2>1. Len(table) <= Len(table') /\ Len(table') \in Int /\ host' = host /\ stream'.from = stream.from
    BY <1>2, <1>3
  <2> QED BY <1>2, <1>9, <2>1, IssuesNone
<1>11. StreamTypes'
  BY <1>2, <1>7, <1>10 DEF StreamInv, StreamTypes
<1> QED BY <1>7, <1>8, <1>10, <1>11 DEF StreamInv

(* The other two hosts issue no statement.                                 *)
LEMMA AppendNowStep ==
  ASSUME StreamInv, host # "postgres", NEW w \in Writers, NEW kind \in {"step", "end"}, AppendNow(w, kind),
         \/ hook' = Posted(Len(table), kind)
         \/ host = "memory" /\ hook' = hook
  PROVE  StreamInv'
<1>1. /\ table' = Append(table, kind) /\ ended' = (kind = "end" \/ ended) /\ stream' = OnEvent(stream, Len(table), kind)
      /\ UNCHANGED <<host, place, reader, queue, line, held, job, poller>>
      /\ kind = "end" => w = "executor" /\ place = "here"
  BY DEF AppendNow, MayAppend, Writers
<1>2. /\ RowsGrow /\ Len(table') = Len(table) + 1 /\ table'[Len(table) + 1] = kind /\ Len(table) \in Nat
      /\ kind = "end" => Len(table) + 1 \in EndAt'
  BY <1>1, RowsAppended DEF StreamInv
<1>3. queue = <<>> /\ (\A d : ~Holds(queue, d)) /\ \A d : ~Holds(queue', d)
  BY <1>1, NoneAtAll DEF StreamInv, QueueFits
<1>4. PICK s \in Nat : s = Len(table)
  BY <1>2
<1>5. Told = s - 1 /\ Told' = s /\ Told \in Int /\ Told' \in Int /\ Told <= Told' /\ Told < Len(table) /\ s = Told + 1
  <2>1. ~Untold /\ ~Untold'
    BY <1>3 DEF Untold
  <2> QED BY <1>2, <1>4, <2>1 DEF Told
<1>6. stream' \in Streams /\ stream'.from = stream.from /\ StreamFits'
  <2>1. stream \in Streams /\ Follows(stream)
    BY DEF StreamInv, StreamTypes, StreamFits
  <2>2. PICK x : x = OnEvent(stream, s, kind)
    OBVIOUS
  <2>3. x \in Streams /\ x.from = stream.from /\ Follows(x)'
    <3>1. s \in Int /\ (kind = "end" => place = "here" /\ s + 1 \in EndAt')
      BY <1>1, <1>2, <1>4
    <3>2. RowsGrow /\ place' = place /\ Len(table) \in Nat
      BY <1>1, <1>2
    <3> QED BY <1>5, <2>1, <2>2, <3>1, <3>2, StreamHears
  <2>4. stream' = x
    BY <1>1, <1>4, <2>2
  <2> QED BY <2>3, <2>4 DEF StreamFits
<1>7. hook' \in Hooks /\ HookFits'
  <2>1. CASE hook' = Posted(Len(table), kind)
    <3>1. \A j \in DOMAIN hook.posted : hook.posted[j] # s
      BY <1>4, <1>5 DEF StreamInv, HookFits
    <3>2. /\ StreamTypes /\ HookFits /\ hook' = Posted(s, kind) /\ table'[s + 1] = kind
          /\ s <= Told' /\ \A k \in Nat : k <= Told' => k <= Told \/ k = s
      BY <1>2, <1>4, <1>5, <2>1 DEF StreamInv
    <3> QED BY <1>1, <1>2, <1>3, <1>5, <3>1, <3>2, HookHears
  <2>2. CASE host = "memory" /\ hook' = hook
    <3>1. hook.at # "on"
      BY <2>2 DEF StreamInv, HookFits
    <3>2. SameLookUps
      BY <1>3 DEF SameLookUps
    <3>3. HookFits'
      BY <1>1, <1>2, <1>5, <2>2, <3>1, <3>2, HookStays DEF StreamInv
    <3> QED BY <2>2, <3>3 DEF StreamInv, StreamTypes
  <2> QED BY <2>1, <2>2
<1>8. PollerFits'
  BY <1>1, <1>2, PollerStays DEF StreamInv
<1>9. WritersFit'
  <2>1. ended' => EndAt' # {}
    BY <1>1, <1>2 DEF StreamInv, WritersFit, RowsGrow
  <2> QED BY <1>1, <2>1 DEF StreamInv, WritersFit
<1>10. QueueFits' /\ \E T : queue' \in Seq(T)
  BY <1>1, <1>2, <1>3, <1>6, QueueKept
<1>11. StreamTypes'
  BY <1>1, <1>2, <1>6, <1>7, <1>10 DEF StreamInv, StreamTypes, RowsGrow
<1> QED BY <1>6, <1>7, <1>8, <1>9, <1>10, <1>11 DEF StreamInv

-----------------------------------------------------------------------------
(* The stream                                                              *)

(* Rows are written behind what a stream has.                              *)
LEMMA RowsBehind ==
  ASSUME NEW st \in Streams, Batched(st), st.at # "closed", NEW k \in Nat \cup {-1}, k = st.from \/ Holds(Brought(st), k),
         Reaches(st, k), place = "here" => Gapless(Brought(st), st.from), Len(table) \in Nat,
         NEW x, x = WriteAfter(st, k)
  PROVE  /\ x \in Streams /\ Batched(x) /\ SameAsked(st, x) /\ x.at = st.at /\ x.listening = st.listening
         /\ Reaches(x, Len(table) - 1)
         /\ place = "here" => Gapless(Brought(x), x.from)
<1>1. PICK new : new = [i \in 1 .. Len(table) - 1 - k |-> k + i]
  OBVIOUS
<1>2. /\ x \in Streams /\ Batched(x) /\ Brought(x) = Brought(st) \o [i \in 1 .. Len(table) - 1 - k |-> k + i]
      /\ SameAsked(st, x) /\ x.at = st.at /\ x.listening = st.listening
  BY RowsWritten
<1>3. x.from = st.from /\ k \in Int /\ st.from \in Int
  BY <1>2 DEF SameAsked, Streams
<1>4. Reaches(x, Len(table) - 1)
  BY <1>2, <1>3, RowsReached
<1>5. place = "here" => Gapless(Brought(x), x.from)
  <2>1. Brought(st) \in Seq(Int) /\ Len(table) - 1 - k \in Int
    BY <1>3, BroughtNumbers
  <2> QED BY <1>2, <1>3, <2>1, ManyMore
<1> QED BY <1>2, <1>4, <1>5

(* A stream that has all rows of a run that is over may be closed.         *)
LEMMA ClosesInFull ==
  ASSUME NEW st \in Streams, Batched(st), Reaches(st, Len(table) - 1), place = "here" => Gapless(Brought(st), st.from),
         ended, WritersFit, table \in Seq({"step", "end"}), st.from < Len(table), NEW x, x = CloseStream(st)
  PROVE  x \in Streams /\ SameAsked(st, x) /\ Follows(x) /\ Reaches(x, Len(table) - 1)
<1>1. /\ x \in Streams /\ Brought(x) = Brought(st) /\ SameAsked(st, x)
      /\ x.at = "closed" /\ ~x.listening /\ x.buffer = <<>>
  BY Closed
<1>2. x.from = st.from
  BY <1>1 DEF SameAsked
<1>3. Reaches(x, Len(table) - 1)
  BY <1>1, <1>2 DEF Reaches
<1>4. PICK i : i \in EndAt
  BY DEF WritersFit
<1>5. i \in Int /\ i - 1 <= Len(table) - 1 /\ Len(table) \in Int /\ st.from \in Int
  BY <1>4 DEF EndAt, Streams
<1>6. Reaches(x, i - 1)
  BY <1>2, <1>3, <1>5 DEF Reaches
<1>7. ToldAll(x)
  BY <1>4, <1>6 DEF ToldAll
<1> QED BY <1>1, <1>2, <1>3, <1>7 DEF Follows, Batched

(* Only the stream and its statements change.                              *)
LEMMA StreamMoves ==
  ASSUME StreamInv, UNCHANGED <<host, place, reader, table, ended, line, held, job, poller, hook>>,
         \A d : d.op \in {"commit", "subscriptions"} => (Holds(queue', d) <=> Holds(queue, d)),
         stream' \in Streams, StreamFits', QueueFits', \E T : queue' \in Seq(T)
  PROVE  StreamInv'
<1>1. PollerFits' /\ HookFits' /\ WritersFit'
  BY Quiet
<1>2. StreamTypes'
  BY DEF StreamInv, StreamTypes
<1> QED BY <1>1, <1>2 DEF StreamInv

(* The rest of the queue, when a statement of the stream is executed.      *)
LEMMA StreamTurn ==
  ASSUME StreamInv, NEW op \in Following, Executed(op),
         UNCHANGED <<host, place, reader, table, ended, line, held, job, poller, hook>>,
         stream'.from = stream.from, stream' \in Streams, NEW new, \E T : new \in Seq(T), Issue(new),
         \A d : Holds(new, d) => d.op \notin {"commit", "subscriptions"}
  PROVE  /\ \A d : Holds(queue', d) <=> Holds(Tail(queue), d) \/ Holds(new, d)
         /\ \A d : d.op \in {"commit", "subscriptions"} => (Holds(queue', d) <=> Holds(queue, d))
         /\ \A d : Holds(Tail(queue), d) => Expects(d)'
         /\ Told' = Told /\ Told \in Int
<1>1. /\ \A d : Holds(queue, d) <=> d = Head(queue) \/ Holds(Tail(queue), d)
      /\ \A d : Holds(Tail(queue), d) => Expects(d) /\ d.op \notin Following
      /\ Head(queue).op = op
  BY Executes
<1>2. \A d : Holds(queue', d) <=> Holds(Tail(queue), d) \/ Holds(new, d)
  BY IssuedThen
<1>3. \A d : d.op \in {"commit", "subscriptions"} => (Holds(queue', d) <=> Holds(queue, d))
  BY <1>1, <1>2 DEF Following
<1>4. /\ Told' = Told
      /\ \A d : OfHook(d) => OfHook(d)'
      /\ \A d : OfWriter(d) => OfWriter(d)'
  BY <1>3, Quiet
<1>5. \A d : d.op \notin Following => OfStream(d)'
  BY DEF OfStream, Following
<1>6. Told \in Int
  BY ToldNumber DEF StreamInv
<1> QED BY <1>1, <1>2, <1>3, <1>4, <1>5, <1>6 DEF Expects

LEMMA OpenStreamStep ==
  ASSUME StreamInv, NEW from \in Cursors, NEW buffered \in BOOLEAN, OpenStream(from, buffered)
  PROVE  StreamInv'
<1>1. PICK e : e = Query("row", "stream")
  OBVIOUS
<1>2. /\ host = "postgres" /\ stream.at = "off" /\ from < Len(table) /\ stream' = Asked(from, buffered)
      /\ queue' = Append(queue, e) /\ e.op = "row"
      /\ UNCHANGED <<host, place, reader, table, ended, line, held, job, poller, hook>>
  BY <1>1 DEF OpenStream, Query, database, writing
<1>3. /\ stream' \in Streams /\ stream'.from = from /\ from \in Int /\ stream'.at = "open" /\ ~stream'.listening
      /\ stream'.buffer = <<>> /\ stream'.sent = <<>> /\ ~stream'.said
  <2>1. from \in Nat \cup {-1}
    BY HostStreamsAssumption
  <2>2. stream' = [at |-> "open", from |-> from, said |-> FALSE, last |-> -1, listening |-> FALSE,
                   buffered |-> buffered, buffer |-> <<>>, sent |-> <<>>]
    BY <1>2 DEF Asked, Off
  <2> QED BY <2>1, <2>2 DEF Streams
<1>4. Brought(stream') = <<>>
  BY <1>3 DEF Brought
<1>5. \A d : Holds(queue', d) <=> Holds(queue, d) \/ d = e
  BY <1>2, AskedThen DEF StreamInv
<1>6. \A d : d.op \in {"commit", "subscriptions"} => (Holds(queue', d) <=> Holds(queue, d))
  BY <1>2, <1>5
<1>7. \A d : Holds(queue, d) => Expects(d) /\ d.op \notin Following
  BY <1>2 DEF StreamInv, QueueFits, Expects, OfStream, Following
<1>8. StreamFits'
  <2>1. Gapless(<<>>, from)
    BY DEF Gapless
  <2> QED BY <1>2, <1>3, <1>4, <2>1 DEF StreamFits, Follows, Batched, Brought
<1>9. QueueFits' /\ \E T : queue' \in Seq(T)
  <2>1. Expects(e)'
    BY <1>2, <1>3, <1>4 DEF Expects, OfWriter, OfStream, OfHook, Transacting, Ending, Brought
  <2>2. ASSUME NEW d, Holds(queue, d) PROVE Expects(d)'
    <3>1. OfWriter(d)' /\ OfHook(d)'
      BY <1>2, <1>6, <1>7, <2>2, Quiet DEF Expects
    <3>2. OfStream(d)'
      BY <1>7, <2>2 DEF OfStream, Following
    <3> QED BY <3>1, <3>2 DEF Expects
  <2>3. e.op \notin Transacting /\ e.op \notin {"subscriptions", "commit"} \cup Ending
    BY <1>2 DEF Transacting, Ending
  <2> QED BY <1>2, <1>3, <1>7, <2>1, <2>2, <2>3, AsksOne
<1> QED BY <1>2, <1>3, <1>6, <1>8, <1>9, StreamMoves

LEMMA LoadRowStep ==
  ASSUME StreamInv, LoadRow
  PROVE  StreamInv'
<1>1. PICK e : e = Query("backlog", "stream")
  OBVIOUS
<1>2. PICK new : new = <<e>>
  OBVIOUS
<1>3. /\ Executed("row") /\ Issue(new) /\ e.op = "backlog" /\ stream' = [stream EXCEPT !.said = ended]
      /\ UNCHANGED <<host, place, reader, table, ended, line, held, job, poller, hook>>
  BY <1>1, <1>2 DEF LoadRow, Query, database, writing
<1>4. /\ stream' \in Streams /\ stream'.from = stream.from /\ stream'.at = stream.at /\ stream'.listening = stream.listening
      /\ stream'.buffered = stream.buffered /\ stream'.buffer = stream.buffer /\ stream'.sent = stream.sent
      /\ stream'.last = stream.last /\ stream'.said = ended
  BY <1>3 DEF StreamInv, StreamTypes, Streams
<1>5. Head(queue).op = "row" /\ Expects(Head(queue)) /\ Len(table) \in Nat
  BY <1>3, Executes
<1>6. stream.at = "open" /\ Brought(stream) = <<>> /\ ~stream.listening
  BY <1>5 DEF Expects, OfStream
<1>7. /\ \E T : new \in Seq(T)
      /\ \A d : Holds(new, d) <=> d = e
  BY <1>2, OneOnly
<1>8. /\ \A d : d.op \in {"commit", "subscriptions"} => (Holds(queue', d) <=> Holds(queue, d))
      /\ \A d : Holds(Tail(queue), d) => Expects(d)'
  <2>1. "row" \in Following
    BY DEF Following
  <2> QED BY <1>3, <1>4, <1>7, <2>1, StreamTurn
<1>9. StreamFits'
  <2>1. stream.from < Len(table) /\ Batched(stream) /\ (place = "here" => Gapless(Brought(stream), stream.from))
    BY <1>6 DEF StreamInv, StreamFits, Follows
  <2> QED BY <1>3, <1>4, <1>6, <2>1 DEF StreamFits, Follows, Batched, Brought
<1>10. QueueFits' /\ \E T : queue' \in Seq(T)
  <2>1. Expects(e)'
    BY <1>3, <1>4, <1>6 DEF Expects, OfWriter, OfStream, OfHook, Transacting, Ending, Brought
  <2>2. e.op \notin Transacting /\ "row" \in Following /\ e.op \notin Ending
    BY <1>3 DEF Transacting, Ending, Following
  <2>3. Issue(<<e>>) /\ Len(table) <= Len(table') /\ Len(table') \in Int
    BY <1>2, <1>3, <1>5
  <2> QED BY <1>3, <1>4, <1>8, <2>1, <2>2, <2>3, IssuesOne
<1> QED BY <1>3, <1>4, <1>8, <1>9, <1>10, StreamMoves

LEMMA BacklogStep ==
  ASSUME StreamInv, Backlog
  PROVE  StreamInv'
<1>1. PICK written : written = WriteAfter(stream, stream.from)
  OBVIOUS
<1>2. /\ Executed("backlog")
      /\ IF stream.said
         THEN stream' = CloseStream(written) /\ Issue(<<>>)
         ELSE /\ stream' = [written EXCEPT !.last = IF Len(table) - 1 > stream.from THEN Len(table) - 1 ELSE stream.from,
                                           !.listening = TRUE]
              /\ Issue(<<Query("recheck", "stream")>>)
      /\ UNCHANGED <<host, place, reader, table, ended, line, held, job, poller, hook>>
  BY <1>1 DEF Backlog, database, writing
<1>3. /\ Head(queue).op = "backlog" /\ Expects(Head(queue)) /\ Len(table) \in Nat /\ queue # <<>> /\ stream.from \in Int
      /\ Holds(queue, Head(queue))
  BY <1>2, Executes DEF Executed
<1>4. /\ stream.at = "open" /\ Brought(stream) = <<>> /\ ~stream.listening /\ stream.from < Len(table) /\ Batched(stream)
      /\ stream.said => ended
      /\ place = "here" => Gapless(Brought(stream), stream.from)
  BY <1>3 DEF Expects, OfStream, StreamInv, StreamFits, Follows
<1>5. /\ written \in Streams /\ Batched(written) /\ SameAsked(stream, written) /\ written.at = "open" /\ ~written.listening
      /\ Reaches(written, Len(table) - 1)
      /\ place = "here" => Gapless(Brought(written), written.from)
  <2>1. stream \in Streams /\ stream.from \in Nat \cup {-1}
    BY DEF StreamInv, StreamTypes, Streams
  <2>2. Reaches(stream, stream.from)
    BY <1>3 DEF Reaches
  <2> QED BY <1>1, <1>3, <1>4, <2>1, <2>2, RowsBehind
<1>6. written.from = stream.from /\ written.said = stream.said
  BY <1>5 DEF SameAsked
<1>7. "backlog" \in Following
  BY DEF Following
<1>8. CASE stream.said
  <2>1. stream' = CloseStream(written) /\ Issue(<<>>)
    BY <1>2, <1>8
  <2>2. stream' \in Streams /\ stream'.from = stream.from /\ Follows(stream')
    <3>1. PICK x : x = CloseStream(written)
      OBVIOUS
    <3>2. WritersFit /\ table \in Seq({"step", "end"})
      BY DEF StreamInv, StreamTypes
    <3>3. x \in Streams /\ SameAsked(written, x) /\ Follows(x)
      BY <1>4, <1>5, <1>6, <1>8, <3>1, <3>2, ClosesInFull
    <3> QED BY <1>6, <2>1, <3>1, <3>3 DEF SameAsked
  <2>3. /\ \A d : d.op \in {"commit", "subscriptions"} => (Holds(queue', d) <=> Holds(queue, d))
        /\ \A d : Holds(Tail(queue), d) => Expects(d)'
        /\ Told' = Told
    BY <1>2, <1>7, <2>1, <2>2, NoneAtAll, StreamTurn
  <2>4. StreamFits'
    BY <1>2, <2>2, <2>3 DEF StreamFits, Follows, ToldAll, EndAt
  <2>5. QueueFits' /\ \E T : queue' \in Seq(T)
    <3>1. Len(table) <= Len(table') /\ Len(table') \in Int /\ host' = host
      BY <1>2, <1>3
    <3> QED BY <1>2, <2>1, <2>2, <2>3, <3>1, IssuesNone
  <2> QED BY <1>2, <2>2, <2>3, <2>4, <2>5, StreamMoves
<1>9. CASE ~stream.said
  <2>1. PICK e : e = Query("recheck", "stream")
    OBVIOUS
  <2>2. PICK new : new = <<e>>
    OBVIOUS
  <2>3. PICK k \in Int : k = IF Len(table) - 1 > stream.from THEN Len(table) - 1 ELSE stream.from
    BY <1>3
  <2>4. stream' = [written EXCEPT !.last = k, !.listening = TRUE] /\ Issue(new) /\ e.op = "recheck"
    BY <1>2, <1>9, <2>1, <2>2, <2>3 DEF Query
  <2>5. /\ stream' \in Streams /\ stream'.from = stream.from /\ stream'.at = "open" /\ stream'.listening
        /\ stream'.buffered = written.buffered /\ stream'.buffer = written.buffer /\ stream'.sent = written.sent
        /\ stream'.last = k /\ stream'.said = stream.said
    BY <1>5, <1>6, <2>4 DEF Streams
  <2>6. Brought(stream') = Brought(written)
    BY <2>5 DEF Brought
  <2>7. Reaches(stream', Len(table) - 1) /\ stream.from <= k /\ k <= Len(table) - 1
    BY <1>3, <1>4, <1>5, <1>6, <2>3, <2>5, <2>6 DEF Reaches
  <2>8. Reaches(stream', k)
    BY <1>3, <2>5, <2>7 DEF Reaches
  <2>9. stream.from <= Told
    <3>1. ASSUME Untold PROVE stream.from < Len(table) - 1
      <4>1. PICK d : Holds(queue, d) /\ d.op = "commit"
        BY <3>1 DEF Untold
      <4>2. PICK i \in DOMAIN queue : queue[i] = d
        BY <4>1 DEF Holds
      <4>3. 1 \in DOMAIN queue /\ queue[1].op = "backlog" /\ DOMAIN queue \subseteq Nat \ {0}
        <5>1. PICK T : queue \in Seq(T)
          BY DEF StreamInv, StreamTypes
        <5> QED BY <1>3, <5>1, HeadAndTail
      <4>4. i < 1 \/ stream.from < Len(table) - 1
        BY <4>1, <4>2, <4>3 DEF StreamInv, QueueFits, Orderly
      <4> QED BY <4>2, <4>3, <4>4
    <3> QED BY <1>3, <1>4, <3>1 DEF Told
  <2>10. /\ \E T : new \in Seq(T)
         /\ \A d : Holds(new, d) <=> d = e
    BY <2>2, OneOnly
  <2>11. /\ \A d : d.op \in {"commit", "subscriptions"} => (Holds(queue', d) <=> Holds(queue, d))
         /\ \A d : Holds(Tail(queue), d) => Expects(d)'
         /\ Told' = Told /\ Told \in Int
    BY <1>2, <1>7, <2>4, <2>5, <2>10, StreamTurn
  <2>12. StreamFits'
    <3>1. Told <= Len(table) - 1
      BY ToldNumber DEF StreamInv
    <3>2. Reaches(stream', Told)
      BY <1>3, <2>7, <2>11, <3>1, <2>5 DEF Reaches
    <3>3. Batched(stream') /\ (place = "here" => Gapless(Brought(stream'), stream'.from))
      BY <1>5, <1>6, <2>5, <2>6 DEF Batched
    <3> QED BY <1>2, <1>4, <2>5, <2>9, <2>11, <3>2, <3>3 DEF StreamFits, Follows, Reaches, Batched, Brought
  <2>13. QueueFits' /\ \E T : queue' \in Seq(T)
    <3>1. Expects(e)'
      BY <2>4, <2>5, <2>7, <2>8 DEF Expects, OfWriter, OfStream, OfHook, Transacting, Ending, Reaches, Brought
    <3>2. e.op \notin Transacting /\ e.op \notin Ending
      BY <2>4 DEF Transacting, Ending
    <3>3. Issue(<<e>>) /\ Len(table) <= Len(table') /\ Len(table') \in Int
      BY <1>2, <1>3, <2>2, <2>4
    <3> QED BY <1>2, <1>7, <2>4, <2>5, <2>11, <3>1, <3>2, <3>3, IssuesOne
  <2> QED BY <1>2, <2>5, <2>11, <2>12, <2>13, StreamMoves
<1> QED BY <1>8, <1>9

LEMMA RecheckStep ==
  ASSUME StreamInv, Recheck
  PROVE  StreamInv'
<1>1. PICK e : e = Query("missed", "stream")
  OBVIOUS
<1>2. /\ Executed("recheck") /\ Issue(IF ended THEN <<e>> ELSE <<>>) /\ e.op = "missed"
      /\ stream' = IF ended \/ stream.at = "closed" THEN stream ELSE [stream EXCEPT !.at = "live"]
      /\ UNCHANGED <<host, place, reader, table, ended, line, held, job, poller, hook>>
  BY <1>1 DEF Recheck, Query, database, writing
<1>3. Head(queue).op = "recheck" /\ Expects(Head(queue)) /\ Len(table) \in Nat
  BY <1>2, Executes
<1>4. stream.at # "off" /\ stream.from <= stream.last /\ Reaches(stream, stream.last)
  BY <1>3 DEF Expects, OfStream
<1>5. /\ stream' \in Streams /\ stream'.from = stream.from /\ stream'.listening = stream.listening
      /\ stream'.buffered = stream.buffered /\ stream'.buffer = stream.buffer /\ stream'.sent = stream.sent
      /\ stream'.last = stream.last /\ stream'.said = stream.said
      /\ stream'.at = stream.at \/ (stream'.at = "live" /\ stream.at # "closed")
  BY <1>2 DEF StreamInv, StreamTypes, Streams
<1>6. Brought(stream') = Brought(stream)
  BY <1>5 DEF Brought
<1>7. "recheck" \in Following
  BY DEF Following
<1>8. ASSUME Told' = Told PROVE StreamFits'
  BY <1>2, <1>4, <1>5, <1>6, <1>8 DEF StreamInv, StreamFits, Follows, Batched, ToldAll, EndAt, Reaches, Brought
<1>9. CASE ended
  <2>1. Issue(<<e>>)
    BY <1>2, <1>9
  <2>2. PICK new : new = <<e>>
    OBVIOUS
  <2>3. /\ \E T : new \in Seq(T)
        /\ \A d : Holds(new, d) <=> d = e
    BY <2>2, OneOnly
  <2>4. /\ \A d : d.op \in {"commit", "subscriptions"} => (Holds(queue', d) <=> Holds(queue, d))
        /\ \A d : Holds(Tail(queue), d) => Expects(d)'
        /\ Told' = Told
    BY <1>2, <1>5, <1>7, <2>1, <2>2, <2>3, StreamTurn
  <2>5. QueueFits' /\ \E T : queue' \in Seq(T)
    <3>1. Expects(e)'
      <4>1. stream'.at # "off" /\ stream'.from <= stream'.last /\ Reaches(stream', stream'.last)
        BY <1>4, <1>5, <1>6 DEF Reaches
      <4> QED BY <1>2, <1>9, <4>1 DEF Expects, OfWriter, OfStream, OfHook, Transacting, Ending, Reaches, Brought
    <3>2. e.op \notin Transacting /\ e.op \notin Ending
      BY <1>2 DEF Transacting, Ending
    <3>3. Len(table) <= Len(table') /\ Len(table') \in Int
      BY <1>2, <1>3
    <3> QED BY <1>2, <1>5, <1>7, <2>1, <2>4, <3>1, <3>2, <3>3, IssuesOne
  <2> QED BY <1>2, <1>5, <1>8, <2>4, <2>5, StreamMoves
<1>10. CASE ~ended
  <2>1. Issue(<<>>)
    BY <1>2, <1>10
  <2>2. /\ \A d : d.op \in {"commit", "subscriptions"} => (Holds(queue', d) <=> Holds(queue, d))
        /\ \A d : Holds(Tail(queue), d) => Expects(d)'
        /\ Told' = Told
    BY <1>2, <1>5, <1>7, <2>1, NoneAtAll, StreamTurn
  <2>3. QueueFits' /\ \E T : queue' \in Seq(T)
    <3>1. Len(table) <= Len(table') /\ Len(table') \in Int
      BY <1>2, <1>3
    <3> QED BY <1>2, <1>5, <2>1, <2>2, <3>1, IssuesNone
  <2> QED BY <1>2, <1>5, <1>8, <2>2, <2>3, StreamMoves
<1> QED BY <1>9, <1>10

LEMMA MissedStep ==
  ASSUME StreamInv, Missed
  PROVE  StreamInv'
<1>1. PICK written : written = WriteAfter(stream, stream.last)
  OBVIOUS
<1>2. /\ Executed("missed") /\ Issue(<<>>) /\ stream' = CloseStream(written)
      /\ UNCHANGED <<host, place, reader, table, ended, line, held, job, poller, hook>>
  BY <1>1 DEF Missed, database, writing
<1>3. Head(queue).op = "missed" /\ Expects(Head(queue)) /\ Len(table) \in Nat /\ stream.from \in Int
  BY <1>2, Executes
<1>4. stream.at # "off" /\ stream.from <= stream.last /\ Reaches(stream, stream.last) /\ ended
  BY <1>3 DEF Expects, OfStream
<1>5. /\ stream \in Streams /\ stream.last \in Nat \cup {-1} /\ stream.from \in Nat \cup {-1}
      /\ stream.from < Len(table) /\ Batched(stream) /\ WritersFit /\ table \in Seq({"step", "end"})
      /\ place = "here" => Gapless(Brought(stream), stream.from)
      /\ Follows(stream)
  BY <1>4 DEF StreamInv, StreamTypes, Streams, StreamFits, Follows
<1>6. stream' \in Streams /\ stream'.from = stream.from /\ Follows(stream')
  <2>1. CASE stream.at = "closed"
    <3>1. written = stream
      BY <1>1, <2>1 DEF WriteAfter
    <3>2. PICK x : x = CloseStream(stream)
      OBVIOUS
    <3>3. x \in Streams /\ Brought(x) = Brought(stream) /\ SameAsked(stream, x) /\ x.at = "closed" /\ ~x.listening /\ x.buffer = <<>>
      BY <1>5, <3>2, Closed
    <3>4. Follows(x)
      BY <1>5, <2>1, <3>3 DEF Follows, SameAsked, Batched, ToldAll, Reaches
    <3> QED BY <1>2, <3>1, <3>2, <3>3, <3>4 DEF SameAsked
  <2>2. CASE stream.at # "closed"
    <3>1. stream.last = stream.from \/ Holds(Brought(stream), stream.last)
      BY <1>4, <1>5 DEF Reaches
    <3>2. /\ written \in Streams /\ Batched(written) /\ SameAsked(stream, written)
          /\ Reaches(written, Len(table) - 1)
          /\ place = "here" => Gapless(Brought(written), written.from)
      BY <1>1, <1>3, <1>4, <1>5, <2>2, <3>1, RowsBehind
    <3>3. PICK x : x = CloseStream(written)
      OBVIOUS
    <3>4. written.from = stream.from
      BY <3>2 DEF SameAsked
    <3>5. x \in Streams /\ SameAsked(written, x) /\ Follows(x)
      BY <1>4, <1>5, <3>2, <3>3, <3>4, ClosesInFull
    <3> QED BY <1>2, <3>3, <3>4, <3>5 DEF SameAsked
  <2> QED BY <2>1, <2>2
<1>7. "missed" \in Following
  BY DEF Following
<1>8. /\ \A d : d.op \in {"commit", "subscriptions"} => (Holds(queue', d) <=> Holds(queue, d))
      /\ \A d : Holds(Tail(queue), d) => Expects(d)'
      /\ Told' = Told
  BY <1>2, <1>6, <1>7, NoneAtAll, StreamTurn
<1>9. StreamFits'
  BY <1>2, <1>6, <1>8 DEF StreamFits, Follows, ToldAll, EndAt
<1>10. QueueFits' /\ \E T : queue' \in Seq(T)
  <2>1. Len(table) <= Len(table') /\ Len(table') \in Int /\ host' = host
    BY <1>2, <1>3
  <2> QED BY <1>2, <1>6, <1>8, <2>1, IssuesNone
<1> QED BY <1>2, <1>6, <1>8, <1>9, <1>10, StreamMoves

LEMMA BatchTimerStep ==
  ASSUME StreamInv, BatchTimer
  PROVE  StreamInv'
<1>1. /\ stream.at \notin {"off", "closed"} /\ stream' = FlushBatch(stream) /\ stream \in Streams
      /\ UNCHANGED <<host, place, reader, table, ended, queue, line, held, job, poller, hook>>
  BY DEF BatchTimer, database, writing, StreamInv, StreamTypes
<1>2. PICK x : x = FlushBatch(stream)
  OBVIOUS
<1>3. /\ x \in Streams /\ Brought(x) = Brought(stream) /\ SameAsked(stream, x)
      /\ x.at = stream.at /\ x.listening = stream.listening /\ x.buffer = <<>>
  BY <1>1, <1>2, Flushed
<1>4. /\ stream' \in Streams /\ Brought(stream') = Brought(stream) /\ stream'.from = stream.from /\ stream'.last = stream.last
      /\ stream'.said = stream.said /\ stream'.at = stream.at /\ stream'.listening = stream.listening /\ stream'.buffer = <<>>
  BY <1>1, <1>2, <1>3 DEF SameAsked
<1>5. Told' = Told
  BY <1>1 DEF Told, Untold
<1>6. StreamFits'
  BY <1>1, <1>4, <1>5 DEF StreamInv, StreamFits, Follows, Batched, Reaches, Brought
<1>7. ASSUME NEW d, Holds(queue, d) PROVE Expects(d)'
  <2>1. Expects(d)
    BY <1>7 DEF StreamInv, QueueFits
  <2>2. OfWriter(d)' /\ OfHook(d)'
    BY <1>1, <2>1, Quiet DEF Expects
  <2>3. OfStream(d)'
    BY <1>1, <1>4, <2>1 DEF Expects, OfStream, Reaches, Brought
  <2> QED BY <2>2, <2>3 DEF Expects
<1>8. QueueFits' /\ \E T : queue' \in Seq(T)
  <2>1. RowsGrow
    BY <1>1, RowsStay DEF StreamInv
  <2> QED BY <1>1, <1>4, <1>7, <2>1, QueueKept
<1> QED BY <1>1, <1>4, <1>6, <1>8, StreamMoves

LEMMA OpenNowStep ==
  ASSUME StreamInv, host # "postgres", NEW from \in Cursors, NEW buffered \in BOOLEAN, OpenNow(from, buffered)
  PROVE  StreamInv'
<1>1. PICK asked, written : asked = Asked(from, buffered) /\ written = WriteAfter(asked, from)
  OBVIOUS
<1>2. /\ from < Len(table)
      /\ stream' = IF ended THEN CloseStream(written) ELSE [written EXCEPT !.at = "live", !.listening = TRUE]
      /\ UNCHANGED <<host, place, reader, table, ended, queue, line, held, job, poller, hook>>
  BY <1>1 DEF OpenNow, database, writing
<1>3. from \in Nat \cup {-1} /\ Len(table) \in Nat /\ WritersFit /\ table \in Seq({"step", "end"})
  BY HostStreamsAssumption DEF StreamInv, StreamTypes
<1>4. /\ asked \in Streams /\ asked.from = from /\ asked.at = "open" /\ asked.buffer = <<>> /\ asked.sent = <<>> /\ ~asked.said
      /\ ~asked.listening
  <2>1. asked = [at |-> "open", from |-> from, said |-> FALSE, last |-> -1, listening |-> FALSE,
                 buffered |-> buffered, buffer |-> <<>>, sent |-> <<>>]
    BY <1>1 DEF Asked, Off
  <2> QED BY <1>3, <2>1 DEF Streams
<1>5. Brought(asked) = <<>> /\ Batched(asked) /\ Gapless(Brought(asked), asked.from) /\ Reaches(asked, from)
  <2>1. Brought(asked) = <<>>
    BY <1>4 DEF Brought
  <2> QED BY <1>3, <1>4, <2>1 DEF Batched, Gapless, Reaches
<1>6. /\ written \in Streams /\ Batched(written) /\ SameAsked(asked, written)
      /\ Reaches(written, Len(table) - 1)
      /\ place = "here" => Gapless(Brought(written), written.from)
  BY <1>1, <1>3, <1>4, <1>5, RowsBehind
<1>7. written.from = from /\ ~written.said
  BY <1>4, <1>6 DEF SameAsked
<1>8. queue = <<>> /\ \A d : ~Holds(queue, d) /\ ~Holds(queue', d)
  BY <1>2, NoneAtAll DEF StreamInv, QueueFits
<1>9. Told = Len(table) - 1 /\ Told' = Told
  BY <1>2, <1>8 DEF Told, Untold
<1>10. stream' \in Streams /\ Follows(stream')
  <2>1. CASE ended
    <3>1. PICK x : x = CloseStream(written)
      OBVIOUS
    <3>2. x \in Streams /\ Follows(x)
      BY <1>2, <1>3, <1>6, <1>7, <2>1, <3>1, ClosesInFull
    <3> QED BY <1>2, <2>1, <3>1, <3>2
  <2>2. CASE ~ended
    <3>1. /\ stream' \in Streams /\ stream'.from = from /\ stream'.at = "live" /\ stream'.listening /\ ~stream'.said
          /\ stream'.buffered = written.buffered /\ stream'.buffer = written.buffer /\ stream'.sent = written.sent
      BY <1>2, <1>6, <1>7, <2>2 DEF Streams
    <3>2. Brought(stream') = Brought(written)
      BY <3>1 DEF Brought
    <3>3. from <= Told
      BY <1>2, <1>3, <1>9
    <3> QED BY <1>2, <1>6, <1>7, <1>9, <3>1, <3>2, <3>3 DEF Follows, Batched, Reaches
  <2> QED BY <2>1, <2>2
<1>11. StreamFits'
  BY <1>2, <1>9, <1>10 DEF StreamFits, Follows, ToldAll, EndAt
<1>12. QueueFits' /\ \E T : queue' \in Seq(T)
  <2>1. Distinguished(<<>>) /\ Orderly(<<>>, stream'.from, Len(table'))
    BY DEF Distinguished, Orderly
  <2>2. queue' = <<>> /\ \E T : queue' \in Seq(T)
    BY <1>2, <1>8, NoneAtAll
  <2> QED BY <1>8, <2>1, <2>2 DEF QueueFits
<1> QED BY <1>2, <1>8, <1>10, <1>11, <1>12, StreamMoves

-----------------------------------------------------------------------------
(* The client that polls, and the subscription                             *)

(* A statement of theirs is executed.                                      *)
LEMMA OthersTurn ==
  ASSUME StreamInv, NEW op, Executed(op), op \notin {"commit", "subscriptions"}, NEW new, \E T : new \in Seq(T), Issue(new),
         \A d : Holds(new, d) => d.op \notin {"commit", "subscriptions"},
         UNCHANGED <<host, place, reader, table, ended, line, held, job, stream>>
  PROVE  /\ \A d : d.op \in {"commit", "subscriptions"} => (Holds(queue', d) <=> Holds(queue, d))
         /\ \A d : Holds(Tail(queue), d) => Expects(d)'
         /\ stream'.from = stream.from /\ Len(table) <= Len(table') /\ Len(table') \in Int /\ host' = host
<1>1. /\ \A d : Holds(queue, d) <=> d = Head(queue) \/ Holds(Tail(queue), d)
      /\ \A d : Holds(Tail(queue), d) => Expects(d)
      /\ Head(queue).op = op /\ Len(table) \in Nat
  BY Executes
<1>2. \A d : Holds(queue', d) <=> Holds(Tail(queue), d) \/ Holds(new, d)
  BY IssuedThen
<1>3. \A d : d.op \in {"commit", "subscriptions"} => (Holds(queue', d) <=> Holds(queue, d))
  BY <1>1, <1>2
<1>4. \A d : OfHook(d) /\ OfStream(d) /\ OfWriter(d) => OfHook(d)' /\ OfStream(d)' /\ OfWriter(d)'
  BY <1>3, Quiet
<1> QED BY <1>1, <1>3, <1>4 DEF Expects

(* One of them changes, and the queue.                                     *)
LEMMA OthersMove ==
  ASSUME StreamInv, UNCHANGED <<host, place, reader, table, ended, line, held, job, stream>>,
         \A d : d.op \in {"commit", "subscriptions"} => (Holds(queue', d) <=> Holds(queue, d)),
         poller' = poller \/ (poller' \in Pollers /\ PollerFits'),
         hook' = hook \/ (hook' \in Hooks /\ HookFits'),
         QueueFits', \E T : queue' \in Seq(T)
  PROVE  StreamInv'
<1>1. StreamFits' /\ WritersFit' /\ (poller' = poller => PollerFits') /\ (hook' = hook => HookFits')
  BY Quiet
<1>2. StreamTypes'
  BY DEF StreamInv, StreamTypes
<1> QED BY <1>1, <1>2 DEF StreamInv

(* One of them asks for a statement of its own.                            *)
LEMMA OthersAsk ==
  ASSUME StreamInv, host = "postgres", NEW op, op \notin Transacting \cup Following \cup Ending \cup {"subscriptions"},
         op \in {"register", "unregister"} => reader = "hook",
         NEW by, queue' = Append(queue, Query(op, by)), UNCHANGED <<host, place, reader, table, ended, line, held, job, stream>>
  PROVE  /\ \A d : d.op \in {"commit", "subscriptions"} => (Holds(queue', d) <=> Holds(queue, d))
         /\ QueueFits' /\ \E T : queue' \in Seq(T)
<1>1. PICK e : e = Query(op, by)
  OBVIOUS
<1>2. e.op = op /\ queue' = Append(queue, e)
  BY <1>1 DEF Query
<1>3. \A d : Holds(queue', d) <=> Holds(queue, d) \/ d = e
  BY <1>2, AskedThen DEF StreamInv
<1>4. \A d : d.op \in {"commit", "subscriptions"} => (Holds(queue', d) <=> Holds(queue, d))
  BY <1>2, <1>3 DEF Transacting
<1>5. \A d : Holds(queue, d) => Expects(d)'
  <2>1. \A d : OfHook(d) /\ OfStream(d) /\ OfWriter(d) => OfHook(d)' /\ OfStream(d)' /\ OfWriter(d)'
    BY <1>4, Quiet
  <2> QED BY <2>1 DEF StreamInv, QueueFits, Expects
<1>6. Expects(e)'
  BY <1>2 DEF Expects, OfWriter, OfStream, OfHook, Transacting, Following, Ending
<1>7. QueueFits' /\ \E T : queue' \in Seq(T)
  <2>1. /\ e.op \notin Transacting /\ e.op \notin Following /\ e.op \notin {"subscriptions", "commit"} \cup Ending
        /\ stream'.from = stream.from /\ stream'.from \in Int
    BY <1>2 DEF Transacting, StreamInv, StreamTypes, Streams
  <2> QED BY <1>2, <1>5, <1>6, <2>1, AsksOne
<1> QED BY <1>4, <1>7

LEMMA PollStep ==
  ASSUME StreamInv, Poll
  PROVE  StreamInv'
<1>1. /\ host = "postgres" /\ poller' = [poller EXCEPT !.at = "asked"] /\ queue' = Append(queue, Query("poll row", "poller"))
      /\ UNCHANGED <<host, place, reader, table, ended, line, held, job, stream, hook>>
  BY DEF Poll, PollStatements, database, writing
<1>2. poller' \in Pollers /\ PollerFits'
  BY <1>1 DEF StreamInv, StreamTypes, Pollers, PollerFits, EndAt
<1>3. PICK op : op = "poll row"
  OBVIOUS
<1>4. op \notin Transacting \cup Following \cup Ending \cup {"subscriptions"} /\ op \notin {"register", "unregister"}
  BY <1>3 DEF Transacting, Following, Ending
<1>5. queue' = Append(queue, Query(op, "poller"))
  BY <1>1, <1>3
<1>6. /\ \A d : d.op \in {"commit", "subscriptions"} => (Holds(queue', d) <=> Holds(queue, d))
      /\ QueueFits' /\ \E T : queue' \in Seq(T)
  BY <1>1, <1>4, <1>5, OthersAsk
<1> QED BY <1>1, <1>2, <1>6, OthersMove

LEMMA PollStatementStep ==
  ASSUME StreamInv, NEW i \in 1 .. 2, PollStatement(i)
  PROVE  StreamInv'
<1>1. /\ i = 1 => /\ Executed("poll row") /\ Issue(<<Query("poll events", "poller")>>)
                  /\ poller' = [poller EXCEPT !.said = ended]
      /\ i = 2 => /\ Executed("poll events") /\ Issue(<<>>)
                  /\ \E last : /\ last = IF Len(table) - 1 > poller.last THEN Len(table) - 1 ELSE poller.last
                              /\ poller' = [poller EXCEPT !.last = last, !.at = "idle", !.done = poller.said]
      /\ UNCHANGED <<host, place, reader, table, ended, line, held, job, stream, hook>>
  <2>0. UNCHANGED <<host, place, reader, table, ended, line, held, job, stream, hook>>
    BY DEF PollStatement, database, writing
  <2>1. PollStatements[1] = "poll row" /\ PollStatements[2] = "poll events"
    BY DEF PollStatements
  <2>2. poller \in Pollers
    BY DEF StreamInv, StreamTypes
  <2>3. CASE i = 1
    <3>1. PollStatement(1)
      BY <2>3
    <3>2. /\ Executed(PollStatements[1]) /\ Issue(<<Query(PollStatements[2], "poller")>>)
          /\ poller' = IF PollStatements[1] = "poll row" THEN [poller EXCEPT !.said = ended]
                       ELSE [poller EXCEPT !.last = IF Len(table) - 1 > @ THEN Len(table) - 1 ELSE @]
          /\ UNCHANGED <<host, place, reader, table, ended, line, held, job, stream, hook>>
      BY <3>1 DEF PollStatement, database, writing
    <3> QED BY <2>1, <2>3, <3>2
  <2>4. CASE i = 2
    <3> DEFINE read == IF PollStatements[i] = "poll row" THEN [poller EXCEPT !.said = ended]
                       ELSE [poller EXCEPT !.last = IF Len(table) - 1 > @ THEN Len(table) - 1 ELSE @]
    <3>1. /\ Executed(PollStatements[i])
          /\ Issue(IF i = 1 THEN <<Query(PollStatements[2], "poller")>> ELSE <<>>)
          /\ poller' = IF i = 1 THEN read ELSE [read EXCEPT !.at = "idle", !.done = read.said]
      BY Zenon DEF PollStatement
    <3>2. PICK last : last = IF Len(table) - 1 > poller.last THEN Len(table) - 1 ELSE poller.last
      OBVIOUS
    <3>3. read = [poller EXCEPT !.last = last]
      BY <2>1, <2>2, <2>4, <3>2 DEF Pollers
    <3> HIDE DEF read
    <3>4. Executed(PollStatements[2]) /\ poller' = [read EXCEPT !.at = "idle", !.done = read.said]
      BY <2>4, <3>1
    <3>5. Issue(<<>>)
      BY <2>4, <3>1
    <3>6. poller' = [poller EXCEPT !.last = last, !.at = "idle", !.done = poller.said]
      BY <2>2, <3>3, <3>4 DEF Pollers
    <3>7. i # 1
      BY <2>4
    <3>8. Executed("poll events")
      BY <2>1, <3>4
    <3> QED BY <2>0, <3>2, <3>5, <3>6, <3>7, <3>8
  <2>5. i = 1 \/ i = 2
    OBVIOUS
  <2> QED BY <2>3, <2>4, <2>5
<1>2. poller \in Pollers /\ PollerFits /\ Len(table) \in Nat /\ ended \in BOOLEAN
  BY DEF StreamInv, StreamTypes
<1>3. \A k \in EndAt : k \in Int /\ k <= Len(table)
  BY <1>2 DEF EndAt, StreamInv, StreamTypes
<1>4. poller' \in Pollers /\ PollerFits'
  <2>1. CASE i = 1
    BY <1>1, <1>2, <2>1 DEF Pollers, PollerFits, EndAt
  <2>2. CASE i = 2
    <3>1. PICK last : /\ last = IF Len(table) - 1 > poller.last THEN Len(table) - 1 ELSE poller.last
                      /\ poller' = [poller EXCEPT !.last = last, !.at = "idle", !.done = poller.said]
      BY <1>1, <2>2
    <3>2. poller' = [poller EXCEPT !.last = last, !.at = "idle", !.done = poller.said] /\ last \in Int
      BY <1>2, <3>1 DEF Pollers
    <3>3. poller' \in Pollers /\ poller'.last = last /\ poller'.done = poller.said /\ poller'.said = poller.said
      BY <1>2, <3>2 DEF Pollers
    <3>4. Len(table) - 1 <= last
      BY <1>2, <3>1 DEF Pollers
    <3>5. ASSUME poller.said PROVE \E k \in EndAt : k - 1 <= last
      <4>1. PICK k : k \in EndAt
        BY <1>2, <3>5 DEF PollerFits, StreamInv, WritersFit
      <4>2. k \in Int /\ k <= Len(table) /\ Len(table) \in Int /\ last \in Int
        BY <1>2, <1>3, <3>2, <4>1
      <4>3. k - 1 <= last
        BY <3>4, <4>2
      <4> QED BY <4>1, <4>3
    <3> QED BY <1>1, <1>2, <3>3, <3>5 DEF PollerFits, EndAt
  <2> QED BY <2>1, <2>2
<1>5. CASE i = 1
  <2>1. PICK op, e : op = "poll row" /\ e = Query("poll events", "poller")
    OBVIOUS
  <2>2. Executed(op) /\ Issue(<<e>>) /\ op \notin {"commit", "subscriptions"} /\ e.op = "poll events"
    <3>1. Executed("poll row") /\ Issue(<<Query("poll events", "poller")>>)
      BY <1>1, <1>5
    <3>2. "poll row" \notin {"commit", "subscriptions"}
      OBVIOUS
    <3> QED BY <2>1, <3>1, <3>2 DEF Query
  <2>3. PICK new : new = <<e>>
    OBVIOUS
  <2>4. /\ \E T : new \in Seq(T)
        /\ \A d : Holds(new, d) => d.op \notin {"commit", "subscriptions"}
    BY <2>2, <2>3, OneOnly
  <2>5. /\ \A d : d.op \in {"commit", "subscriptions"} => (Holds(queue', d) <=> Holds(queue, d))
        /\ \A d : Holds(Tail(queue), d) => Expects(d)'
        /\ stream'.from = stream.from /\ Len(table) <= Len(table') /\ Len(table') \in Int /\ host' = host
    BY <1>1, <2>2, <2>3, <2>4, OthersTurn
  <2>6. QueueFits' /\ \E T : queue' \in Seq(T)
    <3>1. Expects(e)'
      BY <2>2 DEF Expects, OfWriter, OfStream, OfHook, Transacting, Ending
    <3>2. e.op \notin Transacting /\ e.op \notin Following /\ e.op \notin Ending /\ e.op \notin {"subscriptions", "commit"}
      BY <2>2 DEF Transacting, Following, Ending
    <3> QED BY <2>2, <2>5, <3>1, <3>2, IssuesOne
  <2> QED BY <1>1, <1>4, <2>5, <2>6, OthersMove
<1>6. CASE i = 2
  <2>1. PICK op : op = "poll events"
    OBVIOUS
  <2>2. Executed(op) /\ Issue(<<>>) /\ op \notin {"commit", "subscriptions"}
    <3>1. Executed("poll events") /\ Issue(<<>>)
      BY <1>1, <1>6
    <3>2. "poll events" \notin {"commit", "subscriptions"}
      OBVIOUS
    <3> QED BY <2>1, <3>1, <3>2
  <2>3. /\ \A d : d.op \in {"commit", "subscriptions"} => (Holds(queue', d) <=> Holds(queue, d))
        /\ \A d : Holds(Tail(queue), d) => Expects(d)'
        /\ stream'.from = stream.from /\ Len(table) <= Len(table') /\ Len(table') \in Int /\ host' = host
    BY <1>1, <2>2, NoneAtAll, OthersTurn
  <2>4. QueueFits' /\ \E T : queue' \in Seq(T)
    BY <2>2, <2>3, IssuesNone
  <2> QED BY <1>1, <1>4, <2>3, <2>4, OthersMove
<1> QED BY <1>5, <1>6

LEMMA PollNowStep ==
  ASSUME StreamInv, PollNow
  PROVE  StreamInv'
<1>1. /\ poller' = [poller EXCEPT !.last = IF Len(table) - 1 > @ THEN Len(table) - 1 ELSE @, !.done = ended]
      /\ UNCHANGED <<host, place, reader, table, ended, queue, line, held, job, stream, hook>>
  BY DEF PollNow, database, writing
<1>2. poller \in Pollers /\ PollerFits /\ Len(table) \in Nat /\ ended \in BOOLEAN /\ RowsGrow
  BY <1>1, RowsStay DEF StreamInv, StreamTypes
<1>3. PICK last \in Int : last = IF Len(table) - 1 > poller.last THEN Len(table) - 1 ELSE poller.last
  BY <1>2 DEF Pollers
<1>4. poller' \in Pollers /\ poller'.last = last /\ poller'.done = ended /\ poller'.said = poller.said /\ Len(table) - 1 <= last
  <2>1. poller' = [poller EXCEPT !.last = last, !.done = ended]
    BY <1>1, <1>3
  <2>2. last \in Int /\ Len(table) - 1 <= last
    BY <1>2, <1>3 DEF Pollers
  <2> QED BY <1>2, <2>1, <2>2 DEF Pollers
<1>5. PollerFits'
  <2>1. ASSUME ended PROVE \E k \in EndAt : k - 1 <= last
    <3>1. PICK k : k \in EndAt
      BY <2>1 DEF StreamInv, WritersFit
    <3>2. k \in Int /\ k <= Len(table)
      BY <1>2, <3>1 DEF EndAt, StreamInv, StreamTypes
    <3> QED BY <1>2, <1>4, <3>1, <3>2
  <2> QED BY <1>1, <1>2, <1>4, <2>1 DEF PollerFits, EndAt
<1>6. QueueFits' /\ \E T : queue' \in Seq(T)
  <2>1. \A d : OfHook(d) /\ OfStream(d) /\ OfWriter(d) => OfHook(d)' /\ OfStream(d)' /\ OfWriter(d)'
    BY <1>1, Quiet
  <2>2. \A d : Holds(queue, d) => Expects(d)'
    BY <2>1 DEF StreamInv, QueueFits, Expects
  <2> QED BY <1>1, <1>2, <2>2, QueueKept
<1> QED BY <1>1, <1>4, <1>5, <1>6, OthersMove

LEMMA AskRegisterStep ==
  ASSUME StreamInv, NEW types \in EventTypes, AskRegister(types)
  PROVE  StreamInv'
<1>1. /\ host = "postgres" /\ reader = "hook" /\ hook' = [Unknown EXCEPT !.at = "coming", !.types = types]
      /\ queue' = Append(queue, Query("register", "hook"))
      /\ UNCHANGED <<host, place, reader, table, ended, line, held, job, stream, poller>>
  BY DEF AskRegister, database, writing
<1>2. hook' \in Hooks /\ HookFits'
  <2>1. hook' = [at |-> "coming", types |-> types, since |-> 0, until |-> 0, posted |-> <<>>]
    BY <1>1 DEF Unknown
  <2>2. hook' \in Hooks /\ hook'.at = "coming" /\ hook'.posted = <<>>
    BY <2>1 DEF Hooks
  <2> QED BY <1>1, <2>2 DEF HookFits, StreamInv
<1>3. PICK op : op = "register"
  OBVIOUS
<1>4. op \notin Transacting \cup Following \cup Ending \cup {"subscriptions"}
  BY <1>3 DEF Transacting, Following, Ending
<1>5. queue' = Append(queue, Query(op, "hook"))
  BY <1>1, <1>3
<1>6. /\ \A d : d.op \in {"commit", "subscriptions"} => (Holds(queue', d) <=> Holds(queue, d))
      /\ QueueFits' /\ \E T : queue' \in Seq(T)
  BY <1>1, <1>4, <1>5, OthersAsk
<1> QED BY <1>1, <1>2, <1>6, OthersMove

(* A subscription is made: it has heard of nothing that came before.       *)
LEMMA NewHook ==
  ASSUME StreamInv, NEW types \in EventTypes, hook' = Registered(types), reader = "hook",
         UNCHANGED <<host, place, reader, table>>, Told' = Told
  PROVE  hook' \in Hooks /\ HookFits'
<1>1. hook' = [at |-> "on", types |-> types, since |-> Len(table), until |-> 0, posted |-> <<>>]
  BY DEF Registered, Unknown
<1>2. Len(table) \in Nat /\ Told \in Int /\ Told < Len(table)
  BY ToldNumber DEF StreamInv
<1>3. hook' \in Hooks
  BY <1>1, <1>2 DEF Hooks
<1>4. \A s : s \notin hook'.since .. Told'
  BY <1>1, <1>2
<1>5. hook'.posted = <<>> /\ hook'.at = "on"
  BY <1>1
<1> QED BY <1>3, <1>4, <1>5 DEF HookFits, StreamInv

(* A subscription is removed: it was told of nothing that is yet to come.  *)
LEMMA PastHook ==
  ASSUME StreamInv, hook' = Unregistered, reader = "hook", UNCHANGED <<host, place, reader, table>>, Told' = Told,
         \A e : e.op = "subscriptions" => (Holds(queue', e) <=> Holds(queue, e))
  PROVE  hook' \in Hooks /\ HookFits'
<1>1. hook' = [hook EXCEPT !.at = "off", !.until = Len(table)] /\ hook \in Hooks
  BY DEF Unregistered, StreamInv, StreamTypes
<1>2. Len(table) \in Nat /\ Told \in Int /\ Told < Len(table)
  BY ToldNumber DEF StreamInv
<1>3. hook' \in Hooks /\ hook'.at = "off" /\ hook'.posted = hook.posted /\ hook'.until = Len(table)
  BY <1>1, <1>2 DEF Hooks
<1>4. \A j \in DOMAIN hook.posted : hook.posted[j] \in Nat
  BY <1>1 DEF Hooks
<1>5. \A j \in DOMAIN hook.posted : hook.posted[j] < Len(table)
  BY <1>2, <1>4 DEF StreamInv, HookFits
<1> QED BY <1>3, <1>5 DEF StreamInv, HookFits

LEMMA RegisterHookStep ==
  ASSUME StreamInv, RegisterHook \/ UnregisterHook
  PROVE  StreamInv'
<1>1. PICK op \in {"register", "unregister"} : Executed(op) /\ (op = "register" <=> RegisterHook) /\ (op = "unregister" <=> UnregisterHook)
  <2>1. CASE RegisterHook
    <3>1. Executed("register") /\ ~Executed("unregister")
      BY <2>1 DEF RegisterHook, Executed
    <3> QED BY <2>1, <3>1 DEF UnregisterHook
  <2>2. CASE UnregisterHook
    <3>1. Executed("unregister") /\ ~Executed("register")
      BY <2>2 DEF UnregisterHook, Executed
    <3> QED BY <2>2, <3>1 DEF RegisterHook
  <2> QED BY <2>1, <2>2
<1>2. /\ Issue(<<>>) /\ UNCHANGED <<host, place, reader, table, ended, line, held, job, stream, poller>>
      /\ hook' = IF op = "register" THEN Registered(hook.types) ELSE Unregistered
  BY <1>1 DEF RegisterHook, UnregisterHook, database, writing
<1>3. op \notin {"commit", "subscriptions"}
  BY <1>1
<1>4. /\ \A d : d.op \in {"commit", "subscriptions"} => (Holds(queue', d) <=> Holds(queue, d))
      /\ \A d : Holds(Tail(queue), d) => Expects(d)'
      /\ stream'.from = stream.from /\ Len(table) <= Len(table') /\ Len(table') \in Int /\ host' = host
  BY <1>1, <1>2, <1>3, NoneAtAll, OthersTurn
<1>5. QueueFits' /\ \E T : queue' \in Seq(T)
  BY <1>1, <1>2, <1>4, IssuesNone
<1>6. Told' = Told
  BY <1>2, <1>4, Quiet
<1>7. hook' = hook \/ (hook' \in Hooks /\ HookFits')
  <2>1. CASE op = "register"
    <3>1. reader = "hook"
      BY <1>1, <2>1, Executes DEF Expects, OfHook
    <3>2. hook.types \in EventTypes
      BY DEF StreamInv, StreamTypes, Hooks
    <3> QED BY <1>2, <1>6, <2>1, <3>1, <3>2, NewHook
  <2>2. CASE op # "register"
    <3>1. hook' = Unregistered
      BY <1>2, <2>2
    <3>2. reader = "hook"
      BY <1>1, Executes DEF Expects, OfHook
    <3> QED BY <1>2, <1>4, <1>6, <3>1, <3>2, PastHook
  <2> QED BY <2>1, <2>2
<1> QED BY <1>2, <1>4, <1>5, <1>7, OthersMove

LEMMA AskUnregisterStep ==
  ASSUME StreamInv, AskUnregister
  PROVE  StreamInv'
<1>1. /\ host = "postgres" /\ hook.at = "on" /\ hook' = [hook EXCEPT !.at = "leaving"]
      /\ queue' = Append(queue, Query("unregister", "hook"))
      /\ UNCHANGED <<host, place, reader, table, ended, line, held, job, stream, poller>>
  BY DEF AskUnregister, database, writing
<1>2. reader = "hook"
  BY <1>1 DEF StreamInv, HookFits
<1>3. PICK op : op = "unregister"
  OBVIOUS
<1>4. op \notin Transacting \cup Following \cup Ending \cup {"subscriptions"}
  BY <1>3 DEF Transacting, Following, Ending
<1>5. queue' = Append(queue, Query(op, "hook"))
  BY <1>1, <1>3
<1>6. /\ \A d : d.op \in {"commit", "subscriptions"} => (Holds(queue', d) <=> Holds(queue, d))
      /\ QueueFits' /\ \E T : queue' \in Seq(T)
  BY <1>1, <1>2, <1>4, <1>5, OthersAsk
<1>7. hook' \in Hooks /\ HookFits'
  <2>1. hook \in Hooks /\ Told' = Told
    BY <1>1, <1>6, Quiet DEF StreamInv, StreamTypes
  <2>2. hook' \in Hooks /\ hook'.at = "leaving" /\ hook'.posted = hook.posted
    BY <1>1, <2>1 DEF Hooks
  <2> QED BY <1>1, <1>2, <1>6, <2>1, <2>2 DEF HookFits, StreamInv
<1> QED BY <1>1, <1>6, <1>7, OthersMove

LEMMA HookNowStep ==
  ASSUME StreamInv, (\E types \in EventTypes : RegisterSqlite(types)) \/ UnregisterSqlite
  PROVE  StreamInv'
<1>1. UNCHANGED <<host, place, reader, table, ended, queue, line, held, job, stream, poller>>
  BY DEF RegisterSqlite, UnregisterSqlite, database, writing
<1>2. Told' = Told
  BY <1>1, Quiet
<1>3. hook' \in Hooks /\ HookFits'
  <2>1. ASSUME NEW types \in EventTypes, RegisterSqlite(types) PROVE hook' \in Hooks /\ HookFits'
    BY <1>1, <1>2, <2>1, NewHook DEF RegisterSqlite
  <2>2. ASSUME UnregisterSqlite PROVE hook' \in Hooks /\ HookFits'
    <3>1. hook' = Unregistered /\ reader = "hook"
      BY <2>2 DEF UnregisterSqlite, StreamInv, HookFits
    <3> QED BY <1>1, <1>2, <3>1, PastHook
  <2> QED BY <2>1, <2>2
<1>4. QueueFits' /\ \E T : queue' \in Seq(T)
  <2>1. \A d : OfHook(d) /\ OfStream(d) /\ OfWriter(d) => OfHook(d)' /\ OfStream(d)' /\ OfWriter(d)'
    BY <1>1, Quiet
  <2>2. \A d : Holds(queue, d) => Expects(d)'
    BY <2>1 DEF StreamInv, QueueFits, Expects
  <2>3. RowsGrow
    BY <1>1, RowsStay DEF StreamInv
  <2> QED BY <1>1, <2>2, <2>3, QueueKept
<1> QED BY <1>1, <1>3, <1>4, OthersMove

-----------------------------------------------------------------------------
(* Nothing is missed                                                       *)

LEMMA StreamsStart == HostInit => StreamInv
<1> SUFFICES ASSUME HostInit PROVE StreamInv
  OBVIOUS
<1> USE DEF HostInit
<1>1. queue = <<>> /\ (\A d : ~Holds(queue, d)) /\ \E T : queue \in Seq(T)
  BY NoneAtAll
<1>2. Told = -1
  BY <1>1 DEF Told, Untold
<1>3. stream \in Streams /\ Brought(stream) = <<>> /\ stream.at = "off" /\ ~stream.listening /\ stream.buffer = <<>> /\ ~stream.said
  BY DEF Off, Streams, Brought
<1>4. poller \in Pollers /\ hook \in Hooks /\ hook.at = "none" /\ hook.posted = <<>>
  BY DEF Pollers, Hooks, Unknown, EventTypes
<1>5. StreamTypes
  <2>1. table \in Seq({"step", "end"}) /\ line \in Seq(Writers) /\ ended \in BOOLEAN
    <3>1. table = <<>> /\ line = <<>> /\ ended = FALSE
      OBVIOUS
    <3>2. <<>> \in Seq({"step", "end"})
      OBVIOUS
    <3>3. <<>> \in Seq(Writers)
      OBVIOUS
    <3>4. FALSE \in BOOLEAN
      OBVIOUS
    <3> QED BY <3>1, <3>2, <3>3, <3>4, Zenon
  <2>2. job \in [Writers -> {"none", "step", "end"}]
    OBVIOUS
  <2> QED BY <1>1, <1>3, <1>4, <2>1, <2>2 DEF StreamTypes
<1>6. QueueFits
  BY <1>1 DEF QueueFits, Distinguished, Orderly
<1>7. WritersFit
  BY DEF WritersFit
<1>8. StreamFits
  BY <1>3 DEF StreamFits, Follows, Batched, Gapless
<1>9. PollerFits
  BY DEF PollerFits
<1>10. HookFits
  BY <1>4 DEF HookFits
<1> QED BY <1>5, <1>6, <1>7, <1>8, <1>9, <1>10 DEF StreamInv

LEMMA StreamsStep == StreamInv /\ [HostNext]_hostStreamVars => StreamInv'
<1> SUFFICES ASSUME StreamInv, [HostNext]_hostStreamVars PROVE StreamInv'
  OBVIOUS
<1>1. CASE UNCHANGED hostStreamVars
  BY <1>1 DEF hostStreamVars, StreamInv, StreamTypes, QueueFits, Expects, OfWriter, OfStream, OfHook, WritersFit, StreamFits,
              Follows, PollerFits, HookFits, Told, Untold, ToldAll, EndAt, Reaches, Brought
<1>2. ASSUME NEW w \in Writers, NEW kind \in {"step", "end"}, AskLock(w, kind) \/ AppendSqlite(w, kind) PROVE StreamInv'
  <2>1. CASE AskLock(w, kind)
    BY <2>1, AskLockStep
  <2>2. CASE AppendSqlite(w, kind)
    <3>1. host # "postgres" /\ AppendNow(w, kind) /\ hook' = Posted(Len(table), kind)
      BY <2>2 DEF AppendSqlite
    <3> QED BY <3>1, AppendNowStep
  <2> QED BY <1>2, <2>1, <2>2
<1>3. ASSUME NEW kind \in {"step", "end"}, AppendThere(kind) \/ AppendMemory(kind) PROVE StreamInv'
  <2>1. CASE AppendThere(kind)
    BY <2>1, AppendThereStep
  <2>2. CASE AppendMemory(kind)
    <3>1. host = "memory" /\ host # "postgres" /\ AppendNow("executor", kind) /\ hook' = hook /\ "executor" \in Writers
      BY <2>2 DEF AppendMemory, Writers
    <3> QED BY <3>1, AppendNowStep
  <2> QED BY <1>3, <2>1, <2>2
<1>4. ASSUME NEW from \in Cursors, NEW buffered \in BOOLEAN, OpenStream(from, buffered) \/ OpenSqlite(from, buffered) PROVE StreamInv'
  <2>1. CASE OpenStream(from, buffered)
    BY <2>1, OpenStreamStep
  <2>2. CASE OpenSqlite(from, buffered)
    <3>1. host # "postgres" /\ OpenNow(from, buffered)
      BY <2>2 DEF OpenSqlite
    <3> QED BY <3>1, OpenNowStep
  <2> QED BY <1>4, <2>1, <2>2
<1>5. ASSUME NEW from \in Cursors, OpenMemory(from) PROVE StreamInv'
  <2>1. host # "postgres" /\ OpenNow(from, FALSE) /\ FALSE \in BOOLEAN
    BY <1>5 DEF OpenMemory
  <2> QED BY <2>1, OpenNowStep
<1>6. CASE Statement
  BY <1>6, BeginStep, AllocateSeqStep, InsertEventStep, CommitStep, LoadEndingStep, SetRunTerminalStep, LoadRowStep, BacklogStep,
     RecheckStep, MissedStep, PollStatementStep, RegisterHookStep, LookUpStep DEF Statement
<1>7. CASE EndThere \/ BatchTimer \/ Poll \/ PollSqlite \/ PollMemory
  BY <1>7, EndThereStep, BatchTimerStep, PollStep, PollNowStep DEF PollSqlite, PollMemory
<1>8. ASSUME NEW types \in EventTypes, AskRegister(types) \/ RegisterSqlite(types) PROVE StreamInv'
  BY <1>8, AskRegisterStep, HookNowStep
<1>9. CASE AskUnregister \/ UnregisterSqlite
  BY <1>9, AskUnregisterStep, HookNowStep
<1> QED BY <1>1, <1>2, <1>3, <1>4, <1>5, <1>6, <1>7, <1>8, <1>9 DEF HostNext

LEMMA HeardOfAll == StreamInv => NothingMissed
<1> SUFFICES ASSUME StreamInv PROVE NothingMissed
  OBVIOUS
<1>1. stream \in Streams /\ hook \in Hooks /\ Len(table) \in Nat
  BY DEF StreamInv, StreamTypes
<1>2. /\ stream.sent \in Seq(Int) /\ stream.buffer \in Seq(Int) /\ stream.from \in Int
      /\ hook.since \in Nat /\ \A j \in DOMAIN hook.posted : hook.posted[j] \in Nat
  BY <1>1 DEF Streams, Hooks
<1>3. NothingSkipped
  <2> SUFFICES ASSUME place = "here", NEW i \in DOMAIN stream.sent
               PROVE  stream.sent[i] = stream.from + 1 \/ \E j \in 1 .. i - 1 : stream.sent[j] >= stream.sent[i] - 1
    BY DEF NothingSkipped
  <2>1. PICK p, sent, buffer : p = Brought(stream) /\ sent = stream.sent /\ buffer = stream.buffer
    OBVIOUS
  <2>2. /\ i \in DOMAIN p /\ i \in Nat /\ i <= Len(stream.sent) /\ Len(stream.sent) \in Nat
        /\ \A j \in 1 .. Len(stream.sent) : p[j] = stream.sent[j]
    <3>1. p = sent \o buffer
      BY <2>1 DEF Brought
    <3>2. sent \in Seq(Int) /\ buffer \in Seq(Int)
      BY <1>2, <2>1
    <3>3. /\ Len(sent) \in Nat /\ DOMAIN sent = 1 .. Len(sent) /\ Len(buffer) \in Nat
          /\ DOMAIN (sent \o buffer) = 1 .. Len(sent) + Len(buffer)
          /\ \A j \in 1 .. Len(sent) : (sent \o buffer)[j] = sent[j]
      BY <3>2
    <3>4. i \in DOMAIN sent
      BY <2>1
    <3>5. i \in DOMAIN p /\ i \in Nat /\ i <= Len(sent) /\ \A j \in 1 .. Len(sent) : p[j] = sent[j]
      BY <3>1, <3>3, <3>4
    <3> QED BY <2>1, <3>3, <3>5
  <2>3. p[i] = stream.from + 1 \/ \E j \in 1 .. i - 1 : p[j] >= p[i] - 1
    BY <2>1, <2>2 DEF StreamInv, StreamFits, Follows, Gapless
  <2>4. \A j \in 1 .. i : j \in 1 .. Len(stream.sent)
    BY <2>2
  <2>5. i \in 1 .. i /\ \A j \in 1 .. i - 1 : j \in 1 .. i
    BY <1>2, <2>2
  <2> QED BY <2>2, <2>3, <2>4, <2>5
<1>4. ToldAllHasAll
  <2>1. ASSUME stream.at = "closed"
        PROVE  \E i \in EndAt : \A s \in stream.from + 1..i - 1 : \E j \in DOMAIN stream.sent : stream.sent[j] = s
    <3>1. stream.buffer = <<>> /\ ToldAll(stream)
      BY <2>1 DEF StreamInv, StreamFits, Follows
    <3>2. Brought(stream) = stream.sent
      BY <1>2, <3>1, ConcatEmptySeq DEF Brought
    <3> QED BY <3>1, <3>2 DEF ToldAll, Reaches, Holds
  <2> QED BY <2>1 DEF ToldAllHasAll, StreamInv, PollerFits
<1>5. HeardInFull
  <2>1. ASSUME NEW s \in hook.since..Len(table) - 1, hook.at = "on", hook.types = {} \/ table[s + 1] \in hook.types, Settled(s)
        PROVE  \E j \in DOMAIN hook.posted : hook.posted[j] = s
    <3>1. s \in hook.since .. Told
      <4>1. ASSUME Untold PROVE s # Len(table) - 1
        <5>1. PICK e : Holds(queue, e) /\ e.op = "commit"
          BY <4>1 DEF Untold
        <5>2. held
          BY <5>1 DEF StreamInv, QueueFits, Expects, OfWriter
        <5> QED BY <2>1, <5>2 DEF Settled
      <4> QED BY <1>1, <1>2, <4>1 DEF Told
    <3>2. \A e : Holds(queue, e) /\ e.op = "subscriptions" => e.by # s
      BY <2>1 DEF Settled, Holds
    <3> QED BY <2>1, <3>1, <3>2 DEF StreamInv, HookFits, Wants, Holds
  <2>2. \A i, j \in DOMAIN hook.posted : i # j => hook.posted[i] # hook.posted[j]
    BY DEF StreamInv, HookFits
  <2>3. hook.at = "off" => \A j \in DOMAIN hook.posted : hook.posted[j] < hook.until
    BY DEF StreamInv, HookFits
  <2> QED BY <2>1, <2>2, <2>3 DEF HeardInFull
<1> QED BY <1>3, <1>4, <1>5 DEF NothingMissed

LEMMA StreamsHold == HostSpec => []StreamInv
BY StreamsStart, StreamsStep, PTL DEF HostSpec

\* Whoever follows a run of a v1 host hears of all of it: a stream of a run
\* driven here skips nothing, one that was closed and a poll that was told the
\* run is over brought the terminal event and all before it, and a subscription
\* gets what it asked for, once (postgres/src/server.ts: appendEvent,
\* handleEventsSse, handleEventsPoll; webhooks.ts: fanOutEvent).
THEOREM WhatIsFollowedIsHeard == HostSpec => []NothingMissed
<1> QED BY StreamsHold, HeardOfAll, PTL
=============================================================================
