-------------------------- MODULE ExecutorAuditProofs --------------------------
(***************************************************************************)
(* The v2-reference host: its executor, and the audit log it writes.       *)
(*                                                                         *)
(* The gates of the executor hold for every set of runs, workflows and     *)
(* clients, any number of requests and any number of kills.  Three parts:  *)
(* what appending one event does to the questions the executor asks of a   *)
(* run's log (executor.ts: fold); that every statement the host commits on *)
(* a run's rows, and so every image of every sequence of them, preserves   *)
(* RowInv; and that the specification's actions, a kill between any two    *)
(* statements and a request decided on a stale row included, preserve the  *)
(* invariant.                                                              *)
(*                                                                         *)
(* The fourth part: the hash chain of AuditLog holds for any number of     *)
(* processes, handlers and entries, the table refines an append-only log,  *)
(* the checkpoints of a host that is one process keep up with it, and a    *)
(* re-walk reports what was tampered with.                                 *)
(*                                                                         *)
(* The argument: a handler that has taken its number holds the row of      *)
(* audit_seq through its process and the transaction of that process, so   *)
(* it is the only one between that and its COMMIT.  Hence its number and   *)
(* the hash it has read are still those of the tip when its row lands.     *)
(*                                                                         *)
(* A table that was tampered with holds a break that no later write mends: *)
(* a row that does not name the hash of the one before it, or a checkpoint *)
(* over rows that read otherwise.                                          *)
(***************************************************************************)
EXTENDS ExecutorInvariant, AuditLog, FiniteSetTheorems, SequenceTheorems, WellFoundedInduction, TLAPS

---------------------------------------------------------------------------
(* Part 1: the log *)

\* A bounded set of naturals that is not empty has a least element.
LEMMA LeastNatural ==
  ASSUME NEW T, T \subseteq Nat, T # {}
  PROVE  \E m \in T : \A k \in T : m <= k
<1> DEFINE R == OpToRel(<, Nat)
<1>1. IsWellFoundedOn(R, Nat)
  BY NatLessThanWellFounded
<1>2. PICK m \in T : \A k \in T : ~ (<<k, m>> \in R)
  <2> HIDE DEF R
  <2> QED BY <1>1, WFMin, Zenon
<1>3. \A k, l \in Nat : k < l => <<k, l>> \in R
  BY DEF OpToRel
<1>4. \A k \in T : m <= k
  <2> TAKE k \in T
  <2>1. k \in Nat /\ m \in Nat
    OBVIOUS
  <2>2. ~ (k < m)
    <3> HIDE DEF R
    <3> QED BY <1>2, <1>3, <2>1, Zenon
  <2> QED BY <2>1, <2>2
<1> QED BY <1>4

LEMMA GreatestNatural ==
  ASSUME NEW N \in Nat, NEW S, S \subseteq 0..N, S # {}
  PROVE  Max(S) \in S /\ \A k \in S : k <= Max(S)
<1> DEFINE T == {m \in Nat : \A k \in S : k <= m}
<1>1. N \in T
  OBVIOUS
<1>2. PICK m \in T : \A k \in T : m <= k
  <2>1. T # {} /\ T \subseteq Nat
    BY <1>1
  <2> HIDE DEF T
  <2> QED BY <2>1, LeastNatural, Zenon
<1>3. m \in S
  <2> SUFFICES ASSUME m \notin S PROVE FALSE
    OBVIOUS
  <2>1. m > 0
    <3>1. PICK k \in S : k \in 0..N /\ k <= m
      BY <1>2
    <3> QED BY <3>1
  <2>2. m - 1 \in T
    BY <1>2, <2>1
  <2> QED BY <1>2, <2>2
<1>4. \E x \in S : \A y \in S : x >= y
  BY <1>2, <1>3
<1> QED BY <1>4 DEF Max

---------------------------------------------------------------------------

LEMMA EventsOfBounded ==
  ASSUME NEW log \in Seq(Events), NEW n, NEW types
  PROVE  EventsOf(log, n, types) \subseteq 1..Len(log)
BY DEF EventsOf

\* The latest event is one of them, or 0 when there is none.
LEMMA LastOfLatest ==
  ASSUME NEW log \in Seq(Events), NEW n, NEW types
  PROVE  /\ LastOf(log, n, types) \in EventsOf(log, n, types) \cup {0}
         /\ \A i \in EventsOf(log, n, types) : i <= LastOf(log, n, types)
<1> DEFINE S == EventsOf(log, n, types) \cup {0}
<1>1. Len(log) \in Nat /\ S \subseteq 0..Len(log) /\ S # {}
  BY EventsOfBounded
<1>2. Max(S) \in S /\ \A k \in S : k <= Max(S)
  <2> HIDE DEF S
  <2> QED BY <1>1, GreatestNatural, Zenon
<1> QED BY <1>2 DEF LastOf

LEMMA LastOfNatural ==
  ASSUME NEW log \in Seq(Events), NEW n, NEW types
  PROVE  LastOf(log, n, types) \in 0..Len(log)
BY LastOfLatest, EventsOfBounded

LEMMA AppendedLog ==
  ASSUME NEW log \in Seq(Events), NEW e \in Events
  PROVE  /\ Append(log, e) \in Seq(Events)
         /\ Len(Append(log, e)) = Len(log) + 1
         /\ \A i \in 1..Len(log) : Append(log, e)[i] = log[i]
         /\ Append(log, e)[Len(log) + 1] = e
         /\ DOMAIN log = 1..Len(log) /\ DOMAIN Append(log, e) = 1..(Len(log) + 1)
         /\ Len(log) \in Nat
OBVIOUS

\* Appending an event adds its index to the sets it belongs to, and to no other.
LEMMA EventsOfAppend ==
  ASSUME NEW log \in Seq(Events), NEW e \in Events, NEW n, NEW types
  PROVE  EventsOf(Append(log, e), n, types) =
           IF e.node = n /\ e.type \in types THEN EventsOf(log, n, types) \cup {Len(log) + 1}
           ELSE EventsOf(log, n, types)
BY AppendedLog DEF EventsOf

LEMMA LastOfAppend ==
  ASSUME NEW log \in Seq(Events), NEW e \in Events, NEW n, NEW types
  PROVE  LastOf(Append(log, e), n, types) =
           IF e.node = n /\ e.type \in types THEN Len(log) + 1 ELSE LastOf(log, n, types)
<1>1. CASE e.node = n /\ e.type \in types
  <2>1. EventsOf(Append(log, e), n, types) = EventsOf(log, n, types) \cup {Len(log) + 1}
    BY <1>1, EventsOfAppend
  <2>2. EventsOf(log, n, types) \subseteq 1..Len(log)
    BY EventsOfBounded
  <2>3. Append(log, e) \in Seq(Events)
    BY AppendedLog
  <2>4. /\ LastOf(Append(log, e), n, types) \in EventsOf(Append(log, e), n, types) \cup {0}
        /\ \A i \in EventsOf(Append(log, e), n, types) : i <= LastOf(Append(log, e), n, types)
    BY <2>3, LastOfLatest
  <2> QED BY <1>1, <2>1, <2>2, <2>4
<1>2. CASE ~(e.node = n /\ e.type \in types)
  <2>1. EventsOf(Append(log, e), n, types) = EventsOf(log, n, types)
    BY <1>2, EventsOfAppend
  <2>2. LastOf(Append(log, e), n, types) = LastOf(log, n, types)
    BY <2>1, Zenon DEF LastOf
  <2> QED BY <1>2, <2>2
<1> QED BY <1>1, <1>2

LEMMA CountIsNatural ==
  ASSUME NEW log \in Seq(Events), NEW n, NEW types
  PROVE  CountOf(log, n, types) \in Nat
<1>1. IsFiniteSet(1..Len(log))
  BY FS_Interval
<1>2. IsFiniteSet(EventsOf(log, n, types))
  BY <1>1, EventsOfBounded, FS_Subset
<1> QED BY <1>2, FS_CardinalityType DEF CountOf

---------------------------------------------------------------------------
(* The facts the loop re-enters a node by, after one more event *)

Moves == Ended \cup {"node.started", "node.resumed", "interrupt.resolved"}

LEMMA OtherEvent ==
  ASSUME NEW log \in Seq(Events), NEW e \in Events, NEW n, e.node # n \/ e.type \notin Moves
  PROVE  /\ Resumed(Append(log, e), n) = Resumed(log, n)
         /\ Resolved(Append(log, e), n) = Resolved(log, n)
<1>1. /\ ~(e.node = n /\ e.type \in {"node.resumed"})
      /\ ~(e.node = n /\ e.type \in {"interrupt.resolved"})
      /\ ~(e.node = n /\ e.type \in Ended \cup {"node.started"})
      /\ ~(e.node = n /\ e.type \in Ended \cup {"node.started", "node.resumed"})
  BY DEF Moves, Ended
<1>2. /\ LastOf(Append(log, e), n, {"node.resumed"}) = LastOf(log, n, {"node.resumed"})
      /\ LastOf(Append(log, e), n, {"interrupt.resolved"}) = LastOf(log, n, {"interrupt.resolved"})
      /\ LastOf(Append(log, e), n, Ended \cup {"node.started"}) = LastOf(log, n, Ended \cup {"node.started"})
      /\ LastOf(Append(log, e), n, Ended \cup {"node.started", "node.resumed"})
           = LastOf(log, n, Ended \cup {"node.started", "node.resumed"})
  BY <1>1, LastOfAppend
<1> QED BY <1>2 DEF Resumed, Resolved

\* A node that started or ended has nothing pending.
LEMMA StartedOrEnded ==
  ASSUME NEW log \in Seq(Events), NEW e \in Events, e.type \in Ended \cup {"node.started"}
  PROVE  ~Resumed(Append(log, e), e.node) /\ ~Resolved(Append(log, e), e.node)
<1>1. /\ LastOf(Append(log, e), e.node, Ended \cup {"node.started"}) = Len(log) + 1
      /\ LastOf(Append(log, e), e.node, Ended \cup {"node.started", "node.resumed"}) = Len(log) + 1
  BY LastOfAppend
<1>2. /\ Append(log, e) \in Seq(Events)
      /\ Len(Append(log, e)) = Len(log) + 1 /\ Len(log) \in Nat
  BY AppendedLog
<1>3. /\ LastOf(Append(log, e), e.node, {"node.resumed"}) \in 0..Len(log) + 1
      /\ LastOf(Append(log, e), e.node, {"interrupt.resolved"}) \in 0..Len(log) + 1
  BY <1>2, LastOfNatural
<1> QED BY <1>1, <1>2, <1>3 DEF Resumed, Resolved

LEMMA ResolvedEvent ==
  ASSUME NEW log \in Seq(Events), NEW e \in Events, e.type = "interrupt.resolved"
  PROVE  /\ Resumed(Append(log, e), e.node) = Resumed(log, e.node)
         /\ Resolved(Append(log, e), e.node)
         /\ ValOf(Append(log, e), e.node, "interrupt.resolved") = e.val
<1>1. /\ ~(e.type \in {"node.resumed"}) /\ ~(e.type \in Ended \cup {"node.started"})
  BY DEF Ended
<1>2. /\ LastOf(Append(log, e), e.node, {"node.resumed"}) = LastOf(log, e.node, {"node.resumed"})
      /\ LastOf(Append(log, e), e.node, Ended \cup {"node.started"})
           = LastOf(log, e.node, Ended \cup {"node.started"})
  BY <1>1, LastOfAppend
<1>3. ~(e.type \in Ended \cup {"node.started", "node.resumed"})
  BY DEF Ended
<1>4. /\ LastOf(Append(log, e), e.node, {"interrupt.resolved"}) = Len(log) + 1
      /\ LastOf(Append(log, e), e.node, Ended \cup {"node.started", "node.resumed"}) \in 0..Len(log)
  BY <1>3, LastOfAppend, LastOfNatural
<1> QED BY <1>2, <1>4, AppendedLog DEF Resumed, Resolved, ValOf

LEMMA ResumedEvent ==
  ASSUME NEW log \in Seq(Events), NEW e \in Events, e.type = "node.resumed"
  PROVE  ~Resolved(Append(log, e), e.node)
<1>1. LastOf(Append(log, e), e.node, Ended \cup {"node.started", "node.resumed"}) = Len(log) + 1
  BY LastOfAppend
<1>2. /\ Append(log, e) \in Seq(Events)
      /\ Len(Append(log, e)) = Len(log) + 1 /\ Len(log) \in Nat
  BY AppendedLog
<1>3. LastOf(Append(log, e), e.node, {"interrupt.resolved"}) \in 0..Len(log) + 1
  BY <1>2, LastOfNatural
<1> QED BY <1>1, <1>2, <1>3 DEF Resolved

\* What a log shows of an earlier index, a longer one shows too.
LEMMA GrantKept ==
  ASSUME NEW log \in Seq(Events), NEW e \in Events, NEW n, NEW i \in 1..Len(log) + 1,
         GrantedBefore(log, n, i)
  PROVE  GrantedBefore(Append(log, e), n, i)
BY AppendedLog DEF GrantedBefore

LEMMA GrantExtended ==
  ASSUME NEW log \in Seq(Events), NEW e \in Events, NEW n,
         GrantedBefore(log, n, Len(log) + 1),
         e.node = n => e.type \notin Ended \cup {"interrupt.resolved"}
  PROVE  GrantedBefore(Append(log, e), n, Len(log) + 2)
<1>1. PICK j \in 1..Len(log) :
        /\ log[j].type = "interrupt.resolved" /\ log[j].node = n /\ log[j].val = "granted"
        /\ \A k \in j + 1..Len(log) :
             log[k].node = n => log[k].type \notin Ended \cup {"interrupt.resolved"}
  BY AppendedLog DEF GrantedBefore
<1> DEFINE L == Append(log, e)
<1>2. \A k \in j + 1..Len(log) + 1 :
        L[k].node = n => L[k].type \notin Ended \cup {"interrupt.resolved"}
  <2> TAKE k \in j + 1..Len(log) + 1
  <2>1. CASE k = Len(log) + 1
    BY <2>1, AppendedLog
  <2>2. CASE k # Len(log) + 1
    BY <2>2, <1>1, AppendedLog
  <2> QED BY <2>1, <2>2
<1>3. L[j].type = "interrupt.resolved" /\ L[j].node = n /\ L[j].val = "granted"
  BY <1>1, AppendedLog
<1>4. /\ j \in 1..(Len(log) + 2) - 1
      /\ j + 1..(Len(log) + 2) - 1 = j + 1..Len(log) + 1
  OBVIOUS
<1> HIDE DEF L
<1>5. GrantedBefore(L, n, Len(log) + 2)
  BY <1>2, <1>3, <1>4 DEF GrantedBefore
<1> QED BY <1>5 DEF L

\* The latest decision, when it is a grant nothing has acted upon.
LEMMA ResolvedGranted ==
  ASSUME NEW log \in Seq(Events), NEW n, Resolved(log, n), ValOf(log, n, "interrupt.resolved") = "granted"
  PROVE  GrantedBefore(log, n, Len(log) + 1)
<1> DEFINE j == LastOf(log, n, {"interrupt.resolved"})
           m == LastOf(log, n, Ended \cup {"node.started", "node.resumed"})
<1>1. /\ j \in EventsOf(log, n, {"interrupt.resolved"}) \cup {0}
      /\ \A i \in EventsOf(log, n, {"interrupt.resolved"}) : i <= j
      /\ \A i \in EventsOf(log, n, Ended \cup {"node.started", "node.resumed"}) : i <= m
      /\ j \in 0..Len(log) /\ m \in 0..Len(log) /\ m < j
  BY LastOfLatest, LastOfNatural DEF Resolved
<1>2. j \in 1..Len(log) /\ log[j].type = "interrupt.resolved" /\ log[j].node = n
  BY <1>1 DEF EventsOf
<1>3. log[j].val = "granted"
  BY DEF ValOf
<1>4. \A k \in j + 1..Len(log) :
        log[k].node = n => log[k].type \notin Ended \cup {"interrupt.resolved"}
  <2> SUFFICES ASSUME NEW k \in j + 1..Len(log), log[k].node = n,
                      log[k].type \in Ended \cup {"interrupt.resolved"}
               PROVE  FALSE
    OBVIOUS
  <2>1. \/ k \in EventsOf(log, n, {"interrupt.resolved"})
        \/ k \in EventsOf(log, n, Ended \cup {"node.started", "node.resumed"})
    BY <1>1 DEF EventsOf
  <2> QED BY <1>1, <2>1
<1> HIDE DEF j
<1> QED BY <1>1, <1>2, <1>3, <1>4 DEF GrantedBefore

---------------------------------------------------------------------------
(* Part 2: the rows *)

---------------------------------------------------------------------------
(* One statement *)

LEMMA EmitTyped ==
  ASSUME NEW d \in Rows, NEW type \in EventTypes, NEW n \in Node \cup {NoNode}, NEW val \in Vals, NEW visit \in Nat
  PROVE  LET e == [type |-> type, node |-> n, val |-> val, visit |-> visit]
             is == Emit(d, type, n, val, visit)
         IN  /\ e \in Events
             /\ is \in Rows
             /\ is.log = Append(d.log, e)
             /\ is.status = d.status /\ is.open = d.open /\ is.minted = d.minted
             /\ d.log \in Seq(Events)
<1> DEFINE e == [type |-> type, node |-> n, val |-> val, visit |-> visit]
<1>1. e \in Events
  BY DEF Events
<1>2. d.log \in Seq(Events) /\ Append(d.log, e) \in Seq(Events)
  BY <1>1, AppendedLog DEF Rows
<1> DEFINE is == [d EXCEPT !.log = Append(d.log, e)]
<1>3. Emit(d, type, n, val, visit) = is
  BY DEF Emit
<1> HIDE DEF e
<1>4. /\ is \in Rows /\ is.log = Append(d.log, e)
      /\ is.status = d.status /\ is.open = d.open /\ is.minted = d.minted
  BY <1>2 DEF Rows
<1> QED BY <1>1, <1>2, <1>3, <1>4 DEF e

LEMMA WitnessKept ==
  ASSUME NEW d \in Rows, NEW is \in Rows, NEW e \in Events, Witnessed(d),
         is.log = Append(d.log, e), is.status = d.status
  PROVE  Witnessed(is)
<1>1. \A types : EventsOfType(d.log, types) # {} => EventsOfType(is.log, types) # {}
  BY AppendedLog DEF EventsOfType, Rows
<1> QED BY <1>1 DEF Witnessed

\* An event that decides nothing and resumes nothing; a gate completes on a grant.
LEMMA EmitKeeps ==
  ASSUME NEW w, NEW d, RowInv(w, d),
         NEW type \in EventTypes \ {"node.resumed", "interrupt.resolved"},
         NEW n \in Node \cup {NoNode}, NEW val \in Vals, NEW visit \in Nat,
         type = "node.completed" /\ n \in Gates(w) => GrantedBefore(d.log, n, Len(d.log) + 1)
  PROVE  RowInv(w, Emit(d, type, n, val, visit))
<1> DEFINE e == [type |-> type, node |-> n, val |-> val, visit |-> visit]
           is == Emit(d, type, n, val, visit)
<1>1. /\ d \in Rows /\ e \in Events /\ is \in Rows /\ is.log = Append(d.log, e)
      /\ is.status = d.status /\ is.open = d.open /\ is.minted = d.minted
      /\ d.log \in Seq(Events) /\ e.type = type /\ e.node = n
  BY EmitTyped DEF RowInv
<1> HIDE DEF e, is
<1>2. Witnessed(is)
  BY <1>1, WitnessKept DEF RowInv
<1>3. EventsOfType(is.log, {"interrupt.resolved"}) = EventsOfType(d.log, {"interrupt.resolved"})
  BY <1>1, AppendedLog DEF EventsOfType
<1>4. \A i \in 1..Len(d.log) : is.log[i] = d.log[i]
  BY <1>1, AppendedLog
<1>5. DecisionsClosed(is) /\ DecidedOnce(is)
  <2>1. DecisionsClosed(d) /\ DecidedOnce(d)
    BY DEF RowInv
  <2>2. EventsOfType(d.log, {"interrupt.resolved"}) \subseteq 1..Len(d.log)
    BY <1>1 DEF EventsOfType
  <2> QED BY <1>1, <1>3, <1>4, <2>1, <2>2 DEF DecisionsClosed, DecidedOnce
<1>6. \A m \in Node : Visit(is.log, m) = Visit(d.log, m)
  BY <1>1, EventsOfAppend DEF Visit, CountOf
<1>7. \A m \in Node : /\ Resumed(is.log, m) => Resumed(d.log, m)
                      /\ Resolved(is.log, m) => Resolved(d.log, m)
  <2> TAKE m \in Node
  <2>1. CASE e.node # m \/ e.type \notin Moves
    BY <1>1, <2>1, OtherEvent
  <2>2. CASE e.node = m /\ e.type \in Moves
    <3>1. e.type \in Ended \cup {"node.started"}
      BY <1>1, <2>2 DEF Moves, Ended
    <3> QED BY <1>1, <2>2, <3>1, StartedOrEnded
  <2> QED BY <2>1, <2>2
<1>8. OpenIsCurrent(w, is)
  BY <1>1, <1>6, <1>7 DEF RowInv, OpenIsCurrent, Gates
<1>9. ResumedIsGranted(w, is)
  <2> SUFFICES ASSUME NEW m \in Gates(w), Resumed(is.log, m)
               PROVE  GrantedBefore(is.log, m, Len(is.log) + 1)
    BY DEF ResumedIsGranted
  <2>1. GrantedBefore(d.log, m, Len(d.log) + 1)
    BY <1>7 DEF RowInv, ResumedIsGranted, Gates
  <2>2. e.node = m => e.type \notin Ended \cup {"interrupt.resolved"}
    <3>1. e.node = m => e.type \notin Ended
      BY <1>1, StartedOrEnded
    <3> QED BY <1>1, <3>1
  <2>3. GrantedBefore(is.log, m, Len(d.log) + 2)
    BY <1>1, <2>1, <2>2, GrantExtended
  <2>4. Len(is.log) + 1 = Len(d.log) + 2
    BY <1>1, AppendedLog
  <2> QED BY <2>3, <2>4
<1>10. Gated(w, is)
  <2> SUFFICES ASSUME NEW i \in EventsOfType(is.log, {"node.completed"}), is.log[i].node \in Gates(w)
               PROVE  GrantedBefore(is.log, is.log[i].node, i)
    BY DEF Gated
  <2>1. CASE i \in 1..Len(d.log)
    <3>1. i \in EventsOfType(d.log, {"node.completed"}) /\ d.log[i].node \in Gates(w)
      BY <1>1, <1>4, <2>1 DEF EventsOfType
    <3>2. GrantedBefore(d.log, d.log[i].node, i)
      BY <3>1 DEF RowInv, Gated
    <3> QED BY <1>1, <1>4, <2>1, <3>2, GrantKept
  <2>2. CASE i \notin 1..Len(d.log)
    <3>1. i = Len(d.log) + 1 /\ is.log[i] = e /\ i \in 1..Len(d.log) + 1 /\ e.type = "node.completed"
      BY <1>1, <2>2, AppendedLog DEF EventsOfType
    <3>2. GrantedBefore(d.log, n, i)
      BY <1>1, <3>1
    <3> QED BY <1>1, <3>1, <3>2, GrantKept
  <2> QED BY <2>1, <2>2
<1> QED BY <1>1, <1>2, <1>5, <1>8, <1>9, <1>10 DEF RowInv, is

\* A resolution resumes its node; a gate resumes only on a grant.
LEMMA EmitResumed ==
  ASSUME NEW w, NEW d, RowInv(w, d), NEW n \in Node, NEW val \in Vals,
         n \in Gates(w) => Resolved(d.log, n) /\ ValOf(d.log, n, "interrupt.resolved") = "granted"
  PROVE  /\ RowInv(w, Emit(d, "node.resumed", n, val, 0))
         /\ n \in Gates(w) => LET is == Emit(d, "node.resumed", n, val, 0)
                             IN  GrantedBefore(is.log, n, Len(is.log) + 1)
<1> DEFINE e == [type |-> "node.resumed", node |-> n, val |-> val, visit |-> 0]
           is == Emit(d, "node.resumed", n, val, 0)
<1>1. /\ d \in Rows /\ e \in Events /\ is \in Rows /\ is.log = Append(d.log, e)
      /\ is.status = d.status /\ is.open = d.open /\ is.minted = d.minted
      /\ d.log \in Seq(Events) /\ e.type = "node.resumed" /\ e.node = n
  <2>1. d \in Rows /\ "node.resumed" \in EventTypes /\ n \in Node \cup {NoNode} /\ 0 \in Nat
    BY DEF RowInv, EventTypes
  <2> QED BY <2>1, EmitTyped
<1> HIDE DEF e, is
<1>2. Witnessed(is)
  BY <1>1, WitnessKept DEF RowInv
<1>3. \A t \in {"interrupt.resolved", "node.completed"} : EventsOfType(is.log, {t}) = EventsOfType(d.log, {t})
  BY <1>1, AppendedLog DEF EventsOfType
<1>4. \A i \in 1..Len(d.log) : is.log[i] = d.log[i]
  BY <1>1, AppendedLog
<1>5. DecisionsClosed(is) /\ DecidedOnce(is)
  <2>1. DecisionsClosed(d) /\ DecidedOnce(d)
    BY DEF RowInv
  <2>2. EventsOfType(d.log, {"interrupt.resolved"}) \subseteq 1..Len(d.log)
    BY <1>1 DEF EventsOfType
  <2> QED BY <1>1, <1>3, <1>4, <2>1, <2>2 DEF DecisionsClosed, DecidedOnce
<1>6. \A m \in Node : Visit(is.log, m) = Visit(d.log, m)
  BY <1>1, EventsOfAppend DEF Visit, CountOf
<1>7. \A m \in Node : m # n => /\ Resumed(is.log, m) = Resumed(d.log, m)
                               /\ Resolved(is.log, m) = Resolved(d.log, m)
  BY <1>1, OtherEvent
<1>8. OpenIsCurrent(w, is)
  <2>1. n \in Gates(w) => \A key \in d.open : key[1] # n
    BY DEF RowInv, OpenIsCurrent
  <2> QED BY <1>1, <1>6, <1>7, <2>1 DEF RowInv, OpenIsCurrent, Gates
<1>9. /\ Len(is.log) + 1 = Len(d.log) + 2
      /\ \A m \in Gates(w) : GrantedBefore(d.log, m, Len(d.log) + 1)
           => GrantedBefore(is.log, m, Len(d.log) + 2)
  <2>1. e.type \notin Ended \cup {"interrupt.resolved"}
    BY <1>1 DEF Ended
  <2> QED BY <1>1, <2>1, AppendedLog, GrantExtended
<1>10. n \in Gates(w) => GrantedBefore(is.log, n, Len(is.log) + 1)
  BY <1>1, <1>9, ResolvedGranted
<1>11. ResumedIsGranted(w, is)
  BY <1>7, <1>9, <1>10 DEF RowInv, ResumedIsGranted, Gates
<1>12. Gated(w, is)
  <2>1. \A i \in EventsOfType(d.log, {"node.completed"}) : i \in 1..Len(d.log) /\ is.log[i] = d.log[i]
    BY <1>1, <1>4 DEF EventsOfType
  <2> SUFFICES ASSUME NEW i \in EventsOfType(d.log, {"node.completed"}), d.log[i].node \in Gates(w)
               PROVE  GrantedBefore(is.log, d.log[i].node, i)
    BY <1>3, <2>1 DEF Gated
  <2>2. GrantedBefore(d.log, d.log[i].node, i)
    BY DEF RowInv, Gated
  <2> QED BY <1>1, <2>1, <2>2, GrantKept
<1> QED BY <1>1, <1>2, <1>5, <1>8, <1>10, <1>11, <1>12 DEF RowInv, is

\* A decision on an interrupt just claimed.
LEMMA EmitResolved ==
  ASSUME NEW w, NEW d, RowInv(w, d), NEW n \in Node, NEW val \in {"granted", "rejected"}, NEW visit \in Nat,
         <<n, visit>> \in d.minted \ d.open,
         \A i \in EventsOfType(d.log, {"interrupt.resolved"}) :
           ~(d.log[i].node = n /\ d.log[i].visit = visit),
         n \in Gates(w) => ~Resumed(d.log, n) /\ \A key \in d.open : key[1] # n
  PROVE  RowInv(w, Emit(d, "interrupt.resolved", n, val, visit))
<1> DEFINE e == [type |-> "interrupt.resolved", node |-> n, val |-> val, visit |-> visit]
           is == Emit(d, "interrupt.resolved", n, val, visit)
<1>1. /\ d \in Rows /\ e \in Events /\ is \in Rows /\ is.log = Append(d.log, e)
      /\ is.status = d.status /\ is.open = d.open /\ is.minted = d.minted
      /\ d.log \in Seq(Events)
      /\ e.type = "interrupt.resolved" /\ e.node = n /\ e.val = val /\ e.visit = visit
  <2>1. d \in Rows /\ "interrupt.resolved" \in EventTypes /\ n \in Node \cup {NoNode} /\ val \in Vals
    BY DEF RowInv, Vals, EventTypes
  <2> QED BY <2>1, EmitTyped
<1> HIDE DEF e, is
<1>2. Witnessed(is)
  BY <1>1, WitnessKept DEF RowInv
<1>3. /\ EventsOfType(is.log, {"interrupt.resolved"})
           = EventsOfType(d.log, {"interrupt.resolved"}) \cup {Len(d.log) + 1}
      /\ EventsOfType(is.log, {"node.completed"}) = EventsOfType(d.log, {"node.completed"})
      /\ EventsOfType(d.log, {"interrupt.resolved"}) \subseteq 1..Len(d.log)
      /\ Len(d.log) \in Nat
  BY <1>1, AppendedLog DEF EventsOfType
<1>4. /\ \A i \in 1..Len(d.log) : is.log[i] = d.log[i]
      /\ is.log[Len(d.log) + 1] = e
  BY <1>1, AppendedLog
<1>5. DecisionsClosed(is)
  BY <1>1, <1>3, <1>4 DEF RowInv, DecisionsClosed
<1>6. DecidedOnce(is)
  BY <1>1, <1>3, <1>4 DEF RowInv, DecidedOnce
<1>7. \A m \in Node : m # n => /\ Visit(is.log, m) = Visit(d.log, m)
                               /\ Resumed(is.log, m) = Resumed(d.log, m)
                               /\ Resolved(is.log, m) = Resolved(d.log, m)
  BY <1>1, OtherEvent, EventsOfAppend DEF Visit, CountOf
<1>8. OpenIsCurrent(w, is)
  BY <1>1, <1>7 DEF RowInv, OpenIsCurrent, Gates
<1>9. n \in Gates(w) => ~Resumed(is.log, n)
  BY <1>1, ResolvedEvent
<1>10. ResumedIsGranted(w, is)
  <2> SUFFICES ASSUME NEW m \in Gates(w), m # n, Resumed(is.log, m)
               PROVE  GrantedBefore(is.log, m, Len(is.log) + 1)
    BY <1>9 DEF ResumedIsGranted
  <2>1. GrantedBefore(d.log, m, Len(d.log) + 1)
    BY <1>7 DEF RowInv, ResumedIsGranted, Gates
  <2>2. GrantedBefore(is.log, m, Len(d.log) + 2)
    BY <1>1, <2>1, GrantExtended
  <2>3. Len(is.log) + 1 = Len(d.log) + 2
    BY <1>1, AppendedLog
  <2> QED BY <2>2, <2>3
<1>11. Gated(w, is)
  <2>1. \A i \in EventsOfType(d.log, {"node.completed"}) : i \in 1..Len(d.log) /\ is.log[i] = d.log[i]
    BY <1>1, <1>4 DEF EventsOfType
  <2> SUFFICES ASSUME NEW i \in EventsOfType(d.log, {"node.completed"}), d.log[i].node \in Gates(w)
               PROVE  GrantedBefore(is.log, d.log[i].node, i)
    BY <1>3, <2>1 DEF Gated
  <2>2. GrantedBefore(d.log, d.log[i].node, i)
    BY DEF RowInv, Gated
  <2> QED BY <1>1, <2>1, <2>2, GrantKept
<1> QED BY <1>1, <1>2, <1>5, <1>6, <1>8, <1>10, <1>11 DEF RowInv, is

\* A statement that leaves the log alone and closes interrupts, or none.
LEMMA SameLog ==
  ASSUME NEW w, NEW d, RowInv(w, d), NEW is \in Rows, Witnessed(is),
         is.log = d.log, is.minted = d.minted, is.open \subseteq d.open
  PROVE  RowInv(w, is)
BY DEF RowInv, DecisionsClosed, DecidedOnce, OpenIsCurrent, ResumedIsGranted, Gated

LEMMA SetStatusKeeps ==
  ASSUME NEW w, NEW d, RowInv(w, d), NEW s \in Statuses \ Terminal
  PROVE  RowInv(w, SetStatus(d, s))
<1> DEFINE is == SetStatus(d, s)
<1>1. /\ d \in Rows /\ is \in Rows /\ is.status = s
      /\ is.log = d.log /\ is.minted = d.minted /\ is.open = d.open
  BY DEF RowInv, Rows, SetStatus
<1>2. Witnessed(is)
  BY <1>1 DEF Witnessed, Terminal
<1> HIDE DEF is
<1>3. RowInv(w, is)
  BY <1>1, <1>2, SameLog
<1> QED BY <1>3 DEF is

LEMMA ClaimKeeps ==
  ASSUME NEW w, NEW d, RowInv(w, d), NEW key
  PROVE  /\ RowInv(w, Claim(d, key))
         /\ Claim(d, key).log = d.log /\ Claim(d, key).minted = d.minted
         /\ Claim(d, key).open = d.open \ {key}
<1> DEFINE is == Claim(d, key)
<1>1. /\ d \in Rows /\ is \in Rows /\ is.status = d.status
      /\ is.log = d.log /\ is.minted = d.minted /\ is.open = d.open \ {key}
  BY DEF RowInv, Rows, Claim
<1>2. Witnessed(is)
  BY <1>1 DEF RowInv, Witnessed
<1> HIDE DEF is
<1>3. RowInv(w, is)
  BY <1>1, <1>2, SameLog
<1> QED BY <1>1, <1>3 DEF is

LEMMA InvalidateKeeps ==
  ASSUME NEW w, NEW d, RowInv(w, d)
  PROVE  RowInv(w, Invalidate(d)) /\ Invalidate(d).log = d.log
<1> DEFINE is == Invalidate(d)
<1>1. /\ d \in Rows /\ is \in Rows /\ is.status = d.status
      /\ is.log = d.log /\ is.minted = d.minted /\ is.open = {}
  BY DEF RowInv, Rows, Invalidate
<1>2. Witnessed(is)
  BY <1>1 DEF RowInv, Witnessed
<1> HIDE DEF is
<1>3. RowInv(w, is)
  BY <1>1, <1>2, SameLog
<1> QED BY <1>1, <1>3 DEF is

\* Minting opens an interrupt whose key was not there before.
LEMMA MintKeeps ==
  ASSUME NEW w, NEW d, RowInv(w, d), NEW n \in Node, NEW visit \in Nat,
         n \in Gates(w) => visit = Visit(d.log, n) /\ ~Resumed(d.log, n) /\ ~Resolved(d.log, n)
  PROVE  RowInv(w, Mint(d, <<n, visit>>))
<1> DEFINE key == <<n, visit>>
           is == Mint(d, key)
<1>1. CASE key \in d.minted
  BY <1>1 DEF Mint
<1>2. CASE key \notin d.minted
  <2>1. /\ d \in Rows /\ is \in Rows /\ is.status = d.status /\ is.log = d.log
        /\ is.minted = d.minted \cup {key} /\ is.open = d.open \cup {key}
    <3>1. key \in Node \X Nat
      OBVIOUS
    <3> HIDE DEF key
    <3> QED BY <1>2, <3>1 DEF RowInv, Rows, Mint
  <2>2. key[1] = n /\ key[2] = visit
    OBVIOUS
  <2> HIDE DEF is, key
  <2>3. Witnessed(is) /\ DecidedOnce(is) /\ ResumedIsGranted(w, is) /\ Gated(w, is)
    BY <2>1 DEF RowInv, Witnessed, DecidedOnce, ResumedIsGranted, Gated
  <2>4. DecisionsClosed(is)
    BY <1>2, <2>1 DEF RowInv, DecisionsClosed
  <2>5. OpenIsCurrent(w, is)
    BY <2>1, <2>2 DEF RowInv, OpenIsCurrent
  <2>6. RowInv(w, is)
    BY <2>1, <2>3, <2>4, <2>5 DEF RowInv
  <2> QED BY <2>6 DEF is, key
<1> QED BY <1>1, <1>2

---------------------------------------------------------------------------
(* Sequences of statements *)

\* Every image is consistent.
Sound(w, imgs) == imgs \in Seq(Rows) /\ \A i \in 1..Len(imgs) : RowInv(w, imgs[i])

LEMMA SoundFinal ==
  ASSUME NEW w, NEW d, RowInv(w, d), NEW imgs, Sound(w, imgs)
  PROVE  RowInv(w, Final(d, imgs))
BY DEF Sound, Final

LEMMA SoundNone ==
  ASSUME NEW w
  PROVE  Sound(w, <<>>)
BY DEF Sound

LEMMA SoundOne ==
  ASSUME NEW w, NEW d, RowInv(w, d)
  PROVE  Sound(w, <<d>>) /\ \A f : Final(f, <<d>>) = d
BY DEF Sound, RowInv, Final

LEMMA SoundTwo ==
  ASSUME NEW w, NEW d1, NEW d2, RowInv(w, d1), RowInv(w, d2)
  PROVE  Sound(w, <<d1, d2>>) /\ \A f : Final(f, <<d1, d2>>) = d2
BY DEF Sound, RowInv, Final

LEMMA SoundThree ==
  ASSUME NEW w, NEW d1, NEW d2, NEW d3, RowInv(w, d1), RowInv(w, d2), RowInv(w, d3)
  PROVE  Sound(w, <<d1, d2, d3>>) /\ \A f : Final(f, <<d1, d2, d3>>) = d3
<1>1. <<d1, d2, d3>> \in Seq(Rows)
  BY DEF RowInv
<1>2. \A i \in 1..3 : RowInv(w, <<d1, d2, d3>>[i])
  <2> TAKE i \in 1..3
  <2>1. i = 1 \/ i = 2 \/ i = 3
    OBVIOUS
  <2> QED BY <2>1
<1> QED BY <1>1, <1>2 DEF Sound, Final

LEMMA SoundFour ==
  ASSUME NEW w, NEW d1, NEW d2, NEW d3, NEW d4,
         RowInv(w, d1), RowInv(w, d2), RowInv(w, d3), RowInv(w, d4)
  PROVE  Sound(w, <<d1, d2, d3, d4>>)
<1>1. <<d1, d2, d3, d4>> \in Seq(Rows)
  BY DEF RowInv
<1>2. \A i \in 1..4 : RowInv(w, <<d1, d2, d3, d4>>[i])
  <2> TAKE i \in 1..4
  <2>1. i = 1 \/ i = 2 \/ i = 3 \/ i = 4
    OBVIOUS
  <2> QED BY <2>1
<1> QED BY <1>1, <1>2 DEF Sound

LEMMA SoundConcat ==
  ASSUME NEW w, NEW imgs, NEW more, Sound(w, imgs), Sound(w, more)
  PROVE  Sound(w, imgs \o more)
<1>1. /\ imgs \o more \in Seq(Rows)
      /\ Len(imgs \o more) = Len(imgs) + Len(more)
      /\ \A i \in 1..Len(imgs) + Len(more) :
           (imgs \o more)[i] = IF i <= Len(imgs) THEN imgs[i] ELSE more[i - Len(imgs)]
      /\ Len(imgs) \in Nat /\ Len(more) \in Nat
  BY ConcatProperties, LenProperties DEF Sound
<1>2. \A i \in 1..Len(imgs) + Len(more) : RowInv(w, (imgs \o more)[i])
  <2> TAKE i \in 1..Len(imgs) + Len(more)
  <2>1. CASE i <= Len(imgs)
    BY <1>1, <2>1 DEF Sound
  <2>2. CASE i > Len(imgs)
    <3>1. i - Len(imgs) \in 1..Len(more) /\ ~(i <= Len(imgs))
      BY <1>1, <2>2
    <3> QED BY <1>1, <3>1 DEF Sound
  <2> QED BY <1>1, <2>1, <2>2
<1> QED BY <1>1, <1>2 DEF Sound

---------------------------------------------------------------------------
(* The scripts of the code *)

Inert == EventTypes \ {"node.completed", "node.resumed", "interrupt.resolved"}

LEMMA EmitRunKeeps ==
  ASSUME NEW w, NEW d, RowInv(w, d), NEW type \in Inert
  PROVE  RowInv(w, EmitRun(d, type)) /\ EventsOfType(EmitRun(d, type).log, {type}) # {}
<1>1. type \in EventTypes \ {"node.resumed", "interrupt.resolved"} /\ type # "node.completed"
      /\ "none" \in Vals /\ NoNode \in Node \cup {NoNode} /\ 0 \in Nat /\ d \in Rows
  BY DEF Inert, Vals, RowInv
<1>2. RowInv(w, EmitRun(d, type))
  BY <1>1, EmitKeeps DEF EmitRun
<1>3. /\ [type |-> type, node |-> NoNode, val |-> "none", visit |-> 0] \in Events
      /\ EmitRun(d, type).log = Append(d.log, [type |-> type, node |-> NoNode, val |-> "none", visit |-> 0])
      /\ d.log \in Seq(Events)
  BY <1>1, EmitTyped DEF EmitRun
<1>4. Len(d.log) + 1 \in EventsOfType(EmitRun(d, type).log, {type})
  BY <1>3, AppendedLog DEF EventsOfType
<1> QED BY <1>2, <1>4

LEMMA EmitNodeKeeps ==
  ASSUME NEW w, NEW d, RowInv(w, d), NEW type \in Inert, NEW n \in Node, NEW val \in Vals, NEW visit \in Nat
  PROVE  RowInv(w, Emit(d, type, n, val, visit))
<1>1. type \in EventTypes \ {"node.resumed", "interrupt.resolved"} /\ type # "node.completed"
  BY DEF Inert
<1> QED BY <1>1, EmitKeeps

LEMMA EmitNoValueKeeps ==
  ASSUME NEW w, NEW d, RowInv(w, d), NEW type \in Inert, NEW n \in Node
  PROVE  RowInv(w, EmitNode(d, type, n))
BY EmitNodeKeeps DEF EmitNode, Vals

\* The status of the end follows its event.
LEMMA EndKeeps ==
  ASSUME NEW w, NEW d, RowInv(w, d), NEW is \in Rows,
         is.log = d.log, is.minted = d.minted, is.open = d.open,
         \/ is.status = "completed" /\ EventsOfType(d.log, {"run.completed"}) # {}
         \/ is.status = "failed" /\ EventsOfType(d.log, {"run.failed"}) # {}
         \/ is.status = "cancelled" /\ EventsOfType(d.log, {"run.cancelled"}) # {}
  PROVE  RowInv(w, is)
<1>1. Witnessed(is)
  BY DEF Witnessed
<1> QED BY <1>1, SameLog

LEMMA RunFailedSound ==
  ASSUME NEW w, NEW d, RowInv(w, d)
  PROVE  Sound(w, RunFailed(d))
<1> DEFINE d1 == EmitRun(d, "run.failed")
           d2 == Invalidate(d1)
           d3 == SetStatus(d2, "failed")
<1>1. RowInv(w, d1) /\ EventsOfType(d1.log, {"run.failed"}) # {}
  BY EmitRunKeeps DEF Inert, EventTypes
<1> HIDE DEF d1
<1>2. RowInv(w, d2) /\ d2.log = d1.log
  BY <1>1, InvalidateKeeps
<1> HIDE DEF d2
<1>3. /\ d3 \in Rows /\ d3.status = "failed"
      /\ d3.log = d2.log /\ d3.minted = d2.minted /\ d3.open = d2.open
  BY <1>2 DEF RowInv, Rows, SetStatus, Statuses, Terminal
<1> HIDE DEF d3
<1>4. RowInv(w, d3)
  BY <1>1, <1>2, <1>3, EndKeeps
<1>5. Sound(w, <<d1, d2, d3>>)
  BY <1>1, <1>2, <1>4, SoundThree
<1> QED BY <1>5 DEF RunFailed, d1, d2, d3

LEMMA RunCompletedSound ==
  ASSUME NEW w, NEW d, RowInv(w, d)
  PROVE  Sound(w, RunCompleted(d))
<1> DEFINE d1 == EmitRun(d, "run.completed")
           d2 == Invalidate(d1)
           d3 == SetStatus(d2, "completed")
<1>1. RowInv(w, d1) /\ EventsOfType(d1.log, {"run.completed"}) # {}
  BY EmitRunKeeps DEF Inert, EventTypes
<1> HIDE DEF d1
<1>2. RowInv(w, d2) /\ d2.log = d1.log
  BY <1>1, InvalidateKeeps
<1> HIDE DEF d2
<1>3. /\ d3 \in Rows /\ d3.status = "completed"
      /\ d3.log = d2.log /\ d3.minted = d2.minted /\ d3.open = d2.open
  BY <1>2 DEF RowInv, Rows, SetStatus, Statuses, Terminal
<1> HIDE DEF d3
<1>4. RowInv(w, d3)
  BY <1>1, <1>2, <1>3, EndKeeps
<1>5. Sound(w, <<d1, d2, d3>>)
  BY <1>1, <1>2, <1>4, SoundThree
<1> QED BY <1>5 DEF RunCompleted, d1, d2, d3

LEMMA TerminalCancelSound ==
  ASSUME NEW w, NEW d, RowInv(w, d)
  PROVE  Sound(w, TerminalCancel(d))
<1> DEFINE d1 == EmitRun(d, "run.cancelled")
           d2 == Invalidate(d1)
           d3 == [d2 EXCEPT !.status = "cancelled", !.cancel = FALSE, !.pause = FALSE]
<1>1. RowInv(w, d1) /\ EventsOfType(d1.log, {"run.cancelled"}) # {}
  BY EmitRunKeeps DEF Inert, EventTypes
<1> HIDE DEF d1
<1>2. RowInv(w, d2) /\ d2.log = d1.log
  BY <1>1, InvalidateKeeps
<1> HIDE DEF d2
<1>3. /\ d3 \in Rows /\ d3.status = "cancelled"
      /\ d3.log = d2.log /\ d3.minted = d2.minted /\ d3.open = d2.open
  BY <1>2 DEF RowInv, Rows, Statuses, Terminal
<1> HIDE DEF d3
<1>4. RowInv(w, d3)
  BY <1>1, <1>2, <1>3, EndKeeps
<1>5. Sound(w, <<d1, d2, d3>>)
  BY <1>1, <1>2, <1>4, SoundThree
<1> QED BY <1>5 DEF TerminalCancel, d1, d2, d3

LEMMA UnwindSound ==
  ASSUME NEW w, NEW d, RowInv(w, d)
  PROVE  Sound(w, Unwind(w, d))
<1> DEFINE d1 == EmitRun(d, "compensation.requested")
           d2 == EmitRun(d1, "compensation.started")
           d3 == EmitRun(d2, "compensation.completed")
<1>1. RowInv(w, d1)
  BY EmitRunKeeps DEF Inert, EventTypes
<1> HIDE DEF d1
<1>2. RowInv(w, d2)
  BY <1>1, EmitRunKeeps DEF Inert, EventTypes
<1> HIDE DEF d2
<1>3. RowInv(w, d3)
  BY <1>2, EmitRunKeeps DEF Inert, EventTypes
<1> HIDE DEF d3
<1>4. Sound(w, <<d1, d2, d3>>) /\ Sound(w, <<>>)
  BY <1>1, <1>2, <1>3, SoundThree, SoundNone
<1> QED BY <1>4 DEF Unwind, d1, d2, d3

LEMMA FailNodeSound ==
  ASSUME NEW w, NEW d, RowInv(w, d), NEW n \in Node, NEW routable \in BOOLEAN
  PROVE  Sound(w, FailNode(w, d, n, routable))
<1> DEFINE d1 == EmitNode(d, "node.failed", n)
           unwound == Unwind(w, d1)
           ended == RunFailed(Final(d1, unwound))
<1>1. RowInv(w, d1)
  BY EmitNoValueKeeps DEF Inert, EventTypes
<1> HIDE DEF d1
<1>2. Sound(w, <<d1>>) /\ Sound(w, unwound)
  BY <1>1, SoundOne, UnwindSound
<1>3. Sound(w, ended)
  <2>1. RowInv(w, Final(d1, unwound))
    BY <1>1, <1>2, SoundFinal
  <2> QED BY <2>1, RunFailedSound
<1> HIDE DEF unwound, ended
<1>4. Sound(w, (<<d1>> \o unwound) \o ended)
  <2>1. Sound(w, <<d1>> \o unwound)
    BY <1>2, SoundConcat
  <2> QED BY <1>3, <2>1, SoundConcat
<1> QED BY <1>2, <1>4 DEF FailNode, d1, unwound, ended

LEMMA PausedSound ==
  ASSUME NEW w, NEW d, RowInv(w, d)
  PROVE  Sound(w, Paused(d))
<1> DEFINE d1 == EmitRun(d, "run.paused")
           d2 == [d1 EXCEPT !.status = "paused", !.pause = FALSE]
<1>1. RowInv(w, d1)
  BY EmitRunKeeps DEF Inert, EventTypes
<1> HIDE DEF d1
<1>2. /\ d2 \in Rows /\ d2.status = "paused"
      /\ d2.log = d1.log /\ d2.minted = d1.minted /\ d2.open = d1.open
  BY <1>1 DEF RowInv, Rows, Statuses
<1> HIDE DEF d2
<1>3. Witnessed(d2)
  BY <1>2 DEF Witnessed
<1>4. RowInv(w, d2)
  BY <1>1, <1>2, <1>3, SameLog
<1>5. Sound(w, <<d1, d2>>)
  BY <1>1, <1>4, SoundTwo
<1> QED BY <1>5 DEF Paused, d1, d2

\* A node suspends: as the interrupt of a gate, on the visit that just began.
LEMMA SuspendSound ==
  ASSUME NEW w, NEW d, RowInv(w, d), NEW n \in Node, NEW visit \in Nat,
         n \in Gates(w) => visit = Visit(d.log, n) /\ ~Resumed(d.log, n) /\ ~Resolved(d.log, n)
  PROVE  Sound(w, Suspend(w, d, n, visit))
<1> DEFINE d1 == Mint(d, <<n, visit>>)
           d2 == Emit(d1, "interrupt.requested", n, "none", visit)
           d3 == Emit(d2, "node.suspended", n, "none", visit)
           d4 == SetStatus(d3, IF w.kind[n] = "approval" THEN "waiting-approval" ELSE "waiting-input")
<1>0. {"interrupt.requested", "node.suspended"} \subseteq Inert /\ "none" \in Vals
      /\ {"waiting-approval", "waiting-input"} \subseteq Statuses \ Terminal
  BY DEF Inert, EventTypes, Vals, Statuses, Waiting, Terminal
<1>1. RowInv(w, d1)
  BY MintKeeps
<1> HIDE DEF d1
<1>2. RowInv(w, d2)
  BY <1>0, <1>1, EmitNodeKeeps
<1> HIDE DEF d2
<1>3. RowInv(w, d3)
  BY <1>0, <1>2, EmitNodeKeeps
<1> HIDE DEF d3
<1>4. RowInv(w, d4)
  BY <1>0, <1>3, SetStatusKeeps
<1> HIDE DEF d4
<1>5. Sound(w, <<d1, d2, d3, d4>>)
  BY <1>1, <1>2, <1>3, <1>4, SoundFour
<1> QED BY <1>5 DEF Suspend, InterruptKey, d1, d2, d3, d4

\* A decision is applied: what it is of a gate is on the log, unacted upon.
LEMMA ApplySound ==
  ASSUME NEW w, NEW d, RowInv(w, d), NEW n \in Node, NEW decision \in {"granted", "rejected"},
         NEW emitted \in BOOLEAN,
         n \in Gates(w) => Resolved(d.log, n) /\ ValOf(d.log, n, "interrupt.resolved") = decision
  PROVE  Sound(w, Apply(w, d, n, decision, emitted))
<1> DEFINE rejected == IF w.kind[n] = "approval" /\ ~emitted
                       THEN <<Emit(d, "approval.rejected", n, decision, 0)>> ELSE <<>>
           resumed == Emit(d, "node.resumed", n, decision, 0)
           completed == Emit(resumed, "node.completed", n, decision, 0)
<1>0. decision \in Vals /\ n \in Node \cup {NoNode} /\ 0 \in Nat
  BY DEF Vals
<1>1. CASE decision = "rejected"
  <2>1. RowInv(w, Emit(d, "approval.rejected", n, decision, 0))
    BY <1>0, EmitNodeKeeps DEF Inert, EventTypes
  <2>2. Sound(w, rejected)
    BY <2>1, SoundOne, SoundNone
  <2> HIDE DEF rejected
  <2>3. Sound(w, FailNode(w, Final(d, rejected), n, TRUE))
    BY <2>2, SoundFinal, FailNodeSound
  <2>4. Sound(w, rejected \o FailNode(w, Final(d, rejected), n, TRUE))
    BY <2>2, <2>3, SoundConcat
  <2> QED BY <1>1, <2>4 DEF Apply, rejected
<1>2. CASE decision # "rejected"
  <2>1. RowInv(w, resumed) /\ (n \in Gates(w) => GrantedBefore(resumed.log, n, Len(resumed.log) + 1))
    <3>1. decision = "granted"
      BY <1>2
    <3> QED BY <1>0, <3>1, EmitResumed
  <2> HIDE DEF resumed
  <2>2. RowInv(w, completed)
    <3>1. "node.completed" \in EventTypes \ {"node.resumed", "interrupt.resolved"}
      BY DEF EventTypes
    <3> QED BY <1>0, <2>1, <3>1, EmitKeeps
  <2> HIDE DEF completed
  <2>3. Sound(w, <<resumed, completed>>)
    BY <2>1, <2>2, SoundTwo
  <2> QED BY <1>2, <2>3 DEF Apply, resumed, completed
<1> QED BY <1>1, <1>2

---------------------------------------------------------------------------
(* Part 3: the specification *)

---------------------------------------------------------------------------
(* A section over one run *)

RowsSound == file \in [Runs -> Rows] /\ \A r \in Runs : RowInv(wf[r], file[r])

MemorySound(m) == m \in Memories /\ \A r \in Runs : m.loop[r].at = "await" => m.loop[r].node \in Node

LEMMA ConsistentParts ==
  Consistent <=> /\ RowsSound /\ MemorySound(mem)
                 /\ wf \in [Runs -> Workflows]
                 /\ up \in BOOLEAN /\ ops \in 0..MaxOps /\ crashes \in 0..MaxCrashes
BY DEF Consistent, TypeOK, RowsSound, MemorySound

LEMMA ConsistentPartsNext ==
  Consistent' <=> /\ RowsSound' /\ MemorySound(mem)'
                  /\ wf' \in [Runs -> Workflows]
                  /\ up' \in BOOLEAN /\ ops' \in 0..MaxOps /\ crashes' \in 0..MaxCrashes
BY DEF Consistent, TypeOK, RowsSound, MemorySound

LEMMA NoMemorySound == MemorySound(NoMemory)
<1>1. Off \in LoopStates /\ Off.at # "await"
  BY DEF Off, LoopStates
<1>2. NoMemory \in Memories
  BY <1>1 DEF NoMemory, Memories, Policies
<1> QED BY <1>1, <1>2 DEF MemorySound, NoMemory

\* Whatever image a section leaves, and whether or not it is killed half way.
LEMMA SectionSound ==
  ASSUME Consistent, NEW r \in Runs, NEW imgs, Sound(wf[r], imgs), NEW m, MemorySound(m),
         Section(r, imgs, m), UNCHANGED wf
  PROVE  RowsSound' /\ MemorySound(mem)' /\ up' \in BOOLEAN /\ crashes' \in 0..MaxCrashes
<1>1. /\ RowsSound /\ wf' = wf /\ crashes \in 0..MaxCrashes /\ MaxCrashes \in Nat /\ up \in BOOLEAN
  BY ConsistentParts, ExecutorAssumption
<1>2. ASSUME NEW d, RowInv(wf[r], d), file' = [file EXCEPT ![r] = d]
      PROVE  RowsSound'
  <2>1. d \in Rows
    BY <1>2 DEF RowInv
  <2> QED BY <1>1, <1>2, <2>1 DEF RowsSound
<1>3. CASE file' = [file EXCEPT ![r] = Final(file[r], imgs)] /\ mem' = m /\ UNCHANGED <<up, crashes>>
  <2>1. RowInv(wf[r], Final(file[r], imgs))
    BY <1>1, SoundFinal DEF RowsSound
  <2> QED BY <1>1, <1>2, <1>3, <2>1 DEF MemorySound
<1>4. CASE /\ \E i \in 1..Len(imgs) - 1 : file' = [file EXCEPT ![r] = imgs[i]]
           /\ Killed
  <2>1. PICK i \in 1..Len(imgs) - 1 : file' = [file EXCEPT ![r] = imgs[i]]
    BY <1>4
  <2>2. RowInv(wf[r], imgs[i])
    <3>1. Len(imgs) \in Nat
      BY DEF Sound
    <3> QED BY <3>1 DEF Sound
  <2>3. RowsSound'
    BY <1>2, <2>1, <2>2
  <2>4. crashes' \in 0..MaxCrashes /\ up' \in BOOLEAN
    <3>1. crashes < MaxCrashes /\ crashes' = crashes + 1
      BY <1>4 DEF Killed
    <3>2. up' = FALSE
      BY <1>4 DEF Killed
    <3>3. crashes' \in 0..MaxCrashes
      BY <1>1, <3>1
    <3>4. up' \in BOOLEAN
      BY <3>2
    <3> QED BY <3>3, <3>4
  <2>5. MemorySound(mem)'
    BY <1>4, NoMemorySound, Zenon DEF Killed, MemorySound
  <2> QED BY <2>3, <2>4, <2>5
<1> QED BY <1>3, <1>4 DEF Section

---------------------------------------------------------------------------
(* The process memory a section ends with *)

LEMMA LoopSound ==
  ASSUME NEW m, MemorySound(m), NEW r \in Runs, NEW s \in LoopStates, s.at = "await" => s.node \in Node
  PROVE  MemorySound([m EXCEPT !.loop[r] = s])
<1>1. [m EXCEPT !.loop[r] = s] \in Memories
  BY DEF MemorySound, Memories
<1>2. \A q \in Runs : [m EXCEPT !.loop[r] = s].loop[q] = IF q = r THEN s ELSE m.loop[q]
  BY DEF MemorySound, Memories
<1> QED BY <1>1, <1>2 DEF MemorySound

LEMMA IdleLoops ==
  /\ Off \in LoopStates /\ Off.at = "off"
  /\ At("queued") \in LoopStates /\ At("queued").at = "queued"
  /\ At("on") \in LoopStates /\ At("on").at = "on"
BY DEF Off, At, LoopStates

LEMMA MovesSound ==
  ASSUME MemorySound(mem), NEW r \in Runs
  PROVE  MemorySound(LeaveLoop(r)) /\ MemorySound(StayInLoop(r))
BY LoopSound, IdleLoops DEF LeaveLoop, StayInLoop

LEMMA ScheduleSound ==
  ASSUME NEW m, MemorySound(m), NEW r \in Runs
  PROVE  MemorySound(Schedule(m, r))
BY LoopSound, IdleLoops DEF Schedule

LEMMA PolicySound ==
  ASSUME NEW m, MemorySound(m), NEW r \in Runs, NEW p \in Policies
  PROVE  MemorySound([m EXCEPT !.policy[r] = p])
BY DEF MemorySound, Memories

LEMMA RequestSound ==
  ASSUME NEW m, MemorySound(m), NEW c \in Clients, NEW q \in Requests \cup {NoRequest}
  PROVE  MemorySound([m EXCEPT !.req[c] = q])
BY DEF MemorySound, Memories

---------------------------------------------------------------------------
(* The requests *)

LEMMA InitSound == Init => Consistent
<1> SUFFICES ASSUME Init PROVE Consistent
  OBVIOUS
<1>1. Blank \in Rows /\ Blank.log = <<>> /\ Blank.open = {} /\ Blank.minted = {} /\ Blank.status = "none"
  BY DEF Blank, Rows, Statuses
<1>2. \A w : RowInv(w, Blank)
  <2>1. Witnessed(Blank)
    BY <1>1 DEF Witnessed
  <2>2. \A types : EventsOfType(Blank.log, types) = {}
    BY <1>1 DEF EventsOfType
  <2>3. DecisionsClosed(Blank) /\ DecidedOnce(Blank) /\ \A w : Gated(w, Blank)
    BY <1>1, <2>2 DEF DecisionsClosed, DecidedOnce, Gated
  <2>4. \A n : ~Resumed(Blank.log, n)
    <3>1. Blank.log \in Seq(Events) /\ Len(Blank.log) = 0
      BY <1>1
    <3>2. \A n, types : LastOf(Blank.log, n, types) \in 0..0
      BY <3>1, LastOfNatural
    <3> QED BY <3>2 DEF Resumed
  <2> QED BY <1>1, <2>1, <2>3, <2>4 DEF RowInv, OpenIsCurrent, ResumedIsGranted
<1>3. RowsSound
  BY <1>1, <1>2 DEF Init, RowsSound
<1>4. MemorySound(mem)
  BY NoMemorySound DEF Init
<1> QED BY <1>3, <1>4, ConsistentParts, ExecutorAssumption DEF Init

LEMMA Current ==
  ASSUME Consistent, NEW r \in Runs
  PROVE  /\ RowInv(wf[r], file[r]) /\ file[r] \in Rows
         /\ MemorySound(mem) /\ mem \in Memories /\ mem.loop[r] \in LoopStates
         /\ mem.loop[r].at = "await" => mem.loop[r].node \in Node
BY ConsistentParts DEF RowsSound, MemorySound, Memories

Kept == RowsSound' /\ MemorySound(mem)' /\ up' \in BOOLEAN /\ crashes' \in 0..MaxCrashes

LEMMA CreateKept ==
  ASSUME Consistent, NEW r \in Runs, Create(r)
  PROVE  Kept
<1>1. RowInv(wf[r], SetStatus(file[r], "pending"))
  BY Current, SetStatusKeeps DEF Statuses, Terminal
<1>2. Sound(wf[r], <<SetStatus(file[r], "pending")>>) /\ MemorySound(Schedule(mem, r))
  BY <1>1, Current, SoundOne, ScheduleSound
<1> QED BY <1>2, SectionSound DEF Create, Environment, Kept

LEMMA SuspendedTyped ==
  ASSUME NEW log \in Seq(Events)
  PROVE  Suspended(log) \in Node \cup {NoNode}
<1> DEFINE moves == {i \in DOMAIN log : log[i].type \in
                       {"node.suspended", "node.resumed", "node.completed", "node.failed"}}
<1>1. moves \subseteq 0..Len(log) /\ moves \subseteq 1..Len(log) /\ Len(log) \in Nat
  OBVIOUS
<1>2. ASSUME moves # {}
      PROVE  log[Max(moves)].node \in Node \cup {NoNode}
  <2>1. Max(moves) \in moves
    <3> HIDE DEF moves
    <3> QED BY <1>1, <1>2, GreatestNatural
  <2> HIDE DEF moves
  <2>2. Max(moves) \in 1..Len(log)
    BY <1>1, <2>1
  <2>3. \A i \in 1..Len(log) : log[i] \in Events
    OBVIOUS
  <2>4. log[Max(moves)] \in Events
    BY <2>2, <2>3, Zenon
  <2> QED BY <2>4 DEF Events
<1> HIDE DEF moves
<1>3. Suspended(log) = IF moves = {} THEN NoNode
                       ELSE IF log[Max(moves)].type = "node.suspended" THEN log[Max(moves)].node ELSE NoNode
  BY Zenon DEF Suspended, moves
<1> QED BY <1>2, <1>3

LEMMA CancelKept ==
  ASSUME Consistent, NEW r \in Runs, NEW seen, NEW m, MemorySound(m),
         RequestCancel(r, seen, m), UNCHANGED wf
  PROVE  Kept
<1> DEFINE d == file[r]
           at == Suspended(d.log)
           cut == IF at = NoNode THEN <<>> ELSE <<EmitNode(d, "node.cancelled", at)>>
           imgs == cut \o TerminalCancel(Final(d, cut))
           flagged == [d EXCEPT !.status = "cancelling", !.cancel = TRUE]
<1>1. RowInv(wf[r], d) /\ d \in Rows
  BY Current
<1>2. Section(r, imgs, m) \/ Section(r, <<flagged>>, m)
  BY DEF RequestCancel
<1>3. Sound(wf[r], cut)
  <2>1. at \in Node \cup {NoNode}
    BY <1>1, SuspendedTyped DEF Rows
  <2>2. RowInv(wf[r], EmitNode(d, "node.cancelled", at))
    <3>1. /\ "node.cancelled" \in EventTypes \ {"node.resumed", "interrupt.resolved"}
          /\ "none" \in Vals /\ 0 \in Nat
      BY DEF EventTypes, Vals
    <3> HIDE DEF at, d
    <3> QED BY <1>1, <2>1, <3>1, EmitKeeps DEF EmitNode
  <2> QED BY <2>2, SoundOne, SoundNone
<1>4. Sound(wf[r], imgs)
  <2> HIDE DEF cut, d
  <2>1. Sound(wf[r], TerminalCancel(Final(d, cut)))
    BY <1>1, <1>3, SoundFinal, TerminalCancelSound
  <2> QED BY <1>3, <2>1, SoundConcat
<1>5. Sound(wf[r], <<flagged>>)
  <2>1. /\ flagged \in Rows /\ flagged.status = "cancelling"
        /\ flagged.log = d.log /\ flagged.minted = d.minted /\ flagged.open = d.open
    BY <1>1 DEF Rows, Statuses
  <2> HIDE DEF flagged, d
  <2>2. Witnessed(flagged)
    BY <2>1 DEF Witnessed
  <2>3. RowInv(wf[r], flagged)
    BY <1>1, <2>1, <2>2, SameLog
  <2> QED BY <2>3, SoundOne
<1> HIDE DEF imgs, flagged
<1> QED BY <1>2, <1>4, <1>5, SectionSound DEF Kept

LEMMA PauseKept ==
  ASSUME Consistent, NEW r \in Runs, NEW seen, NEW policy \in Policies, NEW m, MemorySound(m),
         RequestPause(r, seen, policy, m), UNCHANGED wf
  PROVE  Kept
<1> DEFINE d == file[r]
           d1 == EmitRun(d, "run.paused")
           d2 == SetStatus(d1, "paused")
           flagged == [d EXCEPT !.pause = TRUE]
<1>1. RowInv(wf[r], d) /\ d \in Rows
  BY Current
<1>2. Section(r, <<d1, d2>>, m) \/ Section(r, <<flagged>>, [m EXCEPT !.policy[r] = policy])
  BY DEF RequestPause
<1>3. Sound(wf[r], <<d1, d2>>)
  <2>1. RowInv(wf[r], d1)
    BY <1>1, EmitRunKeeps DEF Inert, EventTypes
  <2> HIDE DEF d1
  <2>2. RowInv(wf[r], d2)
    BY <2>1, SetStatusKeeps DEF Statuses, Terminal
  <2> QED BY <2>1, <2>2, SoundTwo
<1>4. Sound(wf[r], <<flagged>>)
  <2>1. /\ flagged \in Rows /\ flagged.status = d.status
        /\ flagged.log = d.log /\ flagged.minted = d.minted /\ flagged.open = d.open
    BY <1>1 DEF Rows
  <2> HIDE DEF flagged, d
  <2>2. Witnessed(flagged)
    BY <1>1, <2>1 DEF RowInv, Witnessed
  <2>3. RowInv(wf[r], flagged)
    BY <1>1, <2>1, <2>2, SameLog
  <2> QED BY <2>3, SoundOne
<1>5. MemorySound([m EXCEPT !.policy[r] = policy])
  BY PolicySound
<1> HIDE DEF d1, d2, flagged
<1> QED BY <1>2, <1>3, <1>4, <1>5, SectionSound DEF Kept

LEMMA ResumeKept ==
  ASSUME Consistent, NEW r \in Runs, NEW m, MemorySound(m), RequestResume(r, m), UNCHANGED wf
  PROVE  Kept
<1> DEFINE d1 == EmitRun(file[r], "run.resumed")
           d2 == SetStatus(d1, "running")
<1>1. RowInv(wf[r], d1)
  BY Current, EmitRunKeeps DEF Inert, EventTypes
<1>2. Section(r, <<d1, d2>>, Schedule(m, r))
  BY DEF RequestResume
<1> HIDE DEF d1
<1>3. RowInv(wf[r], d2)
  BY <1>1, SetStatusKeeps DEF Statuses, Terminal
<1> HIDE DEF d2
<1>4. Sound(wf[r], <<d1, d2>>) /\ MemorySound(Schedule(m, r))
  BY <1>1, <1>3, SoundTwo, ScheduleSound
<1> QED BY <1>2, <1>4, SectionSound DEF Kept

\* The claim of an open interrupt, its record, and what it does to the node.
LEMMA ResolutionKept ==
  ASSUME Consistent, NEW r \in Runs, NEW key \in file[r].open, NEW decision \in {"granted", "rejected"},
         NEW m, MemorySound(m), RecordResolution(r, key, decision, m), UNCHANGED wf
  PROVE  Kept
<1> DEFINE w == wf[r]
           d == file[r]
           n == key[1]
           d1 == Claim(d, key)
           d2 == Emit(d1, "interrupt.resolved", n, decision, key[2])
           applied == Apply(w, d2, n, decision, FALSE)
           last == SetStatus(Final(d2, applied), "running")
<1>0. \/ Section(r, <<d1, d2>> \o applied, m)
      \/ Section(r, <<d1, d2>> \o applied \o <<last>>, Schedule(m, r))
  BY Zenon DEF RecordResolution
<1>1. RowInv(w, d) /\ d \in Rows
  BY Current
<1>2. n \in Node /\ key[2] \in Nat /\ key = <<n, key[2]>> /\ key \in d.open
  BY <1>1 DEF Rows
<1>3. RowInv(w, d1) /\ d1.log = d.log /\ d1.minted = d.minted /\ d1.open = d.open \ {key}
  <2> HIDE DEF d, w
  <2> QED BY <1>1, ClaimKeeps
<1>4. key \in d1.minted \ d1.open
  BY <1>1, <1>2, <1>3 DEF RowInv, DecisionsClosed
<1>5. \A i \in EventsOfType(d1.log, {"interrupt.resolved"}) :
        ~(d1.log[i].node = n /\ d1.log[i].visit = key[2])
  BY <1>1, <1>2, <1>3 DEF RowInv, DecisionsClosed
<1>6. n \in Gates(w) => ~Resumed(d1.log, n) /\ \A k \in d1.open : k[1] # n
  <2> SUFFICES ASSUME n \in Gates(w)
               PROVE  ~Resumed(d1.log, n) /\ \A k \in d1.open : k[1] # n
    OBVIOUS
  <2>1. key[2] = Visit(d.log, n) /\ ~Resumed(d.log, n)
    BY <1>1, <1>2 DEF RowInv, OpenIsCurrent
  <2>2. ASSUME NEW k \in d1.open, k[1] = n
        PROVE  FALSE
    <3>1. k \in d.open /\ k # key
      BY <1>3, <2>2
    <3>2. k[2] = Visit(d.log, n)
      BY <1>1, <2>2, <3>1 DEF RowInv, OpenIsCurrent
    <3>3. k = <<k[1], k[2]>>
      BY <1>1, <3>1 DEF Rows
    <3> QED BY <1>2, <2>1, <2>2, <3>1, <3>2, <3>3
  <2> QED BY <1>3, <2>1, <2>2
<1> HIDE DEF d1, d, w
<1>7. RowInv(w, d2)
  <2>1. <<n, key[2]>> \in d1.minted \ d1.open
    BY <1>2, <1>4
  <2> HIDE DEF n
  <2> QED BY <1>2, <1>3, <1>5, <1>6, <2>1, EmitResolved
<1>8. Resolved(d2.log, n) /\ ValOf(d2.log, n, "interrupt.resolved") = decision
  <2> DEFINE e == [type |-> "interrupt.resolved", node |-> n, val |-> decision, visit |-> key[2]]
  <2>1. e \in Events /\ d2.log = Append(d1.log, e) /\ d1.log \in Seq(Events)
    <3>1. /\ d1 \in Rows /\ "interrupt.resolved" \in EventTypes
          /\ decision \in Vals /\ n \in Node \cup {NoNode}
      BY <1>2, <1>3 DEF RowInv, EventTypes, Vals
    <3> HIDE DEF n
    <3> QED BY <1>2, <3>1, EmitTyped
  <2>2. e.type = "interrupt.resolved" /\ e.node = n /\ e.val = decision
    OBVIOUS
  <2> HIDE DEF e, n, d2
  <2> QED BY <2>1, <2>2, ResolvedEvent
<1> HIDE DEF d2, n
<1>9. Sound(w, applied)
  BY <1>2, <1>7, <1>8, ApplySound
<1>10. Sound(w, <<d1, d2>>)
  BY <1>3, <1>7, SoundTwo
<1> HIDE DEF applied
<1>11. RowInv(w, last)
  <2>1. RowInv(w, Final(d2, applied))
    BY <1>7, <1>9, SoundFinal
  <2> QED BY <2>1, SetStatusKeeps DEF Statuses, Terminal
<1> HIDE DEF last
<1>12. Sound(w, <<d1, d2>> \o applied) /\ Sound(w, <<d1, d2>> \o applied \o <<last>>)
  BY <1>9, <1>10, <1>11, SoundOne, SoundConcat
<1>13. MemorySound(Schedule(m, r))
  BY ScheduleSound
<1> QED BY <1>0, <1>12, <1>13, SectionSound DEF Kept, w

LEMMA HandleKept ==
  ASSUME Consistent, NEW op \in Operations, NEW r \in Runs, NEW seen, NEW m, MemorySound(m),
         Handle(op, r, seen, m), UNCHANGED wf
  PROVE  Kept
<1>1. CASE op = "cancel"
  BY <1>1, CancelKept DEF Handle
<1>2. CASE op = "pause-drain"
  <2>1. RequestPause(r, seen, "drain-current-node", m) /\ "drain-current-node" \in Policies
    BY <1>2 DEF Handle, Policies
  <2> QED BY <2>1, PauseKept
<1>3. CASE op = "pause-immediate"
  <2>1. RequestPause(r, seen, "immediate", m) /\ "immediate" \in Policies
    BY <1>3 DEF Handle, Policies
  <2> QED BY <2>1, PauseKept
<1>4. CASE op = "resume"
  BY <1>4, ResumeKept DEF Handle
<1>5. CASE op \in {"granted", "rejected"}
  <2>1. PICK key \in Claimable(r, op) : RecordResolution(r, key, op, m)
    BY <1>5 DEF Handle, Resolve
  <2>2. key \in file[r].open
    BY DEF Claimable
  <2> QED BY <1>5, <2>1, <2>2, ResolutionKept
<1> QED BY <1>1, <1>2, <1>3, <1>4, <1>5 DEF Operations

LEMMA CallKept ==
  ASSUME Consistent, NEW op \in Operations, NEW r \in Runs, Call(op, r)
  PROVE  Kept
<1>1. Handle(op, r, Seen(r), mem) /\ UNCHANGED wf
  BY DEF Call
<1>2. MemorySound(mem)
  BY ConsistentParts
<1> QED BY <1>1, <1>2, HandleKept

LEMMA ArriveKept ==
  ASSUME Consistent, NEW c \in Clients, NEW op \in Operations, NEW r \in Runs, Arrive(c, op, r)
  PROVE  Kept
<1> DEFINE q == [op |-> op, run |-> r, seen |-> Seen(r)]
<1>1. q \in Requests
  BY Current DEF Requests, Rows, Seen
<1>2. mem' = [mem EXCEPT !.req[c] = q] /\ UNCHANGED <<wf, file, up, crashes>>
  BY DEF Arrive
<1> HIDE DEF q
<1>3. MemorySound([mem EXCEPT !.req[c] = q])
  BY <1>1, ConsistentParts, RequestSound
<1>4. MemorySound(mem)'
  BY <1>2, <1>3 DEF MemorySound
<1>5. RowsSound'
  BY <1>2, ConsistentParts DEF RowsSound
<1> QED BY <1>2, <1>4, <1>5, ConsistentParts DEF Kept

LEMMA BodyKept ==
  ASSUME Consistent, NEW c \in Clients, Body(c)
  PROVE  Kept
<1> DEFINE q == mem.req[c]
           m == [mem EXCEPT !.req[c] = NoRequest]
<1>1. q \in Requests /\ UNCHANGED wf
  BY ConsistentParts DEF Body, Environment, MemorySound, Memories
<1>2. MemorySound(m)
  BY ConsistentParts, RequestSound
<1>3. \/ Handle(q.op, q.run, q.seen, m)
      \/ mem' = m /\ UNCHANGED <<file, up, crashes>>
  BY DEF Body
<1>4. q.op \in Operations /\ q.run \in Runs
  BY <1>1 DEF Requests
<1> HIDE DEF q, m
<1>5. CASE Handle(q.op, q.run, q.seen, m)
  BY <1>1, <1>2, <1>4, <1>5, HandleKept
<1>6. CASE mem' = m /\ UNCHANGED <<file, up, crashes>>
  <2>1. MemorySound(mem)'
    BY <1>2, <1>6 DEF MemorySound
  <2>2. RowsSound'
    BY <1>1, <1>6, ConsistentParts DEF RowsSound
  <2> QED BY <1>6, <2>1, <2>2, ConsistentParts DEF Kept
<1> QED BY <1>3, <1>5, <1>6

LEMMA GrantCompletedKept ==
  ASSUME Consistent, NEW r \in Runs, GrantCompleted(r)
  PROVE  Kept
<1>1. PICK key \in file[r].open : RecordResolution(r, key, "granted", mem)
  BY DEF GrantCompleted
<1>2. MemorySound(mem) /\ UNCHANGED wf
  BY ConsistentParts DEF GrantCompleted
<1> QED BY <1>1, <1>2, ResolutionKept

LEMMA SweepKept ==
  ASSUME Consistent, NEW r \in Runs, Sweep(r)
  PROVE  Kept
<1>1. PICK key \in file[r].open : RecordResolution(r, key, "rejected", mem)
  BY DEF Sweep
<1>2. MemorySound(mem) /\ UNCHANGED wf
  BY ConsistentParts DEF Sweep, Environment
<1> QED BY <1>1, <1>2, ResolutionKept

---------------------------------------------------------------------------
(* The loop *)

LEMMA EnterKept ==
  ASSUME Consistent, NEW r \in Runs, Enter(r)
  PROVE  Kept
<1> DEFINE d == file[r]
           d1 == EmitRun(d, "run.started")
           running == SetStatus(d, "running")
           started == SetStatus(d1, "running")
<1>1. \/ Section(r, <<>>, LeaveLoop(r))
      \/ Section(r, <<d1, started>>, StayInLoop(r))
      \/ Section(r, <<running>>, StayInLoop(r))
      \/ Section(r, <<>>, StayInLoop(r))
  BY DEF Enter
<1>2. UNCHANGED wf
  BY DEF Enter, Environment
<1>3. RowInv(wf[r], d) /\ MemorySound(LeaveLoop(r)) /\ MemorySound(StayInLoop(r))
  BY Current, MovesSound
<1>4. RowInv(wf[r], d1)
  BY <1>3, EmitRunKeeps DEF Inert, EventTypes
<1> HIDE DEF d, d1
<1>5. RowInv(wf[r], running) /\ RowInv(wf[r], started)
  BY <1>3, <1>4, SetStatusKeeps DEF Statuses, Terminal
<1> HIDE DEF running, started
<1>6. /\ Sound(wf[r], <<>>) /\ Sound(wf[r], <<running>>) /\ Sound(wf[r], <<d1, started>>)
  BY <1>4, <1>5, SoundNone, SoundOne, SoundTwo
<1> QED BY <1>1, <1>2, <1>3, <1>6, SectionSound DEF Kept

LEMMA FinishKept ==
  ASSUME Consistent, NEW r \in Runs, Finish(r), UNCHANGED wf
  PROVE  Kept
<1>1. \/ Section(r, <<>>, LeaveLoop(r))
      \/ Section(r, TerminalCancel(file[r]), LeaveLoop(r))
      \/ Section(r, RunCompleted(file[r]), LeaveLoop(r))
  BY DEF Finish
<1>2. RowInv(wf[r], file[r]) /\ MemorySound(LeaveLoop(r))
  BY Current, MovesSound
<1>3. Sound(wf[r], <<>>) /\ Sound(wf[r], TerminalCancel(file[r])) /\ Sound(wf[r], RunCompleted(file[r]))
  BY <1>2, SoundNone, TerminalCancelSound, RunCompletedSound
<1> QED BY <1>1, <1>2, <1>3, SectionSound DEF Kept

LEMMA ReenterKept ==
  ASSUME Consistent, NEW r \in Runs, NEW n \in Node, Resumed(file[r].log, n) \/ Resolved(file[r].log, n),
         Reenter(r, n), UNCHANGED wf
  PROVE  Kept
<1> DEFINE d == file[r]
           w == wf[r]
           val == ValOf(d.log, n, "node.resumed")
           decision == ValOf(d.log, n, "interrupt.resolved")
           completed == Emit(d, "node.completed", n, val, 0)
           emitted == RejectedEmitted(d.log, n)
           applied == Apply(w, d, n, decision, emitted)
<1>1. RowInv(w, d) /\ d.log \in Seq(Events) /\ MemorySound(LeaveLoop(r)) /\ MemorySound(StayInLoop(r))
  BY Current, MovesSound DEF Rows
<1>2. CASE Resumed(d.log, n)
  <2>1. Section(r, <<completed>>, StayInLoop(r))
    BY <1>2 DEF Reenter
  <2>2. val \in Vals
    <3>1. LastOf(d.log, n, {"node.resumed"}) \in 1..Len(d.log)
      BY <1>1, <1>2, LastOfNatural DEF Resumed
    <3>2. \A i \in 1..Len(d.log) : d.log[i] \in Events
      BY <1>1
    <3>3. d.log[LastOf(d.log, n, {"node.resumed"})] \in Events
      BY <3>1, <3>2, Zenon
    <3> QED BY <3>3 DEF ValOf, Events
  <2>3. n \in Gates(w) => GrantedBefore(d.log, n, Len(d.log) + 1)
    BY <1>1, <1>2 DEF RowInv, ResumedIsGranted
  <2> HIDE DEF val, d, w
  <2>4. RowInv(w, completed)
    <3>1. /\ "node.completed" \in EventTypes \ {"node.resumed", "interrupt.resolved"}
          /\ n \in Node \cup {NoNode} /\ 0 \in Nat
      BY DEF EventTypes
    <3> QED BY <1>1, <2>2, <2>3, <3>1, EmitKeeps
  <2> HIDE DEF completed
  <2>5. Sound(w, <<completed>>)
    BY <2>4, SoundOne
  <2> QED BY <1>1, <2>1, <2>5, SectionSound DEF Kept, w
<1>3. CASE ~Resumed(d.log, n)
  <2>1. Section(r, applied, LeaveLoop(r)) \/ Section(r, applied, StayInLoop(r))
    BY <1>3 DEF Reenter
  <2>2. Resolved(d.log, n)
    BY <1>3
  <2>3. decision \in {"granted", "rejected"}
    <3>1. LastOf(d.log, n, {"interrupt.resolved"}) \in 1..Len(d.log)
      BY <1>1, <2>2, LastOfNatural DEF Resolved
    <3>2. LastOf(d.log, n, {"interrupt.resolved"}) \in EventsOf(d.log, n, {"interrupt.resolved"})
      BY <1>1, <3>1, LastOfLatest
    <3>3. LastOf(d.log, n, {"interrupt.resolved"}) \in EventsOfType(d.log, {"interrupt.resolved"})
      BY <3>2 DEF EventsOf, EventsOfType
    <3> QED BY <1>1, <3>3 DEF RowInv, DecisionsClosed, ValOf
  <2>4. emitted \in BOOLEAN
    BY DEF RejectedEmitted
  <2> HIDE DEF d, w, decision, emitted
  <2>5. decision = ValOf(d.log, n, "interrupt.resolved")
    BY DEF decision
  <2>6. Sound(w, applied)
    BY <1>1, <2>2, <2>3, <2>4, <2>5, ApplySound
  <2> HIDE DEF applied
  <2> QED BY <1>1, <2>1, <2>6, SectionSound DEF Kept, w
<1> QED BY <1>2, <1>3

LEMMA BreachKept ==
  ASSUME Consistent, NEW r \in Runs, Breach(r), UNCHANGED wf
  PROVE  Kept
<1> DEFINE d1 == EmitRun(file[r], "cap.breached")
<1>1. Section(r, <<d1>> \o RunFailed(d1), LeaveLoop(r))
  BY DEF Breach
<1>2. RowInv(wf[r], d1)
  BY Current, EmitRunKeeps DEF Inert, EventTypes
<1> HIDE DEF d1
<1>3. Sound(wf[r], <<d1>> \o RunFailed(d1)) /\ MemorySound(LeaveLoop(r))
  BY <1>2, SoundOne, RunFailedSound, SoundConcat, Current, MovesSound
<1> QED BY <1>1, <1>3, SectionSound DEF Kept

LEMMA ExecuteKept ==
  ASSUME Consistent, NEW r \in Runs, NEW n \in Node, Execute(r, n), UNCHANGED wf
  PROVE  Kept
<1> DEFINE d == file[r]
           w == wf[r]
           d1 == EmitNode(d, "node.started", n)
           done == Emit(d1, "node.completed", n, "ok", 0)
           visit == Visit(d.log, n)
           execution == Execution(d.log, n)
           state == [at |-> "await", node |-> n, visit |-> visit, execution |-> execution]
           await == [mem EXCEPT !.loop[r] = state]
           failed(routable) == <<d1>> \o FailNode(w, d1, n, routable)
           suspended == <<d1>> \o Suspend(w, d1, n, visit)
<1>1. RowInv(w, d) /\ d \in Rows /\ d.log \in Seq(Events) /\ MemorySound(mem)
  BY Current DEF Rows
<1>2. RowInv(w, d1)
  <2> HIDE DEF d, w
  <2> QED BY <1>1, EmitNoValueKeeps DEF Inert, EventTypes
<1>3. /\ Visit(d1.log, n) = visit /\ visit \in Nat
      /\ ~Resumed(d1.log, n) /\ ~Resolved(d1.log, n)
  <2> DEFINE e == [type |-> "node.started", node |-> n, val |-> "none", visit |-> 0]
  <2>1. e \in Events /\ d1.log = Append(d.log, e)
    <3>1. "node.started" \in EventTypes /\ "none" \in Vals /\ n \in Node \cup {NoNode} /\ 0 \in Nat
      BY DEF EventTypes, Vals
    <3> HIDE DEF d
    <3> QED BY <1>1, <3>1, EmitTyped DEF EmitNode
  <2>2. e.type = "node.started" /\ e.node = n
    OBVIOUS
  <2> HIDE DEF d1, e, d
  <2>3. Visit(d1.log, n) = visit
    BY <1>1, <2>1, <2>2, EventsOfAppend DEF Visit, CountOf
  <2>4. visit \in Nat
    BY <1>1, CountIsNatural DEF Visit
  <2> QED BY <1>1, <2>1, <2>2, <2>3, <2>4, StartedOrEnded
<1>4. MemorySound(await) /\ MemorySound(LeaveLoop(r)) /\ MemorySound(StayInLoop(r))
  <2>1. execution \in Nat
    <3>1. CountOf(d.log, n, {"node.completed", "node.failed"}) \in Nat
      BY <1>1, CountIsNatural
    <3> QED BY <3>1 DEF Execution
  <2> HIDE DEF execution, visit
  <2>2. state \in LoopStates /\ state.node \in Node
    BY <1>3, <2>1 DEF LoopStates
  <2> HIDE DEF state
  <2> QED BY <1>1, <2>2, LoopSound, MovesSound
<1>5. \/ w.kind[n] = "work" /\ Section(r, <<d1, done>>, StayInLoop(r))
      \/ Section(r, failed(TRUE), LeaveLoop(r)) \/ Section(r, failed(TRUE), StayInLoop(r))
      \/ Section(r, failed(FALSE), LeaveLoop(r)) \/ Section(r, failed(FALSE), StayInLoop(r))
      \/ Section(r, suspended, LeaveLoop(r))
      \/ Section(r, <<d1>>, await)
  BY DEF Execute, ExecuteNode
<1> HIDE DEF d1, d, visit, await
<1>6. w.kind[n] = "work" => Sound(w, <<d1, done>>)
  <2> SUFFICES ASSUME w.kind[n] = "work" PROVE Sound(w, <<d1, done>>)
    OBVIOUS
  <2>1. n \notin Gates(w)
    BY DEF Gates
  <2>2. /\ "node.completed" \in EventTypes \ {"node.resumed", "interrupt.resolved"}
        /\ n \in Node \cup {NoNode} /\ 0 \in Nat /\ "ok" \in Vals
    BY DEF EventTypes, Vals
  <2> HIDE DEF w
  <2>3. RowInv(w, done)
    BY <1>2, <2>1, <2>2, EmitKeeps
  <2> QED BY <1>2, <2>3, SoundTwo
<1> HIDE DEF w, done
<1>7. Sound(w, <<d1>>) /\ Sound(w, failed(TRUE)) /\ Sound(w, failed(FALSE))
  BY <1>2, SoundOne, FailNodeSound, SoundConcat
<1>8. Sound(w, suspended)
  BY <1>2, <1>3, SoundOne, SuspendSound, SoundConcat
<1> HIDE DEF suspended, failed
<1> QED BY <1>4, <1>5, <1>6, <1>7, <1>8, SectionSound DEF Kept, w

LEMMA DispatchKept ==
  ASSUME Consistent, NEW r \in Runs, NEW n \in Node, NEW st, Dispatch(r, n, st), UNCHANGED wf
  PROVE  Kept
<1> DEFINE d == file[r]
           parked == [LeaveLoop(r) EXCEPT !.policy[r] = "none"]
           skipped == EmitNode(d, "node.skipped", n)
<1>1. RowInv(wf[r], d) /\ MemorySound(LeaveLoop(r)) /\ MemorySound(StayInLoop(r)) /\ MemorySound(parked)
  BY Current, MovesSound, PolicySound DEF Policies
<1>2. \/ Section(r, TerminalCancel(d), LeaveLoop(r))
      \/ Section(r, Paused(d), parked)
      \/ Section(r, <<skipped>>, StayInLoop(r))
      \/ (Resumed(d.log, n) \/ Resolved(d.log, n)) /\ Reenter(r, n)
      \/ Breach(r)
      \/ Execute(r, n)
  BY DEF Dispatch
<1>3. CASE (Resumed(d.log, n) \/ Resolved(d.log, n)) /\ Reenter(r, n)
  BY <1>3, ReenterKept
<1>4. CASE Breach(r)
  BY <1>4, BreachKept
<1>5. CASE Execute(r, n)
  BY <1>5, ExecuteKept
<1> HIDE DEF d, parked
<1>6. Sound(wf[r], TerminalCancel(d)) /\ Sound(wf[r], Paused(d))
  BY <1>1, TerminalCancelSound, PausedSound
<1>7. Sound(wf[r], <<skipped>>)
  BY <1>1, EmitNoValueKeeps, SoundOne DEF Inert, EventTypes
<1> HIDE DEF skipped
<1> QED BY <1>1, <1>2, <1>3, <1>4, <1>5, <1>6, <1>7, SectionSound DEF Kept

LEMMA TurnKept ==
  ASSUME Consistent, NEW r \in Runs, Turn(r)
  PROVE  Kept
<1>1. UNCHANGED wf
  BY DEF Turn, Environment
<1>2. PICK st : \E n \in Range(wf[r].nodes) \cup {NoNode} :
        \/ n = NoNode /\ Finish(r)
        \/ n # NoNode /\ Dispatch(r, n, st)
  BY DEF Turn
<1>3. PICK n \in Range(wf[r].nodes) \cup {NoNode} :
        \/ n = NoNode /\ Finish(r)
        \/ n # NoNode /\ Dispatch(r, n, st)
  BY <1>2
<1>4. n # NoNode => n \in Node
  BY ConsistentParts DEF Node
<1> QED BY <1>1, <1>3, <1>4, FinishKept, DispatchKept

---------------------------------------------------------------------------
(* What an awaited node comes to *)

LEMMA WakeDoneKept ==
  ASSUME Consistent, NEW r \in Runs, WakeDone(r)
  PROVE  Kept
<1> DEFINE d == file[r]
           w == wf[r]
           n == mem.loop[r].node
           done == Emit(d, "node.completed", n, "ok", 0)
<1>1. /\ UNCHANGED wf
      /\ w.kind[n] \in {"hold", "effect", "credential"} /\ mem.loop[r].at = "await"
      /\ \/ Section(r, <<>>, LeaveLoop(r))
         \/ Section(r, <<>>, StayInLoop(r))
         \/ Section(r, <<done>>, StayInLoop(r))
  BY DEF WakeDone, Environment, Awaited
<1>2. RowInv(w, d) /\ n \in Node /\ MemorySound(LeaveLoop(r)) /\ MemorySound(StayInLoop(r))
  BY <1>1, Current, MovesSound
<1>3. n \notin Gates(w)
  BY <1>1 DEF Gates
<1> HIDE DEF d, w, n
<1>4. RowInv(w, done)
  <2>1. /\ "node.completed" \in EventTypes \ {"node.resumed", "interrupt.resolved"}
        /\ n \in Node \cup {NoNode} /\ 0 \in Nat /\ "ok" \in Vals
    BY <1>2 DEF EventTypes, Vals
  <2> QED BY <1>2, <1>3, <2>1, EmitKeeps
<1> HIDE DEF done
<1>5. Sound(w, <<>>) /\ Sound(w, <<done>>)
  BY <1>4, SoundNone, SoundOne
<1> QED BY <1>1, <1>2, <1>5, SectionSound DEF Kept, w

LEMMA WakeFailedKept ==
  ASSUME Consistent, NEW r \in Runs, WakeFailed(r)
  PROVE  Kept
<1> DEFINE n == mem.loop[r].node
           imgs == FailNode(wf[r], file[r], n, TRUE)
<1>1. /\ UNCHANGED wf /\ mem.loop[r].at = "await"
      /\ Section(r, imgs, LeaveLoop(r)) \/ Section(r, imgs, StayInLoop(r))
  BY DEF WakeFailed, Environment, Awaited
<1>2. /\ RowInv(wf[r], file[r]) /\ n \in Node
      /\ MemorySound(LeaveLoop(r)) /\ MemorySound(StayInLoop(r))
  BY <1>1, Current, MovesSound
<1> HIDE DEF n
<1>3. Sound(wf[r], imgs)
  BY <1>2, FailNodeSound
<1> HIDE DEF imgs
<1> QED BY <1>1, <1>2, <1>3, SectionSound DEF Kept

LEMMA WakeSuspendKept ==
  ASSUME Consistent, NEW r \in Runs, WakeSuspend(r)
  PROVE  Kept
<1> DEFINE n == mem.loop[r].node
           visit == mem.loop[r].visit
           imgs == Suspend(wf[r], file[r], n, visit)
<1>1. /\ UNCHANGED wf /\ mem.loop[r].at = "await" /\ wf[r].kind[n] = "credential"
      /\ Section(r, imgs, LeaveLoop(r))
  BY DEF WakeSuspend, Environment, Awaited
<1>2. /\ RowInv(wf[r], file[r]) /\ n \in Node /\ visit \in Nat /\ MemorySound(LeaveLoop(r))
  BY <1>1, Current, MovesSound DEF LoopStates
<1>3. n \notin Gates(wf[r])
  BY <1>1 DEF Gates
<1> HIDE DEF n, visit
<1>4. Sound(wf[r], imgs)
  BY <1>2, <1>3, SuspendSound
<1> HIDE DEF imgs
<1> QED BY <1>1, <1>2, <1>4, SectionSound DEF Kept

LEMMA WakeCancelledKept ==
  ASSUME Consistent, NEW r \in Runs, WakeCancelled(r)
  PROVE  Kept
<1> DEFINE n == mem.loop[r].node
           d1 == EmitNode(file[r], "node.cancelled", n)
<1>1. /\ UNCHANGED wf /\ mem.loop[r].at = "await"
      /\ Section(r, <<d1>> \o TerminalCancel(d1), LeaveLoop(r))
  BY DEF WakeCancelled, Environment, Awaited
<1>2. RowInv(wf[r], file[r]) /\ n \in Node /\ MemorySound(LeaveLoop(r))
  BY <1>1, Current, MovesSound
<1> HIDE DEF n
<1>3. RowInv(wf[r], d1)
  BY <1>2, EmitNoValueKeeps DEF Inert, EventTypes
<1> HIDE DEF d1
<1>4. Sound(wf[r], <<d1>> \o TerminalCancel(d1))
  BY <1>3, SoundOne, TerminalCancelSound, SoundConcat
<1> QED BY <1>1, <1>2, <1>4, SectionSound DEF Kept

LEMMA WakePausedKept ==
  ASSUME Consistent, NEW r \in Runs, WakePaused(r)
  PROVE  Kept
<1> DEFINE parked == [LeaveLoop(r) EXCEPT !.policy[r] = "none"]
<1>1. UNCHANGED wf /\ Section(r, Paused(file[r]), parked)
  BY DEF WakePaused, Environment
<1>2. RowInv(wf[r], file[r]) /\ MemorySound(parked)
  BY Current, MovesSound, PolicySound DEF Policies
<1> HIDE DEF parked
<1>3. Sound(wf[r], Paused(file[r]))
  BY <1>2, PausedSound
<1> QED BY <1>1, <1>2, <1>3, SectionSound DEF Kept

---------------------------------------------------------------------------
(* Death and recovery *)

LEMMA CrashKept ==
  ASSUME Consistent, Crash
  PROVE  Kept
<1>1. MemorySound(mem)'
  BY NoMemorySound, Zenon DEF Crash, Killed, MemorySound
<1>2. RowsSound'
  BY ConsistentParts DEF Crash, RowsSound
<1>3. crashes' \in 0..MaxCrashes
  BY ConsistentParts, ExecutorAssumption DEF Crash, Killed
<1>4. up' \in BOOLEAN
  BY DEF Crash, Killed
<1> QED BY <1>1, <1>2, <1>3, <1>4 DEF Kept

LEMMA BootKept ==
  ASSUME Consistent, Boot
  PROVE  Kept
<1>1. RowsSound'
  <2>1. \A r \in Runs : RowInv(wf[r], file[r]) /\ RowInv(wf[r], EmitRun(file[r], "workflow.restored"))
    BY Current, EmitRunKeeps DEF Inert, EventTypes
  <2>2. \A r \in Runs : RowInv(wf[r], file'[r]) /\ file'[r] \in Rows
    <3> TAKE r \in Runs
    <3>1. file'[r] = file[r] \/ file'[r] = EmitRun(file[r], "workflow.restored")
      BY DEF Boot
    <3>2. RowInv(wf[r], file'[r])
      BY <2>1, <3>1, Zenon
    <3> QED BY <3>2 DEF RowInv
  <2>3. wf' = wf /\ file' \in [Runs -> Rows]
    BY <2>2 DEF Boot
  <2> QED BY <2>2, <2>3 DEF RowsSound
<1>2. MemorySound(mem)'
  <2> DEFINE loops == [r \in Runs |-> IF r \in InFlight THEN At("queued") ELSE Off]
  <2>1. \A r \in Runs : loops[r] \in LoopStates /\ loops[r].at # "await"
    BY IdleLoops
  <2>2. mem' = [NoMemory EXCEPT !.loop = loops]
    BY DEF Boot
  <2>3. loops \in [Runs -> LoopStates]
    BY <2>1
  <2> HIDE DEF loops
  <2>4. NoMemory \in Memories
    BY NoMemorySound DEF MemorySound
  <2>5. mem' \in Memories /\ mem'.loop = loops
    BY <2>2, <2>3, <2>4 DEF Memories
  <2> QED BY <2>1, <2>5 DEF MemorySound
<1>3. up' \in BOOLEAN
  BY DEF Boot
<1>4. crashes' \in 0..MaxCrashes
  BY ConsistentParts DEF Boot
<1> QED BY <1>1, <1>2, <1>3, <1>4 DEF Kept

---------------------------------------------------------------------------
(* The theorems *)

LEMMA StepKept ==
  ASSUME Consistent, Kept, UNCHANGED wf, ops' = ops \/ (ops < MaxOps /\ ops' = ops + 1)
  PROVE  Consistent'
<1>1. ops' \in 0..MaxOps
  BY ConsistentParts, ExecutorAssumption
<1>2. wf' \in [Runs -> Workflows]
  BY ConsistentParts
<1> QED BY <1>1, <1>2, ConsistentPartsNext DEF Kept

\* Every step of the host keeps the rows consistent.
LEMMA NextKeepsConsistent == Consistent /\ [Next]_vars => Consistent'
<1> SUFFICES ASSUME Consistent, [Next]_vars
             PROVE  Consistent'
  OBVIOUS
<1>1. ASSUME NEW r \in Runs, Request(r)
      PROVE  Consistent'
  <2>1. CASE Create(r)
    BY <2>1, CreateKept, StepKept DEF Create, Environment
  <2>2. CASE GrantCompleted(r)
    BY <2>2, GrantCompletedKept, StepKept DEF GrantCompleted
  <2>3. ASSUME NEW op \in Operations, Call(op, r)
        PROVE  Consistent'
    BY <2>3, CallKept, StepKept DEF Call
  <2>4. ASSUME NEW op \in Operations, NEW c \in Clients, Arrive(c, op, r)
        PROVE  Consistent'
    BY <2>4, ArriveKept, StepKept DEF Arrive
  <2> QED BY <1>1, <2>1, <2>2, <2>3, <2>4 DEF Request
<1>2. ASSUME NEW r \in Runs, Sweep(r)
      PROVE  Consistent'
  BY <1>2, SweepKept, StepKept DEF Sweep, Environment
<1>3. ASSUME NEW r \in Runs, Loop(r)
      PROVE  Consistent'
  <2>1. CASE Enter(r)
    BY <2>1, EnterKept, StepKept DEF Enter, Environment
  <2>2. CASE Turn(r)
    BY <2>2, TurnKept, StepKept DEF Turn, Environment
  <2>3. CASE WakeDone(r)
    BY <2>3, WakeDoneKept, StepKept DEF WakeDone, Environment
  <2>4. CASE WakeFailed(r)
    BY <2>4, WakeFailedKept, StepKept DEF WakeFailed, Environment
  <2>5. CASE WakeSuspend(r)
    BY <2>5, WakeSuspendKept, StepKept DEF WakeSuspend, Environment
  <2>6. CASE WakeCancelled(r)
    BY <2>6, WakeCancelledKept, StepKept DEF WakeCancelled, Environment
  <2>7. CASE WakePaused(r)
    BY <2>7, WakePausedKept, StepKept DEF WakePaused, Environment
  <2> QED BY <1>3, <2>1, <2>2, <2>3, <2>4, <2>5, <2>6, <2>7 DEF Loop, Wake
<1>4. ASSUME NEW c \in Clients, Body(c)
      PROVE  Consistent'
  BY <1>4, BodyKept, StepKept DEF Body, Environment
<1>5. CASE Crash
  BY <1>5, CrashKept, StepKept DEF Crash
<1>6. CASE Boot
  BY <1>6, BootKept, StepKept DEF Boot
<1>7. CASE UNCHANGED vars
  BY <1>7 DEF vars, Consistent, TypeOK
<1> QED BY <1>1, <1>2, <1>3, <1>4, <1>5, <1>6, <1>7 DEF Next

\* The rows of every run are consistent at every moment: the inductive invariant.
THEOREM ExecutorConsistent == Spec => []Consistent
<1>1. Init => Consistent
  BY InitSound
<1>2. Consistent /\ [Next]_vars => Consistent'
  BY NextKeepsConsistent
<1> QED BY <1>1, <1>2, PTL DEF Spec

\* Type correctness, for every set of runs, workflows and clients.
THEOREM ExecutorTyped == Spec => []TypeOK
<1>1. Consistent => TypeOK
  BY DEF Consistent
<1> QED BY <1>1, ExecutorConsistent, PTL

\* No interleaving of requests, sweep and loop, no stale row and no kill lets an
\* approval or a clarification complete without a grant of its own.
THEOREM GatesHold == Spec => []GateNeverBypassed
<1>1. Consistent => GateNeverBypassed
  <2> SUFFICES ASSUME Consistent, NEW r \in Runs, NEW i \in DOMAIN file[r].log,
                      file[r].log[i].type = "node.completed", file[r].log[i].node \in Gates(wf[r])
               PROVE  GrantedBefore(file[r].log, file[r].log[i].node, i)
    BY DEF GateNeverBypassed
  <2>1. Gated(wf[r], file[r])
    BY Current DEF RowInv
  <2>2. i \in EventsOfType(file[r].log, {"node.completed"})
    BY DEF EventsOfType
  <2> QED BY <2>1, <2>2 DEF Gated
<1> QED BY <1>1, ExecutorConsistent, PTL

\* No interrupt is ever resolved twice, whoever races for it.
THEOREM InterruptsResolveOnce == Spec => []ResolvedOnce
<1>1. Consistent => ResolvedOnce
  <2> SUFFICES ASSUME Consistent, NEW r \in Runs, NEW i \in DOMAIN file[r].log, NEW j \in DOMAIN file[r].log,
                      file[r].log[i].type = "interrupt.resolved", file[r].log[j].type = "interrupt.resolved",
                      file[r].log[i].node = file[r].log[j].node, file[r].log[i].visit = file[r].log[j].visit
               PROVE  i = j
    BY DEF ResolvedOnce
  <2>1. DecidedOnce(file[r])
    BY Current DEF RowInv
  <2>2. {i, j} \subseteq EventsOfType(file[r].log, {"interrupt.resolved"})
    BY DEF EventsOfType
  <2> QED BY <2>1, <2>2 DEF DecidedOnce
<1> QED BY <1>1, ExecutorConsistent, PTL

\* A run's row never claims an end its log does not record, whenever it is killed.
THEOREM EndsAreWitnessed == Spec => []TerminalWitnessed
<1>1. Consistent => TerminalWitnessed
  <2> SUFFICES ASSUME Consistent, NEW r \in Runs
               PROVE  Witnessed(file[r]) /\ \A type : EventsOfType(file[r].log, {type}) # {}
                        => \E i \in DOMAIN file[r].log : file[r].log[i].type = type
    BY DEF TerminalWitnessed, Witnessed
  <2>1. Witnessed(file[r])
    BY Current DEF RowInv
  <2> QED BY <2>1 DEF EventsOfType
<1> QED BY <1>1, ExecutorConsistent, PTL

---------------------------------------------------------------------------
(* Part 4: the audit log *)

Holding == {"prior", "insert", "commit"}

InTx == Holding \cup {"alloc"}

Fields == DOMAIN AtRest

(* The row a handler is about to commit extends the chain.                 *)
Extends(row) ==
  /\ row.seq = Len(entries) + 1
  /\ row.prev = (IF entries = <<>> THEN NoHash ELSE entries[Len(entries)].hash)
  /\ row.hash = Rehashed(row)
  /\ row.content \in Contents

Shapes ==
  /\ \E S : entries \in Seq(S)
  /\ host = "postgres" =>
       /\ DOMAIN conn = Procs
       /\ \A p \in Procs : DOMAIN conn[p] = {"tx", "rows", "cps"}
       /\ DOMAIN handler = Threads
       /\ \A t \in Threads : DOMAIN handler[t] = Fields

(* A handler is inside a transaction exactly when its process's connection *)
(* says so.                                                                *)
TxOwned ==
  host = "postgres" =>
    /\ \A t \in Threads : handler[t].pc \in InTx <=> conn[ProcOf[t]].tx = t
    /\ \A p \in Procs : conn[p].tx \in Threads => ProcOf[conn[p].tx] = p

LockHeld ==
  host = "postgres" =>
    \A t \in Threads : handler[t].pc \in Holding => lock = ProcOf[t]

(* What a handler has read is still true while it holds the row.           *)
ReadsHold ==
  host = "postgres" /\ intact =>
    /\ nextSeq = Len(entries) + 1
    /\ \A t \in Threads :
         /\ handler[t].pc \in Holding => handler[t].seq = nextSeq
         /\ handler[t].pc \in {"insert", "commit"} => handler[t].prev = (IF entries = <<>> THEN NoHash ELSE entries[Len(entries)].hash)

(* Only a handler about to commit has a row pending, and it is one row.    *)
Pending ==
  host = "postgres" =>
    \A p \in Procs :
      \/ conn[p].rows = <<>>
      \/ /\ conn[p].tx \in Threads
         /\ handler[conn[p].tx].pc = "commit"
         /\ \E row : conn[p].rows = <<row>> /\ (intact => Extends(row))

Inserted ==
  host = "postgres" => \A t \in Threads : handler[t].pc = "commit" => conn[ProcOf[t]].rows # <<>>

Inv == Inserted /\ Shapes /\ TxOwned /\ LockHeld /\ ReadsHold /\ Pending /\ ChainIntact

-----------------------------------------------------------------------------
(* Sequences                                                               *)

LEMMA Grown ==
  ASSUME NEW S, NEW s \in Seq(S), NEW e
  PROVE  /\ \E T : Append(s, e) \in Seq(T)
         /\ Len(Append(s, e)) = Len(s) + 1
         /\ Len(s) \in Nat /\ DOMAIN s = 1 .. Len(s) /\ DOMAIN Append(s, e) = 1 .. Len(s) + 1
         /\ Append(s, e)[Len(s) + 1] = e
         /\ \A i \in 1 .. Len(s) : Append(s, e)[i] = s[i]
         /\ s \o <<e>> = Append(s, e)
         /\ s \o <<>> = s
<1>1. s \in Seq(S \cup {e}) /\ e \in S \cup {e}
  OBVIOUS
<1>2. Append(s, e) \in Seq(S \cup {e})
  BY <1>1
<1> QED BY <1>1, <1>2

LEMMA Slots ==
  ASSUME NEW S, NEW s \in Seq(S)
  PROVE  /\ Len(s) \in Nat
         /\ DOMAIN s = 1 .. Len(s)
         /\ s = <<>> <=> Len(s) = 0
  OBVIOUS

LEMMA Joined ==
  ASSUME NEW S, NEW s \in Seq(S), NEW t \in Seq(S)
  PROVE  /\ s \o t \in Seq(S) /\ Len(s) \in Nat /\ Len(t) \in Nat /\ Len(s \o t) = Len(s) + Len(t)
         /\ \A i \in 1 .. Len(s) : (s \o t)[i] = s[i]
         /\ \A i \in Len(s) + 1 .. Len(s) + Len(t) : (s \o t)[i] = t[i - Len(s)]
OBVIOUS

(* A row that extends the chain keeps it.                                  *)
LEMMA ChainGrows ==
  ASSUME Shapes, ChainIntact, NEW row, intact => Extends(row),
         entries' = Append(entries, row), intact' = intact
  PROVE  /\ ChainIntact'
         /\ \E S : entries' \in Seq(S)
         /\ Len(entries') = Len(entries) + 1
<1>1. PICK S : entries \in Seq(S)
  BY DEF Shapes
<1>2. /\ \E T : entries' \in Seq(T)
      /\ Len(entries') = Len(entries) + 1
      /\ Len(entries) \in Nat /\ DOMAIN entries = 1 .. Len(entries) /\ DOMAIN entries' = 1 .. Len(entries) + 1
      /\ entries'[Len(entries) + 1] = row
      /\ \A i \in 1 .. Len(entries) : entries'[i] = entries[i]
  BY <1>1, Grown
<1>3. ASSUME intact', NEW i \in DOMAIN entries'
      PROVE  /\ entries'[i].seq = i
             /\ entries'[i].prev = IF i = 1 THEN NoHash ELSE entries'[i - 1].hash
             /\ entries'[i].hash = Rehashed(entries'[i])
  <2>1. CASE i = Len(entries) + 1
    <3>1. entries = <<>> <=> Len(entries) = 0
      BY <1>1, Slots
    <3>2. entries'[i] = row /\ Extends(row)
      BY <1>2, <1>3, <2>1
    <3>3. ASSUME i # 1 PROVE entries # <<>> /\ entries'[i - 1] = entries[Len(entries)]
      <4>1. Len(entries) # 0 /\ i - 1 = Len(entries) /\ Len(entries) \in 1 .. Len(entries)
        BY <1>2, <2>1, <3>3
      <4> QED BY <1>2, <3>1, <4>1
    <3>4. i = 1 => entries = <<>>
      BY <1>2, <2>1, <3>1
    <3> QED BY <1>2, <2>1, <3>2, <3>3, <3>4 DEF Extends
  <2>2. CASE i # Len(entries) + 1
    <3>1. i \in 1 .. Len(entries) /\ (i # 1 => i - 1 \in 1 .. Len(entries))
      BY <1>2, <2>2
    <3> QED BY <1>2, <1>3, <3>1 DEF ChainIntact
  <2> QED BY <2>1, <2>2
<1> QED BY <1>2, <1>3 DEF ChainIntact

-----------------------------------------------------------------------------
LEMMA InitInv == AuditInit => Inv
<1> SUFFICES ASSUME AuditInit PROVE Inv
  OBVIOUS
<1>1. Shapes
  <2>1. entries \in Seq({})
    BY DEF AuditInit
  <2> QED BY <2>1 DEF AuditInit, Shapes, Closed, Fields, AtRest
<1>2. Inserted /\ TxOwned /\ LockHeld /\ ReadsHold /\ Pending
  BY AuditAssumption DEF AuditInit, Inserted, TxOwned, LockHeld, ReadsHold, Pending, Closed, AtRest, InTx, Holding
<1>3. ChainIntact
  BY DEF AuditInit, ChainIntact
<1> QED BY <1>1, <1>2, <1>3 DEF Inv

-----------------------------------------------------------------------------
(* The single-process hosts                                                *)

LEMMA AppendedExtends ==
  ASSUME Shapes, ChainIntact, NEW c \in Contents
  PROVE  /\ intact => Extends(Row(Tip(entries) + 1, c, TipHash(entries)))
         /\ Appended(entries, c) = Append(entries, Row(Tip(entries) + 1, c, TipHash(entries)))
<1>1. PICK S : entries \in Seq(S)
  BY DEF Shapes
<1>2. Len(entries) \in Nat /\ DOMAIN entries = 1 .. Len(entries) /\ (entries = <<>> <=> Len(entries) = 0)
  BY <1>1, Slots
<1>3. ASSUME intact PROVE Tip(entries) = Len(entries)
  <2>1. CASE entries = <<>>
    BY <1>2, <2>1 DEF Tip
  <2>2. CASE entries # <<>>
    <3>1. Len(entries) \in DOMAIN entries
      BY <1>2, <2>2
    <3> QED BY <1>3, <2>2, <3>1 DEF ChainIntact, Tip
  <2> QED BY <2>1, <2>2
<1>4. TipHash(entries) = (IF entries = <<>> THEN NoHash ELSE entries[Len(entries)].hash)
  BY DEF TipHash
<1>5. ASSUME intact PROVE Extends(Row(Tip(entries) + 1, c, TipHash(entries)))
  BY <1>3, <1>4, <1>5 DEF Extends, Row, Rehashed
<1> QED BY <1>5 DEF Appended

LEMMA LocalStep ==
  ASSUME Inv, Local, NEW c \in Contents, entries' = Appended(entries, c), intact' = intact, host' = host
  PROVE  Inv'
<1> DEFINE row == Row(Tip(entries) + 1, c, TipHash(entries))
<1>1. (intact => Extends(row)) /\ entries' = Append(entries, row)
  BY AppendedExtends DEF Inv
<1> HIDE DEF row
<1>2. ChainIntact' /\ (\E S : entries' \in Seq(S))
  BY <1>1, ChainGrows DEF Inv
<1> QED BY <1>2 DEF Inv, Local, Inserted, Shapes, TxOwned, LockHeld, ReadsHold, Pending

-----------------------------------------------------------------------------
(* The handlers of a Postgres host                                         *)

LEMMA Exclusive ==
  ASSUME Inv, host = "postgres", NEW t \in Threads, NEW u \in Threads,
         handler[t].pc \in InTx, handler[u].pc \in InTx, ProcOf[t] = ProcOf[u]
  PROVE  t = u
BY DEF Inv, TxOwned

LEMMA HolderAlone ==
  ASSUME Inv, host = "postgres", NEW t \in Threads, NEW u \in Threads,
         handler[t].pc \in Holding, handler[u].pc \in Holding
  PROVE  t = u
BY Exclusive DEF Inv, LockHeld, InTx

(* A step that leaves the log, the numbers, the lock and the connections   *)
(* alone, and moves one handler between states outside a transaction.      *)
LEMMA OutsideStep ==
  ASSUME Inv, host = "postgres", NEW t \in Threads, handler[t].pc \notin InTx,
         DOMAIN handler' = Threads, DOMAIN handler'[t] = Fields, handler'[t].pc \notin InTx,
         \A u \in Threads \ {t} : handler'[u] = handler[u],
         UNCHANGED <<host, entries, nextSeq, lock, intact>>,
         DOMAIN conn' = Procs,
         \A p \in Procs : DOMAIN conn'[p] = {"tx", "rows", "cps"},
         \A p \in Procs : conn'[p].tx = conn[p].tx /\ conn'[p].rows = conn[p].rows
  PROVE  Inv'
<1> USE DEF InTx, Holding
<1>1. Shapes'
  BY DEF Inv, Shapes
<1>2. TxOwned'
  BY AuditAssumption DEF Inv, TxOwned
<1>3. LockHeld'
  BY DEF Inv, LockHeld
<1>4. ReadsHold'
  BY DEF Inv, ReadsHold
<1>5. Pending'
  <2> SUFFICES ASSUME NEW p \in Procs, conn[p].rows # <<>>
               PROVE  /\ conn[p].tx \in Threads
                      /\ handler'[conn[p].tx].pc = "commit"
                      /\ \E row : conn[p].rows = <<row>> /\ (intact => Extends(row))
    BY DEF Inv, Pending, Extends
  <2> QED BY DEF Inv, Pending
<1>6. ChainIntact'
  BY DEF Inv, ChainIntact
<1>7. Inserted'
  BY AuditAssumption DEF Inv, Inserted
<1> QED BY <1>1, <1>2, <1>3, <1>4, <1>5, <1>6, <1>7 DEF Inv

LEMMA CheckpointStep ==
  ASSUME Inv, NEW t \in Threads, TriggerCheckpoint(t)
  PROVE  Inv'
<1> USE DEF InTx, Holding
<1>1. host = "postgres" /\ handler[t].pc \notin InTx
  BY DEF TriggerCheckpoint, DueLast, DueTip, CpLast, CpTip, CpEntries, CpInsert, HandlerAt
<1>2. DOMAIN handler = Threads /\ DOMAIN handler[t] = Fields /\ DOMAIN conn = Procs
      /\ \A p \in Procs : DOMAIN conn[p] = {"tx", "rows", "cps"}
  BY <1>1 DEF Inv, Shapes
<1> DEFINE Moved == /\ DOMAIN handler' = Threads /\ DOMAIN handler'[t] = Fields /\ handler'[t].pc \notin InTx
                    /\ \A u \in Threads \ {t} : handler'[u] = handler[u]
<1>3. Moved
  <2>1. CASE DueLast(t)
    BY <1>2, <2>1 DEF DueLast, Fields, AtRest
  <2>2. CASE DueTip(t)
    <3>1. handler' = [handler EXCEPT ![t] = [AtRest EXCEPT !.pc = "cpLast"]] \/ handler' = [handler EXCEPT ![t] = AtRest]
      BY <2>2 DEF DueTip
    <3> QED BY <1>2, <3>1 DEF Fields, AtRest
  <2>3. CASE CpLast(t)
    BY <1>2, <2>3 DEF CpLast, Fields, AtRest
  <2>4. CASE CpTip(t)
    <3> DEFINE next == [handler[t] EXCEPT !.pc = "cpEntries", !.tip = Tip(LogOf(ProcOf[t]))]
    <3>1. handler' = [handler EXCEPT ![t] = AtRest] \/ handler' = [handler EXCEPT ![t] = next]
      BY <1>2, <2>4 DEF CpTip
    <3>2. DOMAIN next = Fields /\ next.pc = "cpEntries"
      BY <1>2 DEF Fields, AtRest
    <3>3. DOMAIN AtRest = Fields /\ AtRest.pc = "idle"
      BY DEF Fields, AtRest
    <3> HIDE DEF next
    <3> QED BY <1>2, <3>1, <3>2, <3>3
  <2>5. CASE CpEntries(t)
    BY <1>2, <2>5 DEF CpEntries, Fields, AtRest
  <2>6. CASE CpInsert(t)
    BY <1>2, <2>6 DEF CpInsert, Fields, AtRest
  <2> QED BY <2>1, <2>2, <2>3, <2>4, <2>5, <2>6 DEF TriggerCheckpoint
<1>4. UNCHANGED <<host, entries, nextSeq, lock, intact>>
  BY DEF TriggerCheckpoint, DueLast, DueTip, CpLast, CpTip, CpEntries, CpInsert
<1>5. /\ DOMAIN conn' = Procs
      /\ \A p \in Procs : /\ DOMAIN conn'[p] = {"tx", "rows", "cps"}
                          /\ conn'[p].tx = conn[p].tx /\ conn'[p].rows = conn[p].rows
  BY <1>2 DEF TriggerCheckpoint, DueLast, DueTip, CpLast, CpTip, CpEntries, CpInsert
<1> QED BY <1>1, <1>3, <1>4, <1>5, OutsideStep

LEMMA BeginStep ==
  ASSUME Inv, NEW t \in Threads, Begin(t)
  PROVE  Inv'
<1> USE DEF InTx, Holding
<1> DEFINE p == ProcOf[t]
<1>1. /\ host = "postgres" /\ handler[t].pc = "idle" /\ p \in Procs /\ conn[p].tx = None
      /\ DOMAIN handler = Threads /\ DOMAIN handler[t] = Fields /\ DOMAIN conn = Procs
      /\ \A q \in Procs : DOMAIN conn[q] = {"tx", "rows", "cps"}
  BY AuditAssumption DEF Begin, HandlerAt, Inv, Shapes
<1>2. /\ conn' = [conn EXCEPT ![p].tx = t] /\ handler' = [handler EXCEPT ![t].pc = "alloc"]
      /\ UNCHANGED <<host, entries, nextSeq, lock, intact>>
  BY DEF Begin, Goto
<1>3. /\ DOMAIN handler' = Threads /\ DOMAIN conn' = Procs /\ DOMAIN handler'[t] = Fields /\ handler'[t].pc = "alloc"
      /\ \A u \in Threads \ {t} : handler'[u] = handler[u]
      /\ \A q \in Procs : DOMAIN conn'[q] = {"tx", "rows", "cps"} /\ conn'[q].rows = conn[q].rows
      /\ conn'[p].tx = t /\ \A q \in Procs \ {p} : conn'[q] = conn[q]
  BY <1>1, <1>2 DEF Fields, AtRest
<1> HIDE DEF p
<1>4. Shapes'
  BY <1>2, <1>3 DEF Inv, Shapes
<1>5. TxOwned'
  <2>1. ASSUME NEW u \in Threads PROVE handler'[u].pc \in InTx <=> conn'[ProcOf[u]].tx = u
    <3>1. conn[p].tx = None /\ None \notin Threads /\ ProcOf[u] \in Procs
      BY <1>1, AuditAssumption
    <3> QED BY <1>1, <1>3, <3>1 DEF Inv, TxOwned, p
  <2>2. ASSUME NEW q \in Procs, conn'[q].tx \in Threads PROVE ProcOf[conn'[q].tx] = q
    BY <1>1, <1>3, <2>2 DEF Inv, TxOwned, p
  <2> QED BY <2>1, <2>2 DEF TxOwned
<1>6. LockHeld' /\ ReadsHold'
  BY <1>1, <1>2, <1>3 DEF Inv, LockHeld, ReadsHold
<1>7. Pending'
  <2> SUFFICES ASSUME NEW q \in Procs, conn'[q].rows # <<>>
               PROVE  /\ conn'[q].tx \in Threads /\ handler'[conn'[q].tx].pc = "commit"
                      /\ \E row : conn'[q].rows = <<row>> /\ (intact => Extends(row))
    BY <1>2 DEF Pending, Extends
  <2>1. /\ conn[q].tx \in Threads /\ handler[conn[q].tx].pc = "commit"
        /\ \E row : conn[q].rows = <<row>> /\ (intact => Extends(row))
    BY <1>1, <1>3 DEF Inv, Pending
  <2>2. q # p
    BY <1>1, <2>1, AuditAssumption
  <2> QED BY <1>1, <1>3, <2>1, <2>2
<1>8. ChainIntact'
  BY <1>2 DEF Inv, ChainIntact
<1>9. Inserted'
  BY <1>1, <1>3, AuditAssumption DEF Inv, Inserted
<1> QED BY <1>4, <1>5, <1>6, <1>7, <1>8, <1>9 DEF Inv

(* A step inside t's transaction that neither opens nor ends it and adds   *)
(* no row to its connection.                                               *)
LEMMA InsideStep ==
  ASSUME Inv, host = "postgres", NEW t \in Threads,
         handler[t].pc \in InTx \ {"commit"},
         DOMAIN handler' = Threads, DOMAIN handler'[t] = Fields, handler'[t].pc \in Holding \ {"commit"},
         \A u \in Threads \ {t} : handler'[u] = handler[u],
         UNCHANGED <<host, entries, nextSeq, conn, intact>>,
         lock \in {None, ProcOf[t]}, lock' = ProcOf[t],
         handler'[t].seq = nextSeq \/ ~ intact,
         handler'[t].pc = "insert" => handler'[t].prev = (IF entries = <<>> THEN NoHash ELSE entries[Len(entries)].hash) \/ ~ intact
  PROVE  Inv'
<1> USE DEF InTx, Holding
<1>1. Inserted' /\ Shapes' /\ TxOwned' /\ ReadsHold' /\ ChainIntact'
  BY DEF Inv, Inserted, Shapes, TxOwned, ReadsHold, ChainIntact
<1>2. LockHeld'
  <2> SUFFICES ASSUME NEW u \in Threads, u # t, handler[u].pc \in Holding PROVE ProcOf[u] = ProcOf[t]
    BY DEF LockHeld, Inv
  <2> QED BY AuditAssumption DEF Inv, LockHeld
<1>3. Pending'
  <2> SUFFICES ASSUME NEW q \in Procs, conn[q].rows # <<>>
               PROVE  /\ conn[q].tx \in Threads /\ handler'[conn[q].tx].pc = "commit"
                      /\ \E row : conn[q].rows = <<row>> /\ (intact => Extends(row))
    BY DEF Pending, Extends
  <2> QED BY DEF Inv, Pending
<1> QED BY <1>1, <1>2, <1>3 DEF Inv

LEMMA AllocStep ==
  ASSUME Inv, NEW t \in Threads, Alloc(t)
  PROVE  Inv'
<1>1. /\ host = "postgres" /\ handler[t].pc = "alloc" /\ DOMAIN handler = Threads /\ DOMAIN handler[t] = Fields
      /\ handler' = [handler EXCEPT ![t].pc = "prior", ![t].seq = nextSeq]
      /\ lock \in {None, ProcOf[t]} /\ lock' = ProcOf[t]
      /\ UNCHANGED <<host, entries, nextSeq, conn, intact>>
  BY DEF Alloc, HandlerAt, Inv, Shapes
<1>2. /\ DOMAIN handler' = Threads /\ DOMAIN handler'[t] = Fields /\ handler'[t].pc = "prior" /\ handler'[t].seq = nextSeq
      /\ \A u \in Threads \ {t} : handler'[u] = handler[u]
  BY <1>1 DEF Fields, AtRest
<1> QED BY <1>1, <1>2, InsideStep DEF InTx, Holding

LEMMA ReadPriorStep ==
  ASSUME Inv, NEW t \in Threads, ReadPrior(t)
  PROVE  Inv'
<1> DEFINE p == ProcOf[t]
<1>1. /\ host = "postgres" /\ handler[t].pc = "prior" /\ DOMAIN handler = Threads /\ DOMAIN handler[t] = Fields
      /\ handler' = [handler EXCEPT ![t].pc = "insert", ![t].prev = TipHash(LogOf(p))]
      /\ UNCHANGED <<host, entries, nextSeq, lock, conn, intact>> /\ p \in Procs
  BY AuditAssumption DEF ReadPrior, HandlerAt, Inv, Shapes
<1>2. /\ DOMAIN handler' = Threads /\ DOMAIN handler'[t] = Fields /\ handler'[t].pc = "insert"
      /\ handler'[t].seq = handler[t].seq /\ handler'[t].prev = TipHash(LogOf(p))
      /\ \A u \in Threads \ {t} : handler'[u] = handler[u]
  BY <1>1 DEF Fields, AtRest
<1>3. conn[p].tx = t /\ lock = p /\ (intact => handler[t].seq = nextSeq)
  BY <1>1 DEF Inv, TxOwned, LockHeld, ReadsHold, InTx, Holding
<1>4. LogOf(p) = entries
  <2>1. conn[p].rows = <<>>
    BY <1>1, <1>3 DEF Inv, Pending
  <2>2. PICK S : entries \in Seq(S)
    BY DEF Inv, Shapes
  <2> QED BY <2>1, <2>2, Grown DEF LogOf
<1>5. handler'[t].prev = (IF entries = <<>> THEN NoHash ELSE entries[Len(entries)].hash)
  BY <1>2, <1>4 DEF TipHash
<1> QED BY <1>1, <1>2, <1>3, <1>5, InsideStep DEF InTx, Holding

LEMMA InsertStep ==
  ASSUME Inv, NEW t \in Threads, Insert(t)
  PROVE  Inv'
<1> USE DEF InTx, Holding
<1> DEFINE p == ProcOf[t]
<1>1. /\ host = "postgres" /\ handler[t].pc = "insert" /\ p \in Procs
      /\ DOMAIN handler = Threads /\ DOMAIN handler[t] = Fields /\ DOMAIN conn = Procs
      /\ \A q \in Procs : DOMAIN conn[q] = {"tx", "rows", "cps"}
      /\ handler' = [handler EXCEPT ![t].pc = "commit"]
      /\ UNCHANGED <<host, entries, nextSeq, lock, intact>>
  BY AuditAssumption DEF Insert, Goto, HandlerAt, Inv, Shapes
<1>2. PICK c \in Contents :
        conn' = [conn EXCEPT ![p].rows = Append(@, Row(handler[t].seq, c, handler[t].prev))]
  BY DEF Insert
<1> DEFINE row == Row(handler[t].seq, c, handler[t].prev)
<1>3. conn[p].tx = t /\ conn[p].rows = <<>>
  BY <1>1 DEF Inv, TxOwned, Pending
<1>4. /\ DOMAIN handler' = Threads /\ DOMAIN handler'[t] = Fields /\ handler'[t].pc = "commit"
      /\ handler'[t].seq = handler[t].seq /\ handler'[t].prev = handler[t].prev
      /\ \A u \in Threads \ {t} : handler'[u] = handler[u]
  BY <1>1 DEF Fields, AtRest
<1>5. intact => Extends(row)
  BY <1>1 DEF Inv, ReadsHold, Extends, Row, Rehashed
<1> HIDE DEF row
<1>6. /\ DOMAIN conn' = Procs
      /\ \A q \in Procs : DOMAIN conn'[q] = {"tx", "rows", "cps"} /\ conn'[q].tx = conn[q].tx
      /\ conn'[p].rows = <<row>>
      /\ \A q \in Procs \ {p} : conn'[q].rows = conn[q].rows
  BY <1>1, <1>2, <1>3 DEF row
<1> HIDE DEF p
<1>7. Shapes' /\ LockHeld' /\ ReadsHold' /\ ChainIntact'
  BY <1>1, <1>4, <1>6 DEF Inv, Shapes, LockHeld, ReadsHold, ChainIntact
<1>8. TxOwned'
  BY <1>1, <1>4, <1>6, AuditAssumption DEF Inv, TxOwned
<1>9. Pending'
  <2> SUFFICES ASSUME NEW q \in Procs, conn'[q].rows # <<>>
               PROVE  /\ conn'[q].tx \in Threads /\ handler'[conn'[q].tx].pc = "commit"
                      /\ \E r : conn'[q].rows = <<r>> /\ (intact => Extends(r))
    BY <1>1 DEF Pending, Extends
  <2>1. CASE q = p
    BY <1>3, <1>4, <1>5, <1>6, <2>1
  <2>2. CASE q # p
    BY <1>1, <1>4, <1>6, <2>2 DEF Inv, Pending
  <2> QED BY <2>1, <2>2
<1>10. Inserted'
  BY <1>1, <1>4, <1>6, AuditAssumption DEF Inv, Inserted, p
<1> QED BY <1>7, <1>8, <1>9, <1>10 DEF Inv

(* The connection of p is closed, and every handler of p that was in a     *)
(* transaction with it; nothing lands.                                     *)
LEMMA AbandonStep ==
  ASSUME Inv, host = "postgres", NEW p \in Procs,
         conn' = [conn EXCEPT ![p] = Closed],
         lock' = IF lock = p THEN None ELSE lock,
         DOMAIN handler' = Threads,
         \A u \in Threads : DOMAIN handler'[u] = Fields,
         \A u \in Threads : ProcOf[u] = p => handler'[u].pc \notin InTx,
         \A u \in Threads : ProcOf[u] # p => handler'[u] = handler[u],
         UNCHANGED <<host, entries, nextSeq, intact>>
  PROVE  Inv'
<1> USE DEF InTx, Holding
<1>1. /\ DOMAIN conn' = Procs
      /\ \A q \in Procs : DOMAIN conn'[q] = {"tx", "rows", "cps"}
      /\ conn'[p].tx = None /\ conn'[p].rows = <<>>
      /\ \A q \in Procs \ {p} : conn'[q] = conn[q]
  BY DEF Inv, Shapes, Closed
<1>2. Shapes' /\ ReadsHold' /\ ChainIntact'
  BY <1>1 DEF Inv, Shapes, ReadsHold, ChainIntact
<1>3. TxOwned'
  <2>1. ASSUME NEW u \in Threads PROVE handler'[u].pc \in InTx <=> conn'[ProcOf[u]].tx = u
    BY <1>1, AuditAssumption DEF Inv, TxOwned
  <2>2. ASSUME NEW q \in Procs, conn'[q].tx \in Threads PROVE ProcOf[conn'[q].tx] = q
    BY <1>1, <2>2, AuditAssumption DEF Inv, TxOwned
  <2> QED BY <2>1, <2>2 DEF TxOwned
<1>4. LockHeld'
  <2> SUFFICES ASSUME NEW u \in Threads, handler'[u].pc \in Holding PROVE lock' = ProcOf[u]
    BY DEF LockHeld
  <2> QED BY DEF Inv, LockHeld
<1>5. Pending'
  <2> SUFFICES ASSUME NEW q \in Procs, conn'[q].rows # <<>>
               PROVE  /\ conn'[q].tx \in Threads /\ handler'[conn'[q].tx].pc = "commit"
                      /\ \E r : conn'[q].rows = <<r>> /\ (intact => Extends(r))
    BY DEF Pending, Extends
  <2>1. q # p /\ conn'[q] = conn[q]
    BY <1>1
  <2>2. /\ conn[q].tx \in Threads /\ handler[conn[q].tx].pc = "commit"
        /\ \E r : conn[q].rows = <<r>> /\ (intact => Extends(r))
    BY <2>1 DEF Inv, Pending
  <2>3. ProcOf[conn[q].tx] # p
    BY <2>1, <2>2, <1>1 DEF Inv, TxOwned
  <2> QED BY <2>1, <2>2, <2>3
<1>6. Inserted'
  BY <1>1, AuditAssumption DEF Inv, Inserted
<1> QED BY <1>2, <1>3, <1>4, <1>5, <1>6 DEF Inv

LEMMA RollbackStep ==
  ASSUME Inv, NEW t \in Threads, Rollback(t)
  PROVE  Inv'
<1>1. /\ host = "postgres" /\ handler[t].pc \in InTx /\ ProcOf[t] \in Procs
      /\ DOMAIN handler = Threads /\ \A u \in Threads : DOMAIN handler[u] = Fields
      /\ conn' = [conn EXCEPT ![ProcOf[t]] = Closed]
      /\ lock' = IF lock = ProcOf[t] THEN None ELSE lock
      /\ handler' = [handler EXCEPT ![t] = AtRest]
      /\ UNCHANGED <<host, entries, nextSeq, intact>>
  BY AuditAssumption DEF Rollback, HandlerAt, InTx, Holding, Inv, Shapes
<1>2. DOMAIN AtRest = Fields /\ AtRest.pc \notin InTx
  BY DEF Fields, AtRest, InTx, Holding
<1>3. \A u \in Threads : ProcOf[u] = ProcOf[t] /\ u # t => handler[u].pc \notin InTx
  BY <1>1, Exclusive
<1>4. /\ DOMAIN handler' = Threads
      /\ \A u \in Threads : DOMAIN handler'[u] = Fields
      /\ \A u \in Threads : ProcOf[u] = ProcOf[t] => handler'[u].pc \notin InTx
      /\ \A u \in Threads : ProcOf[u] # ProcOf[t] => handler'[u] = handler[u]
  BY <1>1, <1>2, <1>3
<1> QED BY <1>1, <1>4, AbandonStep

LEMMA CrashStep ==
  ASSUME Inv, NEW p \in Procs, ProcessDies(p)
  PROVE  Inv'
<1>1. DOMAIN AtRest = Fields /\ AtRest.pc \notin InTx
  BY DEF Fields, AtRest, InTx, Holding
<1>2. /\ host = "postgres" /\ \A u \in Threads : DOMAIN handler[u] = Fields
      /\ conn' = [conn EXCEPT ![p] = Closed]
      /\ lock' = IF lock = p THEN None ELSE lock
      /\ handler' = [t \in Threads |-> IF ProcOf[t] = p THEN AtRest ELSE handler[t]]
      /\ UNCHANGED <<host, entries, nextSeq, intact>>
  BY DEF ProcessDies, Inv, Shapes
<1> QED BY <1>1, <1>2, AbandonStep

(* What lands with a COMMIT: the one row its handler inserted.             *)
LEMMA CommitLands ==
  ASSUME Inv, NEW t \in Threads, Commit(t)
  PROVE  \E row : entries' = Append(entries, row) /\ (intact => Extends(row))
<1> DEFINE p == ProcOf[t]
<1>1. host = "postgres" /\ p \in Procs /\ entries' = entries \o conn[p].rows
      /\ conn[p].rows # <<>>
  BY AuditAssumption DEF Commit, HandlerAt, LogOf, Inv, Inserted
<1>2. PICK S : entries \in Seq(S)
  BY DEF Inv, Shapes
<1> HIDE DEF p
<1>3. ASSUME NEW row, conn[p].rows = <<row>>, intact => Extends(row)
      PROVE  entries' = Append(entries, row)
  BY <1>1, <1>2, <1>3, Grown
<1> QED BY <1>1, <1>3 DEF Inv, Pending

LEMMA CommitStep ==
  ASSUME Inv, NEW t \in Threads, Commit(t)
  PROVE  Inv'
<1> USE DEF InTx, Holding
<1> DEFINE p == ProcOf[t]
<1>1. /\ host = "postgres" /\ handler[t].pc = "commit" /\ p \in Procs
      /\ DOMAIN handler = Threads /\ (\A u \in Threads : DOMAIN handler[u] = Fields) /\ DOMAIN conn = Procs
      /\ nextSeq' = nextSeq + 1 /\ lock' = None /\ conn' = [conn EXCEPT ![p] = Closed]
      /\ handler' = [handler EXCEPT ![t] = [AtRest EXCEPT !.pc = "dueLast"]]
      /\ UNCHANGED <<host, intact>>
  BY AuditAssumption DEF Commit, HandlerAt, Inv, Shapes
<1>2. PICK row : entries' = Append(entries, row) /\ (intact => Extends(row))
  BY CommitLands
<1>3. ChainIntact' /\ (\E S : entries' \in Seq(S)) /\ Len(entries') = Len(entries) + 1
  BY <1>1, <1>2, ChainGrows DEF Inv
<1>4. /\ DOMAIN handler' = Threads /\ DOMAIN handler'[t] = Fields /\ handler'[t].pc = "dueLast"
      /\ \A u \in Threads \ {t} : handler'[u] = handler[u]
  BY <1>1 DEF Fields, AtRest
<1>5. \A u \in Threads \ {t} : handler[u].pc \notin Holding
  BY <1>1, HolderAlone
<1>6. \A u \in Threads \ {t} : ProcOf[u] = p => handler[u].pc \notin InTx
  BY <1>1, Exclusive
<1>7. /\ DOMAIN conn' = Procs /\ conn'[p].tx = None /\ conn'[p].rows = <<>>
      /\ DOMAIN conn'[p] = {"tx", "rows", "cps"}
      /\ \A q \in Procs \ {p} : conn'[q] = conn[q]
  BY <1>1 DEF Closed
<1>8. Shapes'
  BY <1>1, <1>3, <1>4, <1>7 DEF Inv, Shapes
<1>9. TxOwned'
  <2>1. ASSUME NEW u \in Threads PROVE handler'[u].pc \in InTx <=> conn'[ProcOf[u]].tx = u
    BY <1>4, <1>6, <1>7, <1>1, AuditAssumption DEF Inv, TxOwned
  <2>2. ASSUME NEW q \in Procs, conn'[q].tx \in Threads PROVE ProcOf[conn'[q].tx] = q
    BY <1>1, <1>7, <2>2, AuditAssumption DEF Inv, TxOwned
  <2> QED BY <2>1, <2>2 DEF TxOwned
<1>10. LockHeld' /\ Inserted'
  BY <1>4, <1>5 DEF LockHeld, Inserted
<1>11. ReadsHold'
  <2>1. \A u \in Threads : handler'[u].pc \notin Holding
    BY <1>4, <1>5
  <2> QED BY <1>1, <1>3, <2>1 DEF Inv, ReadsHold
<1>12. Pending'
  <2> SUFFICES ASSUME NEW q \in Procs, conn'[q].rows # <<>> PROVE FALSE
    BY DEF Pending
  <2>1. q # p /\ conn[q].rows # <<>>
    BY <1>7
  <2>2. conn[q].tx \in Threads /\ handler[conn[q].tx].pc = "commit"
    BY <1>1, <2>1 DEF Inv, Pending
  <2>3. conn[q].tx # t
    BY <1>1, <2>1, <2>2 DEF Inv, TxOwned
  <2> QED BY <1>5, <2>2, <2>3
<1> QED BY <1>3, <1>8, <1>9, <1>10, <1>11, <1>12 DEF Inv

-----------------------------------------------------------------------------
(* The other steps                                                         *)

LEMMA HandlerStep ==
  ASSUME Inv, NEW t \in Threads, LogAudit(t)
  PROVE  Inv'
BY BeginStep, AllocStep, ReadPriorStep, InsertStep, CommitStep, RollbackStep DEF LogAudit

(* After an outside hand only what does not speak of the chain is left.    *)
LEMMA TamperStep ==
  ASSUME Inv, ~ intact', \E S : entries' \in Seq(S), UNCHANGED <<host, nextSeq, lock, conn, handler>>
  PROVE  Inv'
<1>1. Inserted' /\ Shapes' /\ TxOwned' /\ LockHeld' /\ ReadsHold' /\ ChainIntact'
  BY DEF Inv, Inserted, Shapes, TxOwned, LockHeld, ReadsHold, ChainIntact
<1>2. Pending'
  BY DEF Inv, Pending
<1> QED BY <1>1, <1>2 DEF Inv

LEMMA EditStep ==
  ASSUME Inv, Edit
  PROVE  Inv'
<1>1. ~ intact' /\ UNCHANGED <<host, nextSeq, lock, conn, handler>>
  BY DEF Edit, local
<1>2. PICK S : entries \in Seq(S)
  BY DEF Inv, Shapes
<1>3. PICK i \in DOMAIN entries : \E new : entries' = [entries EXCEPT ![i] = new]
  BY DEF Edit
<1>4. PICK new : entries' = [entries EXCEPT ![i] = new]
  BY <1>3
<1>5. entries' \in Seq(S \cup {new})
  BY <1>2, <1>4
<1> QED BY <1>1, <1>5, TamperStep

LEMMA DeleteStep ==
  ASSUME Inv, Delete
  PROVE  Inv'
<1>1. ~ intact' /\ UNCHANGED <<host, nextSeq, lock, conn, handler>>
  BY DEF Delete, local
<1>2. PICK S : entries \in Seq(S)
  BY DEF Inv, Shapes
<1>3. PICK i \in DOMAIN entries : entries' = SubSeq(entries, 1, i - 1) \o SubSeq(entries, i + 1, Len(entries))
  BY DEF Delete
<1>4. entries' \in Seq(S)
  BY <1>2, <1>3, Slots
<1> QED BY <1>1, <1>4, TamperStep

LEMMA QuietStep ==
  ASSUME Inv, UNCHANGED <<host, entries, nextSeq, lock, conn, handler, intact>>
  PROVE  Inv'
BY DEF Inv, Inserted, Shapes, TxOwned, LockHeld, ReadsHold, Pending, ChainIntact, Extends

LEMMA StepInv == Inv /\ [AuditNext]_auditVars => Inv'
<1> SUFFICES ASSUME Inv, [AuditNext]_auditVars PROVE Inv'
  OBVIOUS
<1>1. CASE Write \/ BootV2 \/ BootSqlite
  <2>1. Local /\ intact' = intact /\ host' = host /\ \E c \in Contents : entries' = Appended(entries, c)
    BY <1>1 DEF Write, BootV2, BootSqlite, Local
  <2> QED BY <2>1, LocalStep
<1>2. CASE Stop
  BY <1>2, QuietStep DEF Stop, local
<1>3. ASSUME NEW t \in Threads, LogAudit(t) PROVE Inv'
  BY <1>3, HandlerStep
<1>4. ASSUME NEW t \in Threads, TriggerCheckpoint(t) PROVE Inv'
  BY <1>4, CheckpointStep
<1>5. ASSUME NEW p \in Procs, ProcessDies(p) PROVE Inv'
  BY <1>5, CrashStep
<1>6. CASE Edit \/ Delete
  BY <1>6, EditStep, DeleteStep
<1>7. CASE UNCHANGED auditVars
  BY <1>7, QuietStep DEF auditVars
<1> QED BY <1>1, <1>2, <1>3, <1>4, <1>5, <1>6, <1>7 DEF AuditNext

LEMMA InvHolds == AuditSpec => []Inv
<1>1. AuditInit => Inv
  BY InitInv
<1>2. Inv /\ [AuditNext]_auditVars => Inv'
  BY StepInv
<1> QED BY <1>1, <1>2, PTL DEF AuditSpec

(* The chain is whole: the numbers run from 1 without a gap and every      *)
(* entry names the hash of the one before it, for any number of processes  *)
(* and handlers, whatever is rolled back and whoever crashes.              *)
THEOREM ChainHolds == AuditSpec => []ChainIntact
<1>1. Inv => ChainIntact
  BY DEF Inv
<1> QED BY <1>1, InvHolds, PTL

-----------------------------------------------------------------------------
(* The refinement                                                          *)

Said == [i \in DOMAIN entries |-> entries[i].content]

LEMMA SaidGrows ==
  ASSUME Shapes, NEW row, entries' = Append(entries, row)
  PROVE  Said' = Append(Said, row.content)
<1>1. PICK S : entries \in Seq(S)
  BY DEF Shapes
<1>2. /\ Len(entries) \in Nat /\ DOMAIN entries = 1 .. Len(entries) /\ DOMAIN entries' = 1 .. Len(entries) + 1
      /\ entries'[Len(entries) + 1] = row
      /\ \A i \in 1 .. Len(entries) : entries'[i] = entries[i]
  BY <1>1, Grown
<1> DEFINE C == {entries[i].content : i \in DOMAIN entries}
<1>3. Said \in Seq(C) /\ Len(Said) = Len(entries)
  BY <1>2 DEF Said
<1>4. Said' = [i \in 1 .. Len(entries) + 1 |-> entries'[i].content]
  BY <1>2 DEF Said
<1>5. Append(Said, row.content) = [i \in 1 .. Len(entries) + 1 |-> IF i = Len(entries) + 1 THEN row.content ELSE Said[i]]
  BY <1>2, <1>3
<1>6. \A i \in 1 .. Len(entries) : Said[i] = entries[i].content
  BY <1>2 DEF Said
<1> HIDE DEF Said
<1>7. ASSUME NEW i \in 1 .. Len(entries) + 1
      PROVE  entries'[i].content = (IF i = Len(entries) + 1 THEN row.content ELSE Said[i])
  BY <1>2, <1>6, <1>7
<1> QED BY <1>4, <1>5, <1>7

LEMMA Grows ==
  ASSUME Inv, NEW row, entries' = Append(entries, row), intact => Extends(row), intact' = intact
  PROVE  [AppendOnly!Next]_(AppendOnly!vars)
<1>1. Said' = Append(Said, row.content)
  BY SaidGrows DEF Inv
<1>2. CASE intact
  BY <1>1, <1>2 DEF Extends, Said, AppendOnly!Next, AppendOnly!Grow
<1>3. CASE ~ intact
  BY <1>3 DEF AppendOnly!Next, AppendOnly!vars
<1> QED BY <1>2, <1>3

LEMMA StepRefines == Inv /\ [AuditNext]_auditVars => [AppendOnly!Next]_(AppendOnly!vars)
<1> SUFFICES ASSUME Inv, [AuditNext]_auditVars PROVE [AppendOnly!Next]_(AppendOnly!vars)
  OBVIOUS
<1>1. CASE Write \/ BootV2 \/ BootSqlite
  <2>1. PICK c \in Contents : entries' = Appended(entries, c)
    BY <1>1 DEF Write, BootV2, BootSqlite
  <2>2. intact' = intact
    BY <1>1 DEF Write, BootV2, BootSqlite
  <2> QED BY <2>1, <2>2, AppendedExtends, Grows DEF Inv
<1>2. ASSUME NEW t \in Threads, Commit(t) PROVE [AppendOnly!Next]_(AppendOnly!vars)
  <2>1. intact' = intact
    BY <1>2 DEF Commit
  <2> QED BY <1>2, <2>1, CommitLands, Grows
<1>3. CASE Edit \/ Delete
  <2>1. intact /\ intact' = FALSE
    BY <1>3 DEF Edit, Delete
  <2> QED BY <2>1 DEF AppendOnly!Next, AppendOnly!Tamper
<1>4. ASSUME UNCHANGED <<entries, intact>> PROVE [AppendOnly!Next]_(AppendOnly!vars)
  BY <1>4 DEF AppendOnly!vars
<1>5. CASE Stop \/ UNCHANGED auditVars
  BY <1>4, <1>5 DEF Stop, auditVars
<1>6. ASSUME NEW t \in Threads, LogAudit(t), ~ Commit(t) PROVE UNCHANGED <<entries, intact>>
  BY <1>6 DEF LogAudit, Begin, Alloc, ReadPrior, Insert, Rollback
<1>7. ASSUME NEW t \in Threads, TriggerCheckpoint(t) PROVE UNCHANGED <<entries, intact>>
  BY <1>7 DEF TriggerCheckpoint, DueLast, DueTip, CpLast, CpTip, CpEntries, CpInsert
<1>8. ASSUME NEW p \in Procs, ProcessDies(p) PROVE UNCHANGED <<entries, intact>>
  BY <1>8 DEF ProcessDies
<1> QED BY <1>1, <1>2, <1>3, <1>4, <1>5, <1>6, <1>7, <1>8 DEF AuditNext

(* Until someone tampers, audit_log is an append-only log of which each    *)
(* COMMIT (or local write) is one append.                                  *)
THEOREM RefinesAppendOnly == AuditSpec => LogIsAppendOnly
<1>1. AuditInit => AppendOnly!Init
  BY DEF AuditInit, AppendOnly!Init
<1>2. Inv /\ [AuditNext]_auditVars => [AppendOnly!Next]_(AppendOnly!vars)
  BY StepRefines
<1> QED BY <1>1, <1>2, InvHolds, PTL DEF AuditSpec, LogIsAppendOnly, AppendOnly!Spec
-----------------------------------------------------------------------------
(* The checkpoints of the single-process hosts                             *)

(* Checkpoints as they are stored: at numbers, one of them the newest.     *)
Stored(c) ==
  /\ \E S : c \in Seq(S)
  /\ \A a \in Ats(c) : a \in Nat
  /\ c # <<>> => \E a \in Ats(c) : \A b \in Ats(c) : b <= a

(* AnchorsKeepUp and what the next step needs to know of the checkpoints:  *)
(* while the host is down anything may be left to anchor, and every boot   *)
(* anchors it.                                                             *)
Anchors == Local /\ intact => Stored(cps) /\ AnchorsKeepUp

LEMMA LastIsStored ==
  ASSUME NEW c, Stored(c)
  PROVE  /\ LastAt(c) \in Nat
         /\ \A b \in Ats(c) : b <= LastAt(c)
<1>1. CASE c = <<>>
  <2>1. Ats(c) = {}
    BY <1>1 DEF Ats
  <2> QED BY <1>1, <2>1 DEF LastAt
<1>2. CASE c # <<>>
  <2>1. \E a \in Ats(c) : \A b \in Ats(c) : b <= a
    BY <1>2 DEF Stored
  <2>2. LastAt(c) \in Ats(c) /\ \A b \in Ats(c) : b <= LastAt(c)
    BY <1>2, <2>1 DEF LastAt
  <2> QED BY <2>2 DEF Stored
<1> QED BY <1>1, <1>2

(* A checkpoint of a later number becomes the newest.                      *)
LEMMA NewestIsLast ==
  ASSUME NEW c, Stored(c), NEW cp, cp.at \in Nat, LastAt(c) < cp.at
  PROVE  Stored(Append(c, cp)) /\ LastAt(Append(c, cp)) = cp.at
<1>1. PICK S : c \in Seq(S)
  BY DEF Stored
<1> DEFINE d == Append(c, cp)
<1>2. /\ \E T : d \in Seq(T)
      /\ Len(c) \in Nat /\ DOMAIN c = 1 .. Len(c) /\ DOMAIN d = 1 .. Len(c) + 1
      /\ d[Len(c) + 1] = cp /\ \A i \in 1 .. Len(c) : d[i] = c[i]
  BY <1>1, Grown
<1> HIDE DEF d
<1>3. Ats(d) = Ats(c) \cup {cp.at}
  <2>1. \A i \in DOMAIN d : d[i].at \in Ats(c) \cup {cp.at}
    BY <1>2 DEF Ats
  <2>2. \A i \in DOMAIN c : c[i].at \in Ats(d)
    BY <1>2 DEF Ats
  <2>3. cp.at \in Ats(d)
    BY <1>2 DEF Ats
  <2> QED BY <2>1, <2>2, <2>3 DEF Ats
<1>4. \A b \in Ats(d) : b \in Nat /\ b <= cp.at
  BY <1>3, LastIsStored DEF Stored
<1>5. d # <<>>
  BY <1>2
<1>6. Stored(d)
  BY <1>2, <1>3, <1>4 DEF Stored
<1>7. LastAt(d) = cp.at
  <2>1. LastAt(d) \in Ats(d) /\ \A b \in Ats(d) : b <= LastAt(d)
    BY <1>3, <1>4, <1>5 DEF LastAt
  <2>2. cp.at <= LastAt(d) /\ LastAt(d) <= cp.at /\ LastAt(d) \in Nat
    BY <1>3, <1>4, <2>1
  <2> QED BY <2>2
<1> QED BY <1>6, <1>7 DEF d

(* A checkpoint leaves nothing behind it.                                  *)
LEMMA CheckpointedAnchors ==
  ASSUME NEW c, Stored(c), NEW rows, Tip(rows) \in Nat
  PROVE  /\ Stored(Checkpointed(rows, c))
         /\ Tip(rows) <= LastAt(Checkpointed(rows, c))
<1>1. CASE Tip(rows) <= LastAt(c)
  BY <1>1 DEF Checkpointed
<1>2. CASE ~ (Tip(rows) <= LastAt(c))
  <2> DEFINE cp == Checkpoint(rows, LastAt(c) + 1, Tip(rows))
  <2>1. cp.at = Tip(rows)
    BY DEF Checkpoint
  <2>2. Checkpointed(rows, c) = Append(c, cp)
    BY <1>2 DEF Checkpointed
  <2> HIDE DEF cp
  <2> QED BY <1>2, <2>1, <2>2, NewestIsLast, LastIsStored
<1> QED BY <1>1, <1>2

LEMMA DueAnchors ==
  ASSUME NEW c, Stored(c), NEW rows, Tip(rows) \in Nat, NEW late \in BOOLEAN
  PROVE  /\ Stored(IF IsDue(Tip(rows), LastAt(c), Interval, late) THEN Checkpointed(rows, c) ELSE c)
         /\ Tip(rows) - LastAt(IF IsDue(Tip(rows), LastAt(c), Interval, late)
                                 THEN Checkpointed(rows, c) ELSE c) < Interval
<1>1. LastAt(c) \in Nat /\ Interval \in Nat \ {0}
  BY LastIsStored, AuditAssumption
<1>2. CASE IsDue(Tip(rows), LastAt(c), Interval, late)
  <2> DEFINE d == Checkpointed(rows, c)
  <2>1. Stored(d) /\ Tip(rows) <= LastAt(d)
    BY CheckpointedAnchors
  <2> HIDE DEF d
  <2>2. LastAt(d) \in Nat
    BY <2>1, LastIsStored
  <2>3. Tip(rows) - LastAt(d) < Interval
    BY <1>1, <2>1, <2>2
  <2> QED BY <1>2, <2>1, <2>3 DEF d
<1>3. CASE ~ IsDue(Tip(rows), LastAt(c), Interval, late)
  <2>1. Tip(rows) - LastAt(c) < Interval
    BY <1>1, <1>3 DEF IsDue
  <2> QED BY <1>3, <2>1
<1> QED BY <1>2, <1>3

(* The tip of a log that grew by one entry is its number.                  *)
LEMMA TipOfAppended ==
  ASSUME Inv, Local, intact, NEW c \in Contents, entries' = Appended(entries, c)
  PROVE  Tip(entries)' \in Nat
<1> DEFINE row == Row(Tip(entries) + 1, c, TipHash(entries))
<1>1. Extends(row) /\ entries' = Append(entries, row)
  BY AppendedExtends DEF Inv
<1>2. PICK S : entries \in Seq(S)
  BY DEF Inv, Shapes
<1> HIDE DEF row
<1>3. Len(entries) \in Nat /\ Len(entries') = Len(entries) + 1 /\ entries'[Len(entries) + 1] = row /\ entries' # <<>>
  BY <1>1, <1>2, Grown
<1> QED BY <1>1, <1>3 DEF Tip, Extends

LEMMA AnchorsStep == Inv /\ Anchors /\ [AuditNext]_auditVars => Anchors'
<1> SUFFICES ASSUME Inv, Anchors, [AuditNext]_auditVars, Local', intact' PROVE Stored(cps') /\ AnchorsKeepUp'
  BY DEF Anchors
<1>1. CASE UNCHANGED <<host, entries, cps, intact>> /\ (alive' => alive)
  BY <1>1 DEF Anchors, AnchorsKeepUp, Local
<1>2. CASE Write
  <2>1. Local /\ intact /\ alive /\ Stored(cps) /\ host' = host
    BY <1>2 DEF Write, Anchors, Local
  <2>2. PICK c \in Contents, late \in BOOLEAN :
          /\ entries' = Appended(entries, c)
          /\ \/ cps' = CheckpointIfDue(entries', late)
             \/ cps' = cps /\ ~ alive'
    BY <1>2 DEF Write
  <2>3. Tip(entries)' \in Nat /\ Tip(entries') \in Nat
    BY <2>1, <2>2, TipOfAppended
  <2>4. CASE cps' = CheckpointIfDue(entries', late)
    BY <2>1, <2>3, <2>4, DueAnchors DEF CheckpointIfDue, AnchorsKeepUp
  <2>5. CASE cps' = cps /\ ~ alive'
    BY <2>1, <2>5 DEF AnchorsKeepUp
  <2> QED BY <2>2, <2>4, <2>5
<1>3. CASE BootV2
  <2>1. Local /\ intact /\ Stored(cps)
    BY <1>3 DEF BootV2, Anchors, Local
  <2>2. PICK c \in Contents, late \in BOOLEAN :
          entries' = Appended(entries, c) /\ cps' = Checkpointed(entries', CheckpointIfDue(entries', late))
    BY <1>3 DEF BootV2
  <2>3. Tip(entries') \in Nat
    BY <2>1, <2>2, TipOfAppended
  <2>4. Stored(CheckpointIfDue(entries', late))
    BY <2>1, <2>3, DueAnchors DEF CheckpointIfDue
  <2>5. Stored(cps') /\ Tip(entries') <= LastAt(cps')
    BY <2>2, <2>3, <2>4, CheckpointedAnchors
  <2>6. LastAt(cps') \in Nat
    BY <2>5, LastIsStored
  <2> QED BY <2>3, <2>5, <2>6, AuditAssumption DEF AnchorsKeepUp
<1>4. CASE BootSqlite
  <2>1. Local /\ intact /\ Stored(cps)
    BY <1>4 DEF BootSqlite, Anchors, Local
  <2>2. PICK c \in Contents : entries' = Appended(entries, c) /\ cps' = Checkpointed(entries', cps)
    BY <1>4 DEF BootSqlite
  <2>3. Tip(entries') \in Nat
    BY <2>1, <2>2, TipOfAppended
  <2>4. Stored(cps') /\ Tip(entries') <= LastAt(cps')
    BY <2>1, <2>2, <2>3, CheckpointedAnchors
  <2>5. LastAt(cps') \in Nat
    BY <2>4, LastIsStored
  <2> QED BY <2>3, <2>4, <2>5, AuditAssumption DEF AnchorsKeepUp
<1>5. CASE Stop \/ UNCHANGED auditVars
  <2>1. UNCHANGED <<host, entries, cps, intact>>
    BY <1>5 DEF Stop, auditVars
  <2>2. alive' => alive
    BY <1>5 DEF Stop, auditVars
  <2> QED BY <1>1, <2>1, <2>2
<1>6. ASSUME NEW t \in Threads, LogAudit(t) \/ TriggerCheckpoint(t) PROVE FALSE
  BY <1>6 DEF LogAudit, Begin, Alloc, ReadPrior, Insert, Commit, Rollback, HandlerAt, Local,
              TriggerCheckpoint, DueLast, DueTip, CpLast, CpTip, CpEntries, CpInsert
<1>7. ASSUME NEW p \in Procs, ProcessDies(p) PROVE FALSE
  BY <1>7 DEF ProcessDies, Local
<1>8. CASE Edit \/ Delete
  BY <1>8 DEF Edit, Delete
<1> QED BY <1>2, <1>3, <1>4, <1>5, <1>6, <1>7, <1>8 DEF AuditNext

(* A single-process host that runs has an anchor within the advertised     *)
(* number of entries, whenever it died between a write and its checkpoint: *)
(* every boot closes the gap before anything else is written.              *)
THEOREM AnchorsKeepUpHolds == AuditSpec => []AnchorsKeepUp
<1>1. AuditInit => Anchors
  <2> SUFFICES ASSUME AuditInit PROVE Stored(cps) /\ AnchorsKeepUp
    BY DEF Anchors
  <2>1. cps \in Seq({}) /\ Ats(cps) = {} /\ cps = <<>>
    BY DEF AuditInit, Ats
  <2> QED BY <2>1 DEF AuditInit, Stored, AnchorsKeepUp
<1>2. Inv /\ Anchors /\ [AuditNext]_auditVars => Anchors'
  BY AnchorsStep
<1>3. Anchors => AnchorsKeepUp
  BY DEF Anchors, AnchorsKeepUp
<1> QED BY <1>1, <1>2, <1>3, InvHolds, PTL DEF AuditSpec

-----------------------------------------------------------------------------
(* Ranges of rows                                                          *)


Numberable(row) == DOMAIN row = {"seq", "content", "prev", "hash"} /\ row.seq \in Nat \ {0}

(* Rows in the order of their numbers.                                     *)
Ordered(rows) ==
  /\ \E S : rows \in Seq(S)
  /\ \A i \in DOMAIN rows : Numberable(rows[i])
  /\ \A i, j \in DOMAIN rows : i < j => rows[i].seq < rows[j].seq

UpTo(rows, n) == Cardinality({i \in DOMAIN rows : rows[i].seq <= n})

LEMMA RowsUpTo ==
  ASSUME NEW rows, Ordered(rows), NEW n \in Int
  PROVE  /\ UpTo(rows, n) \in 0 .. Len(rows)
         /\ \A i \in 1 .. Len(rows) : rows[i].seq <= n <=> i <= UpTo(rows, n)
<1>1. Len(rows) \in Nat /\ DOMAIN rows = 1 .. Len(rows)
  BY DEF Ordered, Numberable
<1> DEFINE within == {i \in DOMAIN rows : rows[i].seq <= n}
           beyond == {i \in 1 .. Len(rows) + 1 : i = Len(rows) + 1 \/ ~(rows[i].seq <= n)}
<1>2. PICK m \in beyond : \A k \in beyond : m <= k
  <2>1. beyond \subseteq Nat /\ Len(rows) + 1 \in beyond
    BY <1>1
  <2> HIDE DEF beyond
  <2> QED BY <2>1, LeastNatural
<1>3. \A i \in 1 .. Len(rows) : rows[i].seq <= n <=> i <= m - 1
  <2> TAKE i \in 1 .. Len(rows)
  <2>1. CASE i < m
    BY <1>1, <1>2, <2>1
  <2>2. CASE i = m
    BY <1>1, <1>2, <2>2
  <2>3. CASE m < i
    <3>1. m \in 1 .. Len(rows) /\ ~(rows[m].seq <= n)
      BY <1>1, <1>2, <2>3
    <3>2. rows[m].seq < rows[i].seq /\ rows[m].seq \in Nat /\ rows[i].seq \in Nat
      BY <1>1, <2>3, <3>1 DEF Ordered, Numberable
    <3> QED BY <2>3, <3>1, <3>2
  <2> QED BY <1>1, <1>2, <2>1, <2>2, <2>3
<1>4. within = 1 .. m - 1 /\ m - 1 \in 0 .. Len(rows)
  BY <1>1, <1>2, <1>3
<1>5. Cardinality(1 .. m - 1) = m - 1
  BY <1>4, <1>1, FS_Interval
<1> QED BY <1>3, <1>4, <1>5 DEF UpTo

(* What a query of a range finds, and where.                               *)
LEMMA BetweenRows ==
  ASSUME NEW rows, Ordered(rows), NEW lo \in Nat \ {0}, NEW hi \in Nat
  PROVE  LET walked == Between(rows, lo, hi) IN
         /\ \E S : walked \in Seq(S)
         /\ \A k \in DOMAIN walked : walked[k].seq \in lo .. hi /\ \E i \in DOMAIN rows : walked[k] = rows[i]
         /\ \A i \in DOMAIN rows : rows[i].seq \in lo .. hi => \E k \in DOMAIN walked : walked[k] = rows[i]
<1> DEFINE a == UpTo(rows, lo - 1)
           b == UpTo(rows, hi)
           walked == Between(rows, lo, hi)
<1>1. PICK S : rows \in Seq(S)
  BY DEF Ordered, Numberable
<1>2. Len(rows) \in Nat /\ DOMAIN rows = 1 .. Len(rows) /\ \A i \in 1 .. Len(rows) : rows[i].seq \in Nat \ {0}
  BY <1>1 DEF Ordered, Numberable
<1>3. /\ a \in 0 .. Len(rows) /\ b \in 0 .. Len(rows)
      /\ \A i \in 1 .. Len(rows) : rows[i].seq <= lo - 1 <=> i <= a
      /\ \A i \in 1 .. Len(rows) : rows[i].seq <= hi <=> i <= b
  <2>1. lo - 1 \in Int /\ hi \in Int
    OBVIOUS
  <2>2. /\ a \in 0 .. Len(rows)
        /\ \A i \in 1 .. Len(rows) : rows[i].seq <= lo - 1 <=> i <= a
    BY <2>1, RowsUpTo
  <2>3. /\ b \in 0 .. Len(rows)
        /\ \A i \in 1 .. Len(rows) : rows[i].seq <= hi <=> i <= b
    BY <2>1, RowsUpTo
  <2> QED BY <2>2, <2>3
<1>4. walked = SubSeq(rows, a + 1, b)
  BY DEF Between, UpTo
<1> HIDE DEF a, b, walked
<1>5. /\ walked \in Seq(S)
      /\ DOMAIN walked = 1 .. (IF a + 1 <= b THEN b - a ELSE 0)
      /\ \A k \in DOMAIN walked : walked[k] = rows[a + k]
  <2>1. CASE a + 1 <= b
    <3>1. a + 1 \in Int /\ b \in Int /\ b - (a + 1) + 1 = b - a /\ \A i \in a + 1 .. b : i \in 1 .. Len(rows)
      BY <1>2, <1>3, <2>1
    <3> \A i \in a + 1 .. b : rows[i] \in S
      BY <1>1, <1>2, <3>1
    <3>2. /\ walked \in Seq(S) /\ Len(walked) = b - (a + 1) + 1
          /\ \A k \in 1 .. b - (a + 1) + 1 : walked[k] = rows[(a + 1) + k - 1]
      BY <1>4, <2>1, <3>1, SubSeqProperties
    <3>3. \A k \in 1 .. b - a : (a + 1) + k - 1 = a + k
      BY <1>3
    <3>4. \A k \in 1 .. b - a : walked[k] = rows[a + k]
      BY <3>1, <3>2, <3>3
    <3>5. DOMAIN walked = 1 .. Len(walked)
      BY <3>2
    <3> QED BY <2>1, <3>1, <3>2, <3>4, <3>5
  <2>2. CASE ~(a + 1 <= b)
    <3>1. a + 1 \in Int /\ b \in Int /\ b < a + 1
      BY <1>2, <1>3, <2>2
    <3>2. walked = <<>>
      BY <1>4, <3>1, SubSeqEmpty
    <3> QED BY <2>2, <3>2
  <2> QED BY <2>1, <2>2
<1>6. ASSUME NEW k \in DOMAIN walked
      PROVE  walked[k].seq \in lo .. hi /\ \E i \in DOMAIN rows : walked[k] = rows[i]
  <2>1. a + k \in 1 .. Len(rows) /\ a + k <= b /\ ~(a + k <= a)
    BY <1>2, <1>3, <1>5, <1>6
  <2> QED BY <1>2, <1>3, <1>5, <1>6, <2>1
<1>7. ASSUME NEW i \in DOMAIN rows, rows[i].seq \in lo .. hi
      PROVE  \E k \in DOMAIN walked : walked[k] = rows[i]
  <2>1. i <= b /\ ~(i <= a)
    BY <1>2, <1>3, <1>7
  <2>2. i - a \in DOMAIN walked /\ a + (i - a) = i
    BY <1>2, <1>3, <1>5, <1>7, <2>1
  <2> QED BY <1>5, <2>2
<1> QED BY <1>5, <1>6, <1>7 DEF walked

(* The numbers of a range that end in one the table has not been cut to.   *)
LEMMA Clamped ==
  ASSUME NEW rows, Ordered(rows), NEW i \in DOMAIN rows, NEW from \in Nat, NEW to \in Nat,
         NEW s \in Nat \ {0}, from <= s, s <= rows[i].seq, rows[i].seq <= to
  PROVE  /\ Low(from) \in Nat \ {0} /\ Low(from) <= s
         /\ High(rows, to) \in Nat /\ rows[i].seq <= High(rows, to) /\ rows[i].seq \in Nat
<1>1. Len(rows) \in Nat /\ DOMAIN rows = 1 .. Len(rows) /\ (rows = <<>> <=> Len(rows) = 0)
  BY DEF Ordered, Numberable
<1>2. Len(rows) \in DOMAIN rows /\ Tip(rows) = rows[Len(rows)].seq
  BY <1>1 DEF Tip
<1>3. Tip(rows) \in Nat /\ rows[i].seq \in Nat /\ rows[i].seq <= Tip(rows)
  <2>1. i = Len(rows) \/ i < Len(rows)
    BY <1>1
  <2>2. rows[i].seq \in Nat /\ rows[Len(rows)].seq \in Nat
    BY <1>2 DEF Ordered, Numberable
  <2>3. i < Len(rows) => rows[i].seq < rows[Len(rows)].seq
    BY <1>2 DEF Ordered, Numberable
  <2> QED BY <1>2, <2>1, <2>2, <2>3
<1> QED BY <1>3 DEF Low, High

(* Where the row after s no longer follows the row s, or there is none, a  *)
(* walk over both reports it.                                              *)
Broken(rows, s) ==
  /\ \E i \in DOMAIN rows : rows[i].seq = s + 1
  /\ \A i, j \in DOMAIN rows : rows[i].seq = s /\ rows[j].seq = s + 1 => rows[j].prev # Rehashed(rows[i])

LEMMA BrokenReported ==
  ASSUME NEW rows, Ordered(rows), NEW cs, NEW s \in Nat \ {0}, Broken(rows, s),
         NEW from \in Nat, NEW to \in Nat, from <= s, s + 1 <= to
  PROVE  VerifyAuditChain(rows, cs, from, to) # {} /\ Verify(rows, cs, from, to) # {}
<1>1. PICK j \in DOMAIN rows : rows[j].seq = s + 1
  BY DEF Broken
<1> DEFINE lo == Low(from)
           hi == High(rows, to)
           walked == Between(rows, lo, hi)
           number(k) == IF k = 1 THEN lo ELSE walked[k - 1].seq + 1
           prev(k) == IF k > 1 THEN Rehashed(walked[k - 1]) ELSE TipHash(Between(rows, lo - 1, lo - 1))
<1>2. lo \in Nat \ {0} /\ lo <= s /\ hi \in Nat /\ s + 1 <= hi
  BY <1>1, Clamped
<1> HIDE DEF lo, hi
<1>3. /\ \E S : walked \in Seq(S)
      /\ \A k \in DOMAIN walked : walked[k].seq \in lo .. hi /\ \E i \in DOMAIN rows : walked[k] = rows[i]
      /\ \A i \in DOMAIN rows : rows[i].seq \in lo .. hi => \E k \in DOMAIN walked : walked[k] = rows[i]
  BY <1>2, BetweenRows
<1> HIDE DEF walked
<1>4. PICK k \in DOMAIN walked : walked[k] = rows[j]
  BY <1>1, <1>2, <1>3
<1>5. Len(walked) \in Nat /\ DOMAIN walked = 1 .. Len(walked)
  BY <1>3
<1>6. walked[k].seq # number(k) \/ walked[k].prev # prev(k)
  <2>1. CASE k = 1
    BY <1>1, <1>2, <1>4, <2>1
  <2>2. CASE k # 1
    <3>1. k - 1 \in DOMAIN walked /\ k > 1 /\ number(k) = walked[k - 1].seq + 1 /\ prev(k) = Rehashed(walked[k - 1])
      BY <1>5, <2>2
    <3>2. PICK i \in DOMAIN rows : walked[k - 1] = rows[i]
      BY <1>3, <3>1
    <3>3. CASE rows[i].seq = s
      BY <1>1, <1>4, <3>1, <3>2, <3>3 DEF Broken
    <3>4. CASE rows[i].seq # s
      <4>1. rows[i].seq \in Nat
        BY DEF Ordered, Numberable
      <4> QED BY <1>1, <1>4, <3>1, <3>2, <3>4, <4>1
    <3> QED BY <3>3, <3>4
  <2> QED BY <2>1, <2>2
<1>7. EntryAnomalies(rows, lo, hi) # {}
  <2>1. CASE walked[k].seq # number(k)
    <3>1. <<"missing-entry", number(k)>> \in EntryAnomalies(rows, lo, hi)
      BY <2>1 DEF EntryAnomalies, walked
    <3> QED BY <3>1
  <2>2. CASE walked[k].prev # prev(k)
    <3>1. <<"chain-break", walked[k].seq>> \in EntryAnomalies(rows, lo, hi)
      BY <2>2 DEF EntryAnomalies, walked
    <3> QED BY <3>1
  <2> QED BY <1>6, <2>1, <2>2
<1> QED BY <1>7 DEF VerifyAuditChain, Verify, lo, hi

-----------------------------------------------------------------------------
(* Merkle trees                                                            *)

Leafy(l) == (\E S : l \in Seq(S)) /\ l # <<>>

LEMMA PairedLevel ==
  ASSUME NEW l, Leafy(l)
  PROVE  /\ Leafy(Paired(l))
         /\ Len(l) \in Nat /\ Len(l) >= 1 /\ Len(Paired(l)) = (Len(l) + 1) \div 2
         /\ Paired(l)[1] = l[1] \/ Paired(l)[1] = <<"node", l[1], l[2]>>
<1>1. Len(l) \in Nat /\ Len(l) >= 1
  BY DEF Leafy
<1> DEFINE n == (Len(l) + 1) \div 2
           S == {Paired(l)[i] : i \in 1 .. n}
<1>2. n \in Nat /\ n >= 1
  BY <1>1
<1>3. Paired(l) = [i \in 1 .. n |-> IF 2 * i > Len(l) THEN l[2 * i - 1] ELSE <<"node", l[2 * i - 1], l[2 * i]>>]
  BY DEF Paired
<1> HIDE DEF n
<1>4. DOMAIN Paired(l) = 1 .. n /\ \A i \in 1 .. n : Paired(l)[i] \in S
  BY <1>3
<1>5. Paired(l) = [i \in 1 .. n |-> Paired(l)[i]]
  BY <1>3
<1> HIDE DEF S
<1>6. Paired(l) \in [1 .. n -> S]
  BY <1>4, <1>5
<1>7. Paired(l) \in Seq(S) /\ Len(Paired(l)) = n
  BY <1>2, <1>6
<1>8. Paired(l) # <<>>
  BY <1>2, <1>7
<1>9. Paired(l)[1] = l[1] \/ Paired(l)[1] = <<"node", l[1], l[2]>>
  BY <1>2, <1>3
<1> QED BY <1>1, <1>7, <1>8, <1>9 DEF n, Leafy

(* Levels of one length have one level above them only if they are equal.  *)
LEMMA PairedInjective ==
  ASSUME NEW l, NEW m, Leafy(l), Leafy(m), Len(l) = Len(m), Paired(l) = Paired(m)
  PROVE  l = m
<1>1. Len(l) \in Nat /\ DOMAIN l = 1 .. Len(l) /\ DOMAIN m = 1 .. Len(l)
  BY DEF Leafy
<1>2. ASSUME NEW k \in 1 .. (Len(l) + 1) \div 2
      PROVE  /\ l[2 * k - 1] = m[2 * k - 1]
             /\ 2 * k <= Len(l) => l[2 * k] = m[2 * k]
  <2>1. Paired(l)[k] = IF 2 * k > Len(l) THEN l[2 * k - 1] ELSE <<"node", l[2 * k - 1], l[2 * k]>>
    BY DEF Paired
  <2>2. Paired(m)[k] = IF 2 * k > Len(l) THEN m[2 * k - 1] ELSE <<"node", m[2 * k - 1], m[2 * k]>>
    BY DEF Paired
  <2> QED BY <1>1, <2>1, <2>2
<1>3. ASSUME NEW i \in 1 .. Len(l) PROVE l[i] = m[i]
  <2>1. PICK k \in 1 .. (Len(l) + 1) \div 2 : i = 2 * k \/ i = 2 * k - 1
    <3>1. (i + 1) \div 2 \in 1 .. (Len(l) + 1) \div 2 /\ (i = 2 * ((i + 1) \div 2) \/ i = 2 * ((i + 1) \div 2) - 1)
      BY <1>1
    <3> QED BY <3>1
  <2> QED BY <1>2, <2>1
<1>4. l = [i \in 1 .. Len(l) |-> l[i]] /\ m = [i \in 1 .. Len(l) |-> m[i]]
  BY <1>1 DEF Leafy
<1> QED BY <1>3, <1>4

Tree(tree, leaves, m) ==
  /\ tree = [n \in 0 .. m |-> tree[n]]
  /\ tree[0] = leaves
  /\ \A n \in 1 .. m : tree[n] = Paired(tree[n - 1])

LEMMA TreeExists ==
  ASSUME NEW leaves, NEW m \in Nat
  PROVE  \E tree : Tree(tree, leaves, m)
<1> DEFINE Bad == {n \in Nat : ~ \E tree : Tree(tree, leaves, n)}
<1>1. SUFFICES ASSUME Bad # {} PROVE FALSE
  OBVIOUS
<1>2. PICK n \in Bad : \A k \in Bad : n <= k
  <2>1. Bad \subseteq Nat
    OBVIOUS
  <2> HIDE DEF Bad
  <2> QED BY <1>1, <2>1, LeastNatural
<1>3. CASE n = 0
  <2>1. Tree([i \in 0 .. 0 |-> leaves], leaves, 0)
    BY DEF Tree
  <2> QED BY <1>3, <2>1
<1>4. CASE n # 0
  <2>1. n - 1 \in Nat /\ ~(n <= n - 1)
    BY <1>4
  <2>2. PICK tree : Tree(tree, leaves, n - 1)
    BY <1>2, <2>1
  <2> DEFINE above == [i \in 0 .. n |-> IF i = n THEN Paired(tree[n - 1]) ELSE tree[i]]
  <2>3. Tree(above, leaves, n)
    <3>1. \A i \in 0 .. n - 1 : above[i] = tree[i]
      BY <1>2
    <3>2. above[n] = Paired(above[n - 1])
      BY <2>1, <3>1
    <3>3. \A i \in 1 .. n - 1 : i - 1 \in 0 .. n - 1 /\ i \in 0 .. n - 1 /\ tree[i] = Paired(tree[i - 1])
      <4>1. \A i \in 1 .. n - 1 : tree[i] = Paired(tree[i - 1])
        BY <2>2 DEF Tree
      <4>2. \A i \in 1 .. n - 1 : i - 1 \in 0 .. n - 1 /\ i \in 0 .. n - 1
        BY <1>2
      <4> QED BY <4>1, <4>2
    <3>4. above[0] = leaves
      BY <2>1, <2>2, <3>1 DEF Tree
    <3>5. above = [i \in 0 .. n |-> above[i]]
      OBVIOUS
    <3> HIDE DEF above
    <3>6. ASSUME NEW i \in 1 .. n PROVE above[i] = Paired(above[i - 1])
      <4>1. CASE i = n
        BY <3>2, <4>1
      <4>2. CASE i # n
        <5>1. i \in 1 .. n - 1
          BY <1>2, <4>2
        <5> QED BY <3>1, <3>3, <5>1
      <4> QED BY <4>1, <4>2
    <3> QED BY <3>4, <3>5, <3>6 DEF Tree
  <2> QED BY <2>3
<1> QED BY <1>3, <1>4

LEMMA RootOfTree ==
  ASSUME NEW leaves, Leafy(leaves)
  PROVE  \E tree : Tree(tree, leaves, Len(leaves)) /\ MerkleRoot(leaves) = tree[Len(leaves)][1]
<1>1. Len(leaves) \in Nat
  BY DEF Leafy
<1>2. PICK f : Tree(f, leaves, Len(leaves))
  BY <1>1, TreeExists
<1> DEFINE tree == CHOOSE g : g = [n \in 0 .. Len(leaves) |-> IF n = 0 THEN leaves ELSE Paired(g[n - 1])]
<1>3. f = [n \in 0 .. Len(leaves) |-> IF n = 0 THEN leaves ELSE Paired(f[n - 1])]
  <2>1. \A n \in 0 .. Len(leaves) : f[n] = IF n = 0 THEN leaves ELSE Paired(f[n - 1])
    BY <1>1, <1>2 DEF Tree
  <2>2. f = [n \in 0 .. Len(leaves) |-> f[n]]
    BY <1>2 DEF Tree
  <2> QED BY <2>1, <2>2
<1>4. tree = [n \in 0 .. Len(leaves) |-> IF n = 0 THEN leaves ELSE Paired(tree[n - 1])]
  BY <1>3, Zenon
<1>5. MerkleRoot(leaves) = tree[Len(leaves)][1]
  BY Zenon DEF MerkleRoot, Leafy
<1> HIDE DEF tree
<1>6. Tree(tree, leaves, Len(leaves))
  <2>1. \A n \in 0 .. Len(leaves) : tree[n] = IF n = 0 THEN leaves ELSE Paired(tree[n - 1])
    BY <1>4
  <2>2. tree = [n \in 0 .. Len(leaves) |-> tree[n]]
    BY <1>4
  <2> QED BY <1>1, <2>1, <2>2 DEF Tree
<1> QED BY <1>5, <1>6

(* Every level but the leaves is shorter, until it is one node.            *)
LEMMA TreeLevels ==
  ASSUME NEW leaves, Leafy(leaves), NEW m \in Nat, NEW tree, Tree(tree, leaves, m), NEW k \in 0 .. m
  PROVE  /\ Leafy(tree[k])
         /\ Len(tree[k]) \in Nat
         /\ Len(tree[k]) = 1 \/ Len(tree[k]) <= Len(leaves) - k
<1> DEFINE Good(i) == /\ Leafy(tree[i]) /\ Len(tree[i]) \in Nat
                      /\ Len(tree[i]) = 1 \/ Len(tree[i]) <= Len(leaves) - i
           Bad == {i \in 0 .. m : ~ Good(i)}
<1>1. SUFFICES ASSUME Bad # {} PROVE FALSE
  OBVIOUS
<1>2. PICK n \in Bad : \A i \in Bad : n <= i
  <2>1. Bad \subseteq Nat
    OBVIOUS
  <2> HIDE DEF Bad
  <2> QED BY <1>1, <2>1, LeastNatural
<1>3. Good(0)
  <2>1. tree[0] = leaves /\ Len(leaves) \in Nat
    BY DEF Tree, Leafy
  <2> QED BY <2>1
<1>4. n # 0
  BY <1>2, <1>3
<1>5. n \in 1 .. m /\ Good(n - 1)
  <2>1. n \in 1 .. m /\ n - 1 \in 0 .. m /\ ~(n <= n - 1)
    BY <1>2, <1>4
  <2> QED BY <1>2, <2>1
<1>6. Good(n)
  <2>1. tree[n] = Paired(tree[n - 1])
    BY <1>5 DEF Tree
  <2>2. /\ Leafy(tree[n]) /\ Len(tree[n - 1]) >= 1 /\ Len(tree[n]) = (Len(tree[n - 1]) + 1) \div 2
    BY <1>5, <2>1, PairedLevel
  <2>3. Len(leaves) \in Nat
    BY DEF Leafy
  <2> DEFINE a == Len(tree[n - 1])
             b == Len(tree[n])
  <2>4. a \in Nat /\ a >= 1 /\ b = (a + 1) \div 2 /\ (a = 1 \/ a <= Len(leaves) - (n - 1))
    BY <1>5, <2>2
  <2> HIDE DEF a, b
  <2>5. b \in Nat /\ (b = 1 \/ b <= a - 1)
    BY <2>4
  <2>6. b = 1 \/ b <= Len(leaves) - n
    BY <1>5, <2>3, <2>4, <2>5
  <2> QED BY <2>2, <2>5, <2>6 DEF b
<1> QED BY <1>2, <1>6

(* Leaves of one number have one root only if they are the same.           *)
LEMMA SameRootSameLeaves ==
  ASSUME NEW l, NEW m, Leafy(l), Leafy(m), Len(l) = Len(m), MerkleRoot(l) = MerkleRoot(m)
  PROVE  l = m
<1>1. Len(l) \in Nat
  BY DEF Leafy
<1>2. PICK tree : Tree(tree, l, Len(l)) /\ MerkleRoot(l) = tree[Len(l)][1]
  BY RootOfTree
<1>3. PICK other : Tree(other, m, Len(l)) /\ MerkleRoot(m) = other[Len(l)][1]
  BY RootOfTree
<1>4. \A k \in 0 .. Len(l) : /\ Leafy(tree[k]) /\ Len(tree[k]) \in Nat /\ (Len(tree[k]) = 1 \/ Len(tree[k]) <= Len(l) - k)
                             /\ Leafy(other[k]) /\ Len(other[k]) \in Nat /\ (Len(other[k]) = 1 \/ Len(other[k]) <= Len(l) - k)
  BY <1>1, <1>2, <1>3, TreeLevels
<1>5. \A k \in 1 .. Len(l) : k - 1 \in 0 .. Len(l) /\ tree[k] = Paired(tree[k - 1]) /\ other[k] = Paired(other[k - 1])
  <2>1. \A k \in 1 .. Len(l) : k - 1 \in 0 .. Len(l)
    BY <1>1
  <2>2. \A k \in 1 .. Len(l) : tree[k] = Paired(tree[k - 1])
    BY <1>2, Zenon DEF Tree
  <2>3. \A k \in 1 .. Len(l) : other[k] = Paired(other[k - 1])
    BY <1>3, Zenon DEF Tree
  <2> QED BY <2>1, <2>2, <2>3, Zenon
<1> DEFINE Uneven == {k \in 0 .. Len(l) : Len(tree[k]) # Len(other[k])}
           Equal == {k \in 0 .. Len(l) : tree[k] = other[k]}
<1>6. Uneven = {}
  <2>1. SUFFICES ASSUME Uneven # {} PROVE FALSE
    OBVIOUS
  <2>2. PICK k \in Uneven : \A i \in Uneven : k <= i
    <3>1. Uneven \subseteq Nat
      OBVIOUS
    <3> HIDE DEF Uneven
    <3> QED BY <2>1, <3>1, LeastNatural
  <2>3. k # 0
    BY <1>2, <1>3, <2>2 DEF Tree
  <2>4. k \in 1 .. Len(l) /\ k - 1 \notin Uneven
    BY <2>2, <2>3
  <2>5. Len(tree[k - 1]) = Len(other[k - 1])
    BY <1>5, <2>4
  <2>6. Len(tree[k]) = Len(other[k])
    BY <1>4, <1>5, <2>4, <2>5, PairedLevel
  <2> QED BY <2>2, <2>6
<1>7. Len(l) \in Equal
  <2>1. Len(l) \in 0 .. Len(l) /\ tree[Len(l)][1] = other[Len(l)][1]
    <3>1. Len(l) \in 0 .. Len(l)
      BY <1>1
    <3>2. tree[Len(l)][1] = other[Len(l)][1]
      BY <1>2, <1>3, Zenon
    <3> QED BY <3>1, <3>2
  <2> DEFINE a == tree[Len(l)]
             b == other[Len(l)]
  <2>2. Leafy(a) /\ Leafy(b) /\ Len(a) \in Nat /\ Len(b) \in Nat /\ a[1] = b[1]
        /\ (Len(a) = 1 \/ Len(a) <= 0) /\ (Len(b) = 1 \/ Len(b) <= 0)
    BY <1>1, <1>4, <2>1
  <2> HIDE DEF a, b
  <2>3. Len(a) = 1 /\ Len(b) = 1
    BY <2>2 DEF Leafy
  <2>4. a = b
    BY <2>2, <2>3 DEF Leafy
  <2> QED BY <2>1, <2>4 DEF a, b
<1>8. PICK k \in Equal : \A i \in Equal : k <= i
  <2>1. Equal \subseteq Nat
    OBVIOUS
  <2> HIDE DEF Equal
  <2> QED BY <1>7, <2>1, LeastNatural
<1>9. k = 0
  <2>1. SUFFICES ASSUME k # 0 PROVE FALSE
    OBVIOUS
  <2>2. k \in 1 .. Len(l) /\ k - 1 \notin Equal
    BY <1>8, <2>1
  <2>3. Len(tree[k - 1]) = Len(other[k - 1])
    BY <1>5, <1>6, <2>2
  <2>4. Paired(tree[k - 1]) = Paired(other[k - 1])
    BY <1>5, <1>8, <2>2
  <2>5. tree[k - 1] = other[k - 1]
    BY <1>4, <1>5, <2>2, <2>3, <2>4, PairedInjective
  <2> QED BY <1>5, <2>2, <2>5
<1> QED BY <1>2, <1>3, <1>8, <1>9 DEF Tree

(* What is leftmost in a tree, level by level.                             *)
Spine(x, m) ==
  /\ x[0][1] = "entry"
  /\ \A n \in 1 .. m : x[n] = x[n - 1] \/ \E y : x[n] = <<"node", x[n - 1], y>>

LEMMA SpinesMeet ==
  ASSUME NEW x, NEW y, NEW m \in Nat, NEW n \in Nat, Spine(x, m), Spine(y, n), x[m] = y[n]
  PROVE  x[0] = y[0]
<1> DEFINE Met == {i \in 0 .. m : \E k \in 0 .. n : x[i] = y[k]}
<1>1. PICK i \in Met : \A e \in Met : i <= e
  <2>1. Met \subseteq Nat /\ m \in Met
    OBVIOUS
  <2> HIDE DEF Met
  <2> QED BY <2>1, LeastNatural
<1> DEFINE At0 == {k \in 0 .. n : x[i] = y[k]}
<1>2. PICK k \in At0 : \A e \in At0 : k <= e
  <2>1. At0 \subseteq Nat /\ At0 # {}
    BY <1>1
  <2> HIDE DEF At0
  <2> QED BY <2>1, LeastNatural
<1>3. k # 0 => k \in 1 .. n /\ k - 1 \in 0 .. n /\ k - 1 \notin At0
  BY <1>2
<1>4. k # 0 => \E z : y[k] = <<"node", y[k - 1], z>>
  BY <1>2, <1>3 DEF Spine
<1>5. i # 0 => i \in 1 .. m /\ i - 1 \in 0 .. m /\ i - 1 \notin Met
  BY <1>1
<1>6. i # 0 => \E z : x[i] = <<"node", x[i - 1], z>>
  <2>1. ASSUME i # 0 PROVE x[i] # x[i - 1]
    BY <1>1, <1>5, <2>1
  <2> QED BY <1>5, <2>1 DEF Spine
<1>7. x[i] = y[k] /\ k \in 0 .. n
  BY <1>2
<1> HIDE DEF Met, At0
<1>8. \A u, z : <<"node", u, z>>[1] # "entry"
  OBVIOUS
<1>9. i = 0 /\ k = 0
  <2>1. CASE i = 0 /\ k # 0
    BY <1>4, <1>7, <1>8, <2>1 DEF Spine
  <2>2. CASE i # 0 /\ k = 0
    BY <1>6, <1>7, <1>8, <2>2 DEF Spine
  <2>3. CASE i # 0 /\ k # 0
    <3>1. x[i - 1] = y[k - 1]
      BY <1>4, <1>6, <1>7, <2>3
    <3> QED BY <1>3, <1>5, <2>3, <3>1 DEF Met
  <2> QED BY <2>1, <2>2, <2>3
<1> QED BY <1>7, <1>9

(* Entries of any numbers have one root only if the first is the same.     *)
LEMMA SameRootSameFirst ==
  ASSUME NEW l, NEW m, Leafy(l), Leafy(m), l[1][1] = "entry", m[1][1] = "entry", MerkleRoot(l) = MerkleRoot(m)
  PROVE  l[1] = m[1]
<1>1. ASSUME NEW leaves, Leafy(leaves), leaves[1][1] = "entry"
      PROVE  \E x : Spine(x, Len(leaves)) /\ x[0] = leaves[1] /\ x[Len(leaves)] = MerkleRoot(leaves) /\ Len(leaves) \in Nat
  <2>1. PICK tree : Tree(tree, leaves, Len(leaves)) /\ MerkleRoot(leaves) = tree[Len(leaves)][1]
    BY <1>1, RootOfTree
  <2>2. Len(leaves) \in Nat
    BY <1>1 DEF Leafy
  <2> DEFINE x == [i \in 0 .. Len(leaves) |-> tree[i][1]]
  <2>3. ASSUME NEW n \in 1 .. Len(leaves)
        PROVE  x[n] = x[n - 1] \/ \E y : x[n] = <<"node", x[n - 1], y>>
    <3>1. n - 1 \in 0 .. Len(leaves) /\ n \in 0 .. Len(leaves) /\ tree[n] = Paired(tree[n - 1])
      <4>1. n - 1 \in 0 .. Len(leaves) /\ n \in 0 .. Len(leaves)
        BY <2>2
      <4>2. tree[n] = Paired(tree[n - 1])
        BY <2>1 DEF Tree
      <4> QED BY <4>1, <4>2
    <3>2. Leafy(tree[n - 1])
      BY <1>1, <2>1, <2>2, <3>1, TreeLevels
    <3>3. tree[n][1] = tree[n - 1][1] \/ tree[n][1] = <<"node", tree[n - 1][1], tree[n - 1][2]>>
      BY <3>1, <3>2, PairedLevel
    <3>4. x[n] = tree[n][1] /\ x[n - 1] = tree[n - 1][1]
      BY <3>1
    <3> HIDE DEF x
    <3> QED BY <3>3, <3>4
  <2>4. x[0] = leaves[1] /\ x[Len(leaves)] = MerkleRoot(leaves)
    BY <2>1, <2>2 DEF Tree
  <2> HIDE DEF x
  <2> QED BY <1>1, <2>2, <2>3, <2>4 DEF Spine
<1>2. PICK x : Spine(x, Len(l)) /\ x[0] = l[1] /\ x[Len(l)] = MerkleRoot(l) /\ Len(l) \in Nat
  BY <1>1
<1>3. PICK y : Spine(y, Len(m)) /\ y[0] = m[1] /\ y[Len(m)] = MerkleRoot(m) /\ Len(m) \in Nat
  BY <1>1
<1> QED BY <1>2, <1>3, SpinesMeet

-----------------------------------------------------------------------------
(* Checkpoints                                                             *)

Stamped(c) == (\E S : c \in Seq(S)) /\ \A k \in DOMAIN c : c[k].at \in Nat

Before(c, j) == {c[k].at : k \in {e \in DOMAIN c : c[e].at < c[j].at \/ (c[e].at = c[j].at /\ e < j)}}

(* The first checkpoint at a number begins after an earlier one, or with   *)
(* the first row.                                                          *)
LEMMA PriorBelow ==
  ASSUME NEW c, Stamped(c), NEW j \in DOMAIN c, \A k \in DOMAIN c : k < j => c[k].at # c[j].at
  PROVE  /\ PriorAt(c, j) \in Nat
         /\ PriorAt(c, j) = 0 \/ (PriorAt(c, j) < c[j].at /\ PriorAt(c, j) \in Ats(c))
<1> DEFINE E == Before(c, j)
<1>1. PriorAt(c, j) = IF E = {} THEN 0 ELSE CHOOSE a \in E : \A b \in E : b <= a
  BY DEF PriorAt, Before
<1>2. \A a \in E : a \in Nat /\ a < c[j].at /\ a \in Ats(c)
  BY DEF Before, Ats, Stamped
<1>3. c[j].at \in Nat
  BY DEF Stamped
<1> HIDE DEF E
<1>4. ASSUME E # {} PROVE \E a \in E : \A b \in E : b <= a
  <2> DEFINE T == {c[j].at - a : a \in E}
  <2>1. T \subseteq Nat /\ T # {}
    BY <1>2, <1>3, <1>4
  <2>2. PICK m \in T : \A k \in T : m <= k
    <3> HIDE DEF T
    <3> QED BY <2>1, LeastNatural
  <2>3. PICK a \in E : m = c[j].at - a
    BY <2>2
  <2>4. \A b \in E : c[j].at - a <= c[j].at - b
    BY <2>2, <2>3
  <2> QED BY <1>2, <1>3, <2>3, <2>4
<1>5. CASE E = {}
  BY <1>1, <1>5
<1>6. CASE E # {}
  <2>1. PriorAt(c, j) \in E
    BY <1>1, <1>4, <1>6
  <2> QED BY <1>2, <2>1
<1> QED BY <1>5, <1>6

(* The first rows, as far as they are numbered in order, are found whole.  *)
LEMMA BetweenFirst ==
  ASSUME NEW rows, Ordered(rows), NEW a \in 1 .. Len(rows), \A i \in 1 .. a : rows[i].seq = i, NEW q \in 0 .. a - 1
  PROVE  LET found == Between(rows, q + 1, a) IN
         /\ Leafy(found)
         /\ Len(found) = a - q
         /\ \A k \in 1 .. a - q : found[k] = rows[q + k]
<1>1. PICK S : rows \in Seq(S)
  BY DEF Ordered, Numberable
<1>2. Len(rows) \in Nat
  BY <1>1
<1>3. ASSUME NEW n \in 0 .. a PROVE UpTo(rows, n) = n
  <2>1. /\ UpTo(rows, n) \in 0 .. Len(rows)
        /\ \A i \in 1 .. Len(rows) : rows[i].seq <= n <=> i <= UpTo(rows, n)
    <3>1. n \in Int
      OBVIOUS
    <3> QED BY <3>1, RowsUpTo
  <2>2. n # 0 => n <= UpTo(rows, n)
    BY <1>2, <2>1
  <2>3. n + 1 \in 1 .. Len(rows) => ~(rows[n + 1].seq <= n)
    <3>1. CASE n + 1 <= a
      BY <1>2, <3>1
    <3>2. CASE n = a /\ a + 1 \in 1 .. Len(rows)
      <4>1. a \in DOMAIN rows /\ a + 1 \in DOMAIN rows /\ a < a + 1
        BY <1>1, <3>2
      <4>2. rows[a].seq < rows[a + 1].seq /\ rows[a].seq = a /\ rows[a + 1].seq \in Nat
        BY <4>1 DEF Ordered, Numberable
      <4> QED BY <3>2, <4>2
    <3> QED BY <3>1, <3>2
  <2> QED BY <1>2, <2>1, <2>2, <2>3
<1>4. UpTo(rows, (q + 1) - 1) = q /\ UpTo(rows, a) = a
  <2>1. (q + 1) - 1 = q /\ q \in 0 .. a /\ a \in 0 .. a
    BY <1>2
  <2> QED BY <1>3, <2>1
<1> DEFINE found == Between(rows, q + 1, a)
<1>5. found = SubSeq(rows, q + 1, a)
  BY <1>4 DEF Between, UpTo
<1> HIDE DEF found
<1>6. found \in Seq(S) /\ Len(found) = a - q /\ \A k \in 1 .. a - q : found[k] = rows[q + k]
  BY <1>1, <1>2, <1>5
<1>7. found # <<>>
  BY <1>2, <1>6
<1> QED BY <1>6, <1>7 DEF Leafy, found

(* What the rows of a range hash to now.                                   *)
Rehashes(rows, lo, hi) ==
  LET found == Between(rows, lo, hi) IN [k \in DOMAIN found |-> Rehashed(found[k])]

LEMMA RehashesFirst ==
  ASSUME NEW rows, Ordered(rows), NEW a \in 1 .. Len(rows), \A i \in 1 .. a : rows[i].seq = i, NEW q \in 0 .. a - 1
  PROVE  LET h == Rehashes(rows, q + 1, a) IN
         /\ Leafy(h)
         /\ Len(h) = a - q
         /\ \A k \in 1 .. a - q : h[k] = Rehashed(rows[q + k])
         /\ h[1][1] = "entry" /\ h[1][2] = q + 1
<1> DEFINE found == Between(rows, q + 1, a)
           h == Rehashes(rows, q + 1, a)
<1>1. Leafy(found) /\ Len(found) = a - q /\ \A k \in 1 .. a - q : found[k] = rows[q + k]
  BY BetweenFirst
<1>2. h = [k \in DOMAIN found |-> Rehashed(found[k])]
  BY DEF Rehashes
<1> HIDE DEF found, h
<1>3. DOMAIN found = 1 .. a - q /\ a - q \in Nat /\ a - q >= 1
  <2>1. Len(rows) \in Nat
    BY DEF Ordered, Numberable
  <2> QED BY <1>1, <2>1 DEF Leafy
<1>4. h = [k \in 1 .. a - q |-> Rehashed(rows[q + k])]
  BY <1>1, <1>2, <1>3
<1>5. Leafy(h) /\ Len(h) = a - q
  <2> DEFINE S == {Rehashed(rows[q + k]) : k \in 1 .. a - q}
             n == a - q
  <2>1. h \in [1 .. n -> S]
    BY <1>4
  <2> HIDE DEF S, n
  <2>2. n \in Nat /\ n >= 1
    BY <1>3 DEF n
  <2>3. h \in Seq(S) /\ Len(h) = n
    BY <2>1, <2>2
  <2>4. h # <<>>
    BY <2>2, <2>3
  <2> QED BY <2>3, <2>4 DEF Leafy, n
<1>6. h[1] = Rehashed(rows[q + 1]) /\ rows[q + 1].seq = q + 1
  <2>1. 1 \in 1 .. a - q /\ q + 1 \in 1 .. a
    BY <1>3
  <2> QED BY <1>4, <2>1
<1>7. h[1][1] = "entry" /\ h[1][2] = q + 1
  BY <1>6 DEF Rehashed, EntryHash
<1> QED BY <1>4, <1>5, <1>7 DEF h

(* The first checkpoint at a has the root of rows of which the one         *)
(* numbered s read otherwise.                                              *)
Rooted(rows, c, s, a) ==
  /\ a \in 1 .. Len(rows) /\ s \in 1 .. a
  /\ \A i \in 1 .. a : rows[i].seq = i
  /\ \E j \in DOMAIN c : \E q \in 0 .. s - 1 : \E old :
       /\ c[j].at = a /\ \A k \in DOMAIN c : k < j => c[k].at # a
       /\ c[j].root = MerkleRoot(old)
       /\ Leafy(old) /\ Len(old) = a - q /\ old[1][1] = "entry" /\ old[1][2] = q + 1
       /\ old[s - q] # Rehashed(rows[s])

LEMMA RootedReported ==
  ASSUME NEW rows, Ordered(rows), NEW c, Stamped(c), NEW s, NEW a, Rooted(rows, c, s, a),
         NEW from \in Nat, NEW to \in Nat, from <= s, a <= to
  PROVE  VerifyAuditChain(rows, c, from, to) # {} /\ Verify(rows, c, from, to) # {}
<1>1. /\ a \in 1 .. Len(rows) /\ s \in 1 .. a
      /\ \A i \in 1 .. a : rows[i].seq = i
  BY DEF Rooted
<1>2. PICK j \in DOMAIN c : \E q \in 0 .. s - 1 : \E old :
       /\ c[j].at = a /\ \A k \in DOMAIN c : k < j => c[k].at # a
       /\ c[j].root = MerkleRoot(old)
       /\ Leafy(old) /\ Len(old) = a - q /\ old[1][1] = "entry" /\ old[1][2] = q + 1
       /\ old[s - q] # Rehashed(rows[s])
  BY DEF Rooted
<1>3. PICK q \in 0 .. s - 1 : \E old :
       /\ c[j].at = a /\ \A k \in DOMAIN c : k < j => c[k].at # a
       /\ c[j].root = MerkleRoot(old)
       /\ Leafy(old) /\ Len(old) = a - q /\ old[1][1] = "entry" /\ old[1][2] = q + 1
       /\ old[s - q] # Rehashed(rows[s])
  BY <1>2
<1>4. PICK old :
       /\ c[j].at = a /\ \A k \in DOMAIN c : k < j => c[k].at # a
       /\ c[j].root = MerkleRoot(old)
       /\ Leafy(old) /\ Len(old) = a - q /\ old[1][1] = "entry" /\ old[1][2] = q + 1
       /\ old[s - q] # Rehashed(rows[s])
  BY <1>3
<1>5. Len(rows) \in Nat /\ DOMAIN rows = 1 .. Len(rows)
  BY DEF Ordered, Numberable
<1> DEFINE p == PriorAt(c, j)
           h == Rehashes(rows, p + 1, a)
<1>6. p \in 0 .. a - 1
  <2>1. p \in Nat /\ (p = 0 \/ p < a)
    BY <1>4, PriorBelow
  <2> HIDE DEF p
  <2> QED BY <1>1, <1>5, <2>1
<1>7. /\ Leafy(h) /\ Len(h) = a - p
      /\ \A k \in 1 .. a - p : h[k] = Rehashed(rows[p + k])
      /\ h[1][1] = "entry" /\ h[1][2] = p + 1
  BY <1>1, <1>6, RehashesFirst
<1> HIDE DEF p, h
<1>8. MerkleRoot(h) # c[j].root
  <2> SUFFICES ASSUME MerkleRoot(h) = MerkleRoot(old) PROVE FALSE
    BY <1>4
  <2>1. h[1] = old[1]
    BY <1>4, <1>7, SameRootSameFirst
  <2>2. p = q
    BY <1>4, <1>6, <1>7, <2>1
  <2>3. h = old
    BY <1>4, <1>7, <2>2, SameRootSameLeaves
  <2>4. s - q \in 1 .. a - q /\ q + (s - q) = s
    BY <1>1, <1>5
  <2> QED BY <1>4, <1>7, <2>2, <2>3, <2>4
<1> DEFINE lo == Low(from)
           hi == High(rows, to)
<1>9. a \in lo .. hi
  <2>1. /\ a \in DOMAIN rows /\ rows[a].seq = a /\ s \in Nat \ {0} /\ a \in Nat /\ s <= a
    BY <1>1, <1>5
  <2>2. lo \in Nat \ {0} /\ lo <= s /\ hi \in Nat /\ a <= hi
    BY <2>1, Clamped
  <2> HIDE DEF lo, hi
  <2> QED BY <2>1, <2>2
<1> HIDE DEF lo, hi
<1>10. <<"merkle-mismatch", c[j].at>> \in RootAnomalies(rows, c, lo, hi)
  <2>1. h = LET found == Between(rows, PriorAt(c, j) + 1, c[j].at) IN [k \in DOMAIN found |-> Rehashed(found[k])]
    BY <1>4, Zenon DEF h, p, Rehashes
  <2> QED BY <1>4, <1>8, <1>9, <2>1 DEF RootAnomalies
<1> QED BY <1>10 DEF VerifyAuditChain, Verify, lo, hi

-----------------------------------------------------------------------------
(* What is owed stays reported while the tables grow                       *)

Prefix(s, t) ==
  /\ \E S : t \in Seq(S)
  /\ \A i \in DOMAIN s : i \in DOMAIN t /\ t[i] = s[i]
  /\ \A i \in DOMAIN s, j \in DOMAIN t \ DOMAIN s : i < j

LEMMA PrefixAppend ==
  ASSUME NEW s, \E S : s \in Seq(S), NEW e
  PROVE  Prefix(s, Append(s, e)) /\ Prefix(s, s)
<1>1. PICK S : s \in Seq(S)
  OBVIOUS
<1> DEFINE d == Append(s, e)
<1>2. /\ \E T : d \in Seq(T)
      /\ Len(s) \in Nat /\ DOMAIN s = 1 .. Len(s) /\ DOMAIN d = 1 .. Len(s) + 1
      /\ \A i \in 1 .. Len(s) : d[i] = s[i]
  BY <1>1, Grown
<1> HIDE DEF d
<1>4. Prefix(s, d)
  BY <1>2 DEF Prefix
<1>3. Prefix(s, s)
  BY <1>1 DEF Prefix
<1> QED BY <1>3, <1>4 DEF d

LEMMA BrokenKept ==
  ASSUME NEW rows, NEW more, Ordered(rows), Ordered(more), Prefix(rows, more), NEW s \in Nat \ {0}, Broken(rows, s)
  PROVE  Broken(more, s)
<1>1. PICK n \in DOMAIN rows : rows[n].seq = s + 1
  BY DEF Broken
<1>2. n \in DOMAIN more /\ more[n] = rows[n]
  BY DEF Prefix
<1>3. /\ DOMAIN more \subseteq Nat
      /\ \A i \in DOMAIN more : more[i].seq \in Nat
      /\ \A i, j \in DOMAIN more : i < j => more[i].seq < more[j].seq
  BY DEF Ordered, Numberable
<1>4. ASSUME NEW i \in DOMAIN more, more[i].seq \in {s, s + 1}
      PROVE  i \in DOMAIN rows /\ more[i] = rows[i]
  <2>1. ~(n < i)
    BY <1>1, <1>2, <1>3, <1>4
  <2> QED BY <2>1, <1>4 DEF Prefix
<1> QED BY <1>1, <1>2, <1>4 DEF Broken

LEMMA RootedKept ==
  ASSUME NEW rows, NEW more, Ordered(rows), Ordered(more), Prefix(rows, more),
         NEW c, NEW d, Stamped(c), Stamped(d), Prefix(c, d), NEW s, NEW a, Rooted(rows, c, s, a)
  PROVE  Rooted(more, d, s, a)
<1>1. /\ a \in 1 .. Len(rows) /\ s \in 1 .. a
      /\ \A i \in 1 .. a : rows[i].seq = i
  BY DEF Rooted
<1>2. DOMAIN rows = 1 .. Len(rows) /\ DOMAIN more = 1 .. Len(more) /\ Len(rows) \in Nat /\ Len(more) \in Nat
  BY DEF Ordered
<1>3. a \in 1 .. Len(more) /\ \A i \in 1 .. a : more[i] = rows[i]
  BY <1>1, <1>2 DEF Prefix
<1>4. DOMAIN c \subseteq Nat /\ DOMAIN d \subseteq Nat
  BY DEF Stamped
<1>5. PICK j \in DOMAIN c : \E q \in 0 .. s - 1 : \E old :
       /\ c[j].at = a /\ \A k \in DOMAIN c : k < j => c[k].at # a
       /\ c[j].root = MerkleRoot(old)
       /\ Leafy(old) /\ Len(old) = a - q /\ old[1][1] = "entry" /\ old[1][2] = q + 1
       /\ old[s - q] # Rehashed(rows[s])
  BY DEF Rooted
<1>6. /\ j \in DOMAIN d /\ d[j] = c[j]
      /\ \A k \in DOMAIN d : k < j => k \in DOMAIN c /\ d[k] = c[k]
  <2>1. j \in DOMAIN d /\ d[j] = c[j]
    BY DEF Prefix
  <2>2. ASSUME NEW k \in DOMAIN d, k < j PROVE k \in DOMAIN c
    BY <1>4, <2>2 DEF Prefix
  <2> QED BY <2>1, <2>2 DEF Prefix
<1>7. more[s] = rows[s]
  BY <1>1, <1>3
<1>8. \E q \in 0 .. s - 1 : \E old :
       /\ d[j].at = a /\ \A k \in DOMAIN d : k < j => d[k].at # a
       /\ d[j].root = MerkleRoot(old)
       /\ Leafy(old) /\ Len(old) = a - q /\ old[1][1] = "entry" /\ old[1][2] = q + 1
       /\ old[s - q] # Rehashed(more[s])
  BY <1>5, <1>6, <1>7
<1> QED BY <1>1, <1>3, <1>6, <1>8 DEF Rooted

Owing ==
  /\ intact => owed = {}
  /\ \A range \in owed : \E s \in Nat \ {0} :
       \/ range = <<s, s + 1>> /\ Broken(entries, s)
       \/ \E a \in Nat : range = <<s, a>> /\ Rooted(entries, cps, s, a)

LEMMA OwingKept ==
  ASSUME Ordered(entries), Ordered(entries'), Prefix(entries, entries'), Stamped(cps), Stamped(cps'), Prefix(cps, cps'),
         UNCHANGED <<intact, owed>>, Owing
  PROVE  Owing'
<1>1. intact' => owed' = {}
  BY DEF Owing
<1>2. ASSUME NEW range \in owed'
      PROVE  \E s \in Nat \ {0} : \/ range = <<s, s + 1>> /\ Broken(entries', s)
                                  \/ \E a \in Nat : range = <<s, a>> /\ Rooted(entries', cps', s, a)
  <2>1. PICK s \in Nat \ {0} : \/ range = <<s, s + 1>> /\ Broken(entries, s)
                               \/ \E a \in Nat : range = <<s, a>> /\ Rooted(entries, cps, s, a)
    BY DEF Owing
  <2>2. CASE range = <<s, s + 1>> /\ Broken(entries, s)
    BY <2>2, BrokenKept
  <2>3. CASE \E a \in Nat : range = <<s, a>> /\ Rooted(entries, cps, s, a)
    <3>1. PICK a \in Nat : range = <<s, a>> /\ Rooted(entries, cps, s, a)
      BY <2>3
    <3>2. Rooted(entries', cps', s, a)
      BY <3>1, RootedKept
    <3> QED BY <3>1, <3>2
  <2> QED BY <2>1, <2>2, <2>3
<1> QED BY <1>1, <1>2 DEF Owing

(* An entry that counts on.                                                *)
LEMMA OrderedAppend ==
  ASSUME NEW rows, Ordered(rows), NEW row, Numberable(row), \A i \in DOMAIN rows : rows[i].seq < row.seq
  PROVE  Ordered(Append(rows, row)) /\ Prefix(rows, Append(rows, row))
<1>1. PICK S : rows \in Seq(S)
  BY DEF Ordered
<1> DEFINE d == Append(rows, row)
<1>2. /\ \E T : d \in Seq(T)
      /\ Len(rows) \in Nat /\ DOMAIN rows = 1 .. Len(rows) /\ DOMAIN d = 1 .. Len(rows) + 1
      /\ d[Len(rows) + 1] = row /\ \A i \in 1 .. Len(rows) : d[i] = rows[i]
  BY <1>1, Grown
<1>3. Prefix(rows, d)
  BY <1>1, PrefixAppend
<1> HIDE DEF d
<1>4. \A i \in DOMAIN d : Numberable(d[i])
  BY <1>2 DEF Ordered
<1>5. ASSUME NEW i \in DOMAIN d, NEW j \in DOMAIN d, i < j PROVE d[i].seq < d[j].seq
  <2>1. i \in 1 .. Len(rows)
    BY <1>2, <1>5
  <2>2. j \in 1 .. Len(rows) \/ j = Len(rows) + 1
    BY <1>2
  <2> QED BY <1>2, <1>5, <2>1, <2>2 DEF Ordered
<1> QED BY <1>2, <1>3, <1>4, <1>5 DEF Ordered, d

LEMMA TipOfOrdered ==
  ASSUME NEW rows, Ordered(rows)
  PROVE  Tip(rows) \in Nat /\ \A i \in DOMAIN rows : rows[i].seq <= Tip(rows)
<1>1. Len(rows) \in Nat /\ DOMAIN rows = 1 .. Len(rows) /\ (rows = <<>> <=> Len(rows) = 0)
  BY DEF Ordered
<1>2. CASE rows = <<>>
  BY <1>1, <1>2 DEF Tip
<1>3. CASE rows # <<>>
  <2>1. Len(rows) \in DOMAIN rows /\ Tip(rows) = rows[Len(rows)].seq
    BY <1>1, <1>3 DEF Tip
  <2>2. \A i \in DOMAIN rows : rows[i].seq \in Nat
    BY DEF Ordered, Numberable
  <2>3. \A i \in DOMAIN rows : i = Len(rows) \/ i < Len(rows)
    BY <1>1
  <2>4. \A i \in DOMAIN rows : i < Len(rows) => rows[i].seq < rows[Len(rows)].seq
    BY <2>1 DEF Ordered
  <2> QED BY <2>1, <2>2, <2>3, <2>4
<1> QED BY <1>2, <1>3

LEMMA RowNumberable ==
  ASSUME NEW n \in Nat \ {0}, NEW c, NEW prev
  PROVE  Numberable(Row(n, c, prev)) /\ Row(n, c, prev).seq = n
BY DEF Numberable, Row

LEMMA AppendedOrdered ==
  ASSUME NEW rows, Ordered(rows), NEW c
  PROVE  Ordered(Appended(rows, c)) /\ Prefix(rows, Appended(rows, c))
<1> DEFINE row == Row(Tip(rows) + 1, c, TipHash(rows))
<1>1. Tip(rows) \in Nat /\ \A i \in DOMAIN rows : rows[i].seq <= Tip(rows) /\ rows[i].seq \in Nat
  BY TipOfOrdered DEF Ordered, Numberable
<1>2. Numberable(row) /\ row.seq = Tip(rows) + 1
  BY <1>1, RowNumberable
<1>3. Appended(rows, c) = Append(rows, row)
  BY DEF Appended
<1> HIDE DEF row
<1> QED BY <1>1, <1>2, <1>3, OrderedAppend

LEMMA StampedAppend ==
  ASSUME NEW c, Stamped(c), NEW cp, cp.at \in Nat
  PROVE  Stamped(Append(c, cp)) /\ Prefix(c, Append(c, cp))
<1>1. PICK S : c \in Seq(S)
  BY DEF Stamped
<1> DEFINE d == Append(c, cp)
<1>2. /\ \E T : d \in Seq(T)
      /\ Len(c) \in Nat /\ DOMAIN c = 1 .. Len(c) /\ DOMAIN d = 1 .. Len(c) + 1
      /\ d[Len(c) + 1] = cp /\ \A i \in 1 .. Len(c) : d[i] = c[i]
  BY <1>1, Grown
<1>3. Prefix(c, d)
  BY <1>1, PrefixAppend
<1> HIDE DEF d
<1> QED BY <1>2, <1>3 DEF Stamped, d

LEMMA CheckpointedStamped ==
  ASSUME NEW c, Stamped(c), NEW rows, Ordered(rows)
  PROVE  Stamped(Checkpointed(rows, c)) /\ Prefix(c, Checkpointed(rows, c))
<1>1. Tip(rows) \in Nat
  BY TipOfOrdered
<1>2. Checkpoint(rows, LastAt(c) + 1, Tip(rows)).at = Tip(rows)
  BY DEF Checkpoint
<1>3. Prefix(c, c)
  BY PrefixAppend DEF Stamped
<1> QED BY <1>1, <1>2, <1>3, StampedAppend DEF Checkpointed

-----------------------------------------------------------------------------
(* The steps                                                               *)

Numbered ==
  host = "postgres" =>
    /\ nextSeq \in Nat \ {0}
    /\ \A i \in DOMAIN entries : entries[i].seq < nextSeq
    /\ \A t \in Threads : handler[t].tip \in Nat /\ (handler[t].pc \in Holding => handler[t].seq = nextSeq)
    /\ \A p \in Procs :
         /\ Stamped(conn[p].cps)
         /\ \A i \in DOMAIN conn[p].rows : Numberable(conn[p].rows[i]) /\ conn[p].rows[i].seq = nextSeq

Tampered == Ordered(entries) /\ Stamped(cps) /\ Numbered /\ Owing

LEMMA TamperedLocally ==
  ASSUME Tampered, Write \/ BootV2 \/ BootSqlite
  PROVE  Tampered'
<1>1. PICK c \in Contents : entries' = Appended(entries, c)
  BY DEF Write, BootV2, BootSqlite
<1>2. Ordered(entries') /\ Prefix(entries, entries')
  BY <1>1, AppendedOrdered DEF Tampered
<1>3. Prefix(cps, cps)
  BY PrefixAppend DEF Tampered, Stamped
<1>4. \A late \in BOOLEAN : Stamped(CheckpointIfDue(entries', late)) /\ Prefix(cps, CheckpointIfDue(entries', late))
  BY <1>2, <1>3, CheckpointedStamped DEF CheckpointIfDue, Tampered
<1>5. Stamped(cps') /\ Prefix(cps, cps')
  <2>1. CASE Write
    BY <1>3, <1>4, <2>1 DEF Write, Tampered
  <2>2. CASE BootV2
    <3>1. PICK late \in BOOLEAN : cps' = Checkpointed(entries', CheckpointIfDue(entries', late))
      BY <2>2 DEF BootV2
    <3> DEFINE d == CheckpointIfDue(entries', late)
    <3>2. Stamped(d) /\ Prefix(cps, d) /\ cps' = Checkpointed(entries', d)
      BY <1>4, <3>1
    <3> HIDE DEF d
    <3>3. Stamped(cps') /\ Prefix(d, cps')
      BY <1>2, <3>2, CheckpointedStamped
    <3>4. Prefix(cps, cps')
      <4>1. \E S : cps \in Seq(S)
        BY DEF Tampered, Stamped
      <4>2. DOMAIN cps = 1 .. Len(cps) /\ DOMAIN d = 1 .. Len(d) /\ DOMAIN cps' = 1 .. Len(cps') /\ Len(cps) \in Nat /\ Len(d) \in Nat /\ Len(cps') \in Nat
        BY <4>1, <3>2, <3>3 DEF Stamped
      <4> QED BY <4>2, <3>2, <3>3 DEF Prefix
    <3> QED BY <3>3, <3>4
  <2>3. CASE BootSqlite
    BY <1>2, <2>3, CheckpointedStamped DEF BootSqlite, Tampered
  <2> QED BY <2>1, <2>2, <2>3
<1>6. UNCHANGED <<host, intact, owed>> /\ host # "postgres"
  BY DEF Write, BootV2, BootSqlite, Local
<1>7. Owing'
  BY <1>2, <1>5, <1>6, OwingKept DEF Tampered
<1> QED BY <1>2, <1>5, <1>6, <1>7 DEF Tampered, Numbered

(* What a handler of a postgres host sees at the end of the log.           *)
LEMMA LogOfTip ==
  ASSUME Inv, Tampered, host = "postgres", NEW p \in Procs
  PROVE  Tip(LogOf(p)) \in Nat
<1>1. PICK S : entries \in Seq(S)
  BY DEF Tampered, Ordered
<1>2. CASE conn[p].rows = <<>>
  <2>1. LogOf(p) = entries
    BY <1>1, <1>2, Grown DEF LogOf
  <2> QED BY <2>1, TipOfOrdered DEF Tampered
<1>3. CASE conn[p].rows # <<>>
  <2>1. PICK row : conn[p].rows = <<row>>
    BY <1>3 DEF Inv, Pending
  <2>2. LogOf(p) = Append(entries, row)
    BY <1>1, <2>1, Grown DEF LogOf
  <2>3. conn[p].rows[1] = row /\ 1 \in DOMAIN conn[p].rows
    BY <2>1
  <2>4. row.seq \in Nat
    BY <2>3 DEF Tampered, Numbered, Numberable
  <2> DEFINE d == Append(entries, row)
  <2>5. Len(entries) \in Nat /\ Len(d) = Len(entries) + 1 /\ d[Len(entries) + 1] = row
    BY <1>1, Grown
  <2> HIDE DEF d
  <2>6. d # <<>>
    BY <2>5
  <2> QED BY <2>2, <2>4, <2>5, <2>6 DEF Tip, d
<1> QED BY <1>2, <1>3

(* A step of the postgres host that leaves the log alone.                  *)
LEMMA TamperedApart ==
  ASSUME Inv, Tampered, host = "postgres", UNCHANGED <<host, entries, nextSeq, intact, owed>>,
         Stamped(cps'), Prefix(cps, cps'), Numbered'
  PROVE  Tampered'
<1>1. Prefix(entries, entries')
  BY PrefixAppend DEF Tampered, Ordered
<1>2. Ordered(entries')
  BY DEF Tampered
<1>3. Owing'
  BY <1>1, <1>2, OwingKept DEF Tampered
<1> QED BY <1>2, <1>3 DEF Tampered

LEMMA TamperedByHandler ==
  ASSUME Inv, Tampered, NEW t \in Threads, TriggerCheckpoint(t) \/ (LogAudit(t) /\ ~ Commit(t))
  PROVE  Tampered'
<1> USE DEF Holding
<1> DEFINE p == ProcOf[t]
<1>1. /\ host = "postgres" /\ p \in Procs /\ DOMAIN handler = Threads /\ DOMAIN handler[t] = Fields /\ DOMAIN conn = Procs
      /\ \A q \in Procs : DOMAIN conn[q] = {"tx", "rows", "cps"}
      /\ handler[t].tip \in Nat /\ nextSeq \in Nat \ {0} /\ Stamped(cps)
      /\ handler[t].pc \in Holding => handler[t].seq = nextSeq
  BY AuditAssumption DEF TriggerCheckpoint, DueLast, DueTip, CpLast, CpTip, CpEntries, CpInsert,
       LogAudit, Begin, Alloc, ReadPrior, Insert, Commit, Rollback, HandlerAt, Inv, Shapes, Tampered, Numbered
<1>2. UNCHANGED <<host, entries, nextSeq, intact, owed>>
  BY DEF TriggerCheckpoint, DueLast, DueTip, CpLast, CpTip, CpEntries, CpInsert,
       LogAudit, Begin, Alloc, ReadPrior, Insert, Rollback
<1> DEFINE Thread == /\ \A u \in Threads \ {t} : handler'[u] = handler[u]
                     /\ handler'[t].tip \in Nat /\ (handler'[t].pc \in Holding => handler'[t].seq = nextSeq)
           Others == \A q \in Procs \ {p} : conn'[q] = conn[q]
           Mine == /\ Stamped(conn'[p].cps)
                   /\ \A i \in DOMAIN conn'[p].rows : Numberable(conn'[p].rows[i]) /\ conn'[p].rows[i].seq = nextSeq
           Cps == Stamped(cps') /\ Prefix(cps, cps')
<1>3. Mine \/ conn' # conn
  BY <1>1 DEF Tampered, Numbered
<1>4. cps' = cps => Cps
  BY <1>1, PrefixAppend DEF Stamped
<1>5. /\ Stamped(<<>>) /\ DOMAIN Closed = {"tx", "rows", "cps"} /\ Closed.rows = <<>> /\ Closed.cps = <<>>
      /\ AtRest.tip = 0 /\ AtRest.pc = "idle" /\ DOMAIN AtRest = Fields
  <2>1. <<>> \in Seq({})
    OBVIOUS
  <2> QED BY <2>1 DEF Stamped, Closed, AtRest, Fields
<1>6. Thread /\ Others /\ Mine /\ Cps
  <2>1. CASE Begin(t)
    <3>1. /\ conn' = [conn EXCEPT ![p].tx = t] /\ handler' = [handler EXCEPT ![t].pc = "alloc"] /\ cps' = cps
      BY <2>1 DEF Begin, Goto
    <3>2. Thread
      BY <1>1, <3>1 DEF Fields, AtRest
    <3>3. Others /\ conn'[p].rows = conn[p].rows /\ conn'[p].cps = conn[p].cps
      BY <1>1, <3>1
    <3> QED BY <1>1, <1>4, <3>1, <3>2, <3>3 DEF Tampered, Numbered
  <2>2. CASE Alloc(t)
    <3>1. /\ conn' = conn /\ handler' = [handler EXCEPT ![t].pc = "prior", ![t].seq = nextSeq] /\ cps' = cps
      BY <2>2 DEF Alloc
    <3>2. Thread
      BY <1>1, <3>1 DEF Fields, AtRest
    <3> QED BY <1>3, <1>4, <3>1, <3>2
  <2>3. CASE ReadPrior(t)
    <3>1. /\ conn' = conn /\ handler' = [handler EXCEPT ![t].pc = "insert", ![t].prev = TipHash(LogOf(p))] /\ cps' = cps /\ handler[t].pc = "prior"
      BY <2>3 DEF ReadPrior, HandlerAt
    <3>2. Thread
      BY <1>1, <3>1 DEF Fields, AtRest
    <3> QED BY <1>3, <1>4, <3>1, <3>2
  <2>4. CASE Insert(t)
    <3>1. PICK c \in Contents : conn' = [conn EXCEPT ![p].rows = Append(@, Row(handler[t].seq, c, handler[t].prev))]
      BY <2>4 DEF Insert
    <3>2. handler' = [handler EXCEPT ![t].pc = "commit"] /\ cps' = cps /\ handler[t].pc = "insert"
      BY <2>4 DEF Insert, Goto, HandlerAt
    <3>3. Thread
      BY <1>1, <3>2 DEF Fields, AtRest
    <3> DEFINE row == Row(handler[t].seq, c, handler[t].prev)
    <3>4. Numberable(row) /\ row.seq = nextSeq
      BY <1>1, <3>2, RowNumberable
    <3>5. conn[p].rows = <<>>
      BY <1>1, <3>2 DEF Inv, TxOwned, Pending, InTx
    <3> HIDE DEF row
    <3>6. Others /\ conn'[p].rows = <<row>> /\ conn'[p].cps = conn[p].cps
      BY <1>1, <3>1, <3>5 DEF row
    <3>7. \A i \in DOMAIN <<row>> : <<row>>[i] = row
      OBVIOUS
    <3>8. Mine
      BY <1>1, <3>4, <3>6, <3>7 DEF Tampered, Numbered
    <3> QED BY <1>4, <3>2, <3>3, <3>6, <3>8
  <2>5. CASE Rollback(t)
    <3>1. conn' = [conn EXCEPT ![p] = Closed] /\ handler' = [handler EXCEPT ![t] = AtRest] /\ cps' = cps
      BY <2>5 DEF Rollback
    <3>2. Thread
      BY <1>1, <1>5, <3>1
    <3>3. Others /\ conn'[p] = Closed
      BY <1>1, <3>1
    <3>4. Mine
      BY <1>5, <3>3
    <3> QED BY <1>4, <3>1, <3>2, <3>3, <3>4
  <2>6. CASE DueLast(t) \/ CpLast(t) \/ CpEntries(t)
    <3>1. conn' = conn /\ cps' = cps
      BY <2>6 DEF DueLast, CpLast, CpEntries
    <3>2. Thread
      <4>1. CASE DueLast(t)
        BY <1>1, <4>1 DEF DueLast, Fields, AtRest
      <4>2. CASE CpLast(t)
        BY <1>1, <4>2 DEF CpLast, Fields, AtRest
      <4>3. CASE CpEntries(t)
        BY <1>1, <4>3 DEF CpEntries, Fields, AtRest
      <4> QED BY <2>6, <4>1, <4>2, <4>3
    <3> QED BY <1>3, <1>4, <3>1, <3>2
  <2>7. CASE DueTip(t)
    <3>1. conn' = conn /\ cps' = cps
      BY <2>7 DEF DueTip
    <3>2. handler' = [handler EXCEPT ![t] = [AtRest EXCEPT !.pc = "cpLast"]] \/ handler' = [handler EXCEPT ![t] = AtRest]
      BY <2>7 DEF DueTip
    <3>3. Thread
      BY <1>1, <3>2 DEF Fields, AtRest
    <3> QED BY <1>3, <1>4, <3>1, <3>3
  <2>8. CASE CpTip(t)
    <3>1. conn' = conn /\ cps' = cps
      BY <2>8 DEF CpTip
    <3> DEFINE tip == Tip(LogOf(p))
               next == [handler[t] EXCEPT !.pc = "cpEntries", !.tip = tip]
    <3>2. handler' = [handler EXCEPT ![t] = AtRest] \/ handler' = [handler EXCEPT ![t] = next]
      BY <2>8 DEF CpTip
    <3>3. tip \in Nat
      BY <1>1, LogOfTip
    <3> HIDE DEF tip
    <3>4. next.pc = "cpEntries" /\ next.tip = tip
      BY <1>1 DEF Fields, AtRest
    <3> HIDE DEF next
    <3>5. Thread
      BY <1>1, <1>5, <3>2, <3>3, <3>4
    <3> QED BY <1>3, <1>4, <3>1, <3>5
  <2>9. CASE CpInsert(t)
    <3> DEFINE cp == [at |-> handler[t].tip, root |-> handler[t].root]
    <3>1. /\ handler' = [handler EXCEPT ![t] = AtRest] /\ cp.at = handler[t].tip
          /\ \/ cps' = Append(cps, cp) /\ conn' = conn
             \/ conn' = [conn EXCEPT ![p].cps = Append(@, cp)] /\ cps' = cps
      BY <2>9 DEF CpInsert
    <3> HIDE DEF cp
    <3>2. Thread
      BY <1>1, <1>5, <3>1
    <3>3. CASE cps' = Append(cps, cp) /\ conn' = conn
      BY <1>1, <1>3, <3>1, <3>2, <3>3, StampedAppend
    <3>4. CASE conn' = [conn EXCEPT ![p].cps = Append(@, cp)] /\ cps' = cps
      <4>1. Others /\ conn'[p].rows = conn[p].rows /\ conn'[p].cps = Append(conn[p].cps, cp)
        BY <1>1, <3>4
      <4>2. Stamped(conn[p].cps)
        BY <1>1 DEF Tampered, Numbered
      <4>3. Mine
        BY <1>1, <3>1, <4>1, <4>2, StampedAppend DEF Tampered, Numbered
      <4> QED BY <1>4, <3>2, <3>4, <4>1, <4>3
    <3> QED BY <3>1, <3>3, <3>4
  <2> QED BY <2>1, <2>2, <2>3, <2>4, <2>5, <2>6, <2>7, <2>8, <2>9 DEF TriggerCheckpoint, LogAudit
<1> HIDE DEF p
<1>7. Numbered'
  BY <1>1, <1>2, <1>6 DEF Tampered, Numbered
<1> QED BY <1>1, <1>2, <1>6, <1>7, TamperedApart

LEMMA TamperedByCommit ==
  ASSUME Inv, Tampered, NEW t \in Threads, Commit(t)
  PROVE  Tampered'
<1> USE DEF Holding
<1> DEFINE p == ProcOf[t]
           next == [AtRest EXCEPT !.pc = "dueLast"]
<1>1. /\ host = "postgres" /\ p \in Procs /\ DOMAIN handler = Threads /\ DOMAIN conn = Procs
      /\ handler[t].pc = "commit" /\ nextSeq \in Nat \ {0} /\ Stamped(cps)
  BY AuditAssumption DEF Commit, HandlerAt, Inv, Shapes, Tampered, Numbered
<1>2. /\ entries' = LogOf(p) /\ cps' = CpsOf(p) /\ nextSeq' = nextSeq + 1
      /\ conn' = [conn EXCEPT ![p] = Closed] /\ handler' = [handler EXCEPT ![t] = next]
      /\ UNCHANGED <<host, intact, owed>>
  BY DEF Commit
<1>3. next.tip = 0 /\ next.pc = "dueLast"
  BY DEF AtRest
<1> HIDE DEF next
<1>4. /\ handler'[t] = next /\ \A u \in Threads \ {t} : handler'[u] = handler[u]
      /\ conn'[p] = Closed /\ \A q \in Procs \ {p} : conn'[q] = conn[q]
  BY <1>1, <1>2
<1>5. PICK row : conn[p].rows = <<row>>
  BY <1>1 DEF Inv, Inserted, Pending
<1>6. Numberable(row) /\ row.seq = nextSeq
  <2>1. conn[p].rows[1] = row /\ 1 \in DOMAIN conn[p].rows
    BY <1>5
  <2> QED BY <1>1, <2>1 DEF Tampered, Numbered
<1>7. entries' = Append(entries, row)
  <2>1. PICK S : entries \in Seq(S)
    BY DEF Tampered, Ordered
  <2> QED BY <1>2, <1>5, <2>1, Grown DEF LogOf
<1>8. Ordered(entries') /\ Prefix(entries, entries')
  BY <1>1, <1>6, <1>7, OrderedAppend DEF Tampered, Numbered
<1>9. Stamped(cps') /\ Prefix(cps, cps')
  <2> DEFINE more == conn[p].cps
  <2>1. Stamped(more) /\ cps' = cps \o more
    BY <1>1, <1>2 DEF Tampered, Numbered, CpsOf
  <2>2. PICK S, T : cps \in Seq(S) /\ more \in Seq(T)
    BY <1>1, <2>1 DEF Stamped
  <2> HIDE DEF more
  <2> DEFINE d == cps \o more
  <2>3. /\ d \in Seq(S \cup T) /\ Len(cps) \in Nat /\ Len(more) \in Nat /\ Len(d) = Len(cps) + Len(more)
        /\ DOMAIN cps = 1 .. Len(cps) /\ DOMAIN more = 1 .. Len(more) /\ DOMAIN d = 1 .. Len(d)
        /\ \A i \in 1 .. Len(cps) : d[i] = cps[i]
        /\ \A i \in Len(cps) + 1 .. Len(cps) + Len(more) : d[i] = more[i - Len(cps)] /\ i - Len(cps) \in 1 .. Len(more)
    <3>1. cps \in Seq(S \cup T) /\ more \in Seq(S \cup T)
      BY <2>2
    <3>2. \A i \in Len(cps) + 1 .. Len(cps) + Len(more) : d[i] = more[i - Len(cps)] /\ i - Len(cps) \in 1 .. Len(more)
      BY <3>1
    <3>3. /\ d \in Seq(S \cup T) /\ Len(cps) \in Nat /\ Len(more) \in Nat /\ Len(d) = Len(cps) + Len(more)
          /\ DOMAIN cps = 1 .. Len(cps) /\ DOMAIN more = 1 .. Len(more) /\ DOMAIN d = 1 .. Len(d)
      BY <3>1
    <3>4. \A i \in 1 .. Len(cps) : d[i] = cps[i]
      BY <3>1
    <3> QED BY <3>2, <3>3, <3>4
  <2> HIDE DEF d
  <2>4. Prefix(cps, d)
    BY <2>3 DEF Prefix
  <2>5. \A i \in DOMAIN d : d[i].at \in Nat
    <3> TAKE i \in DOMAIN d
    <3>1. CASE i \in 1 .. Len(cps)
      BY <1>1, <2>3, <3>1 DEF Stamped
    <3>2. CASE i \in Len(cps) + 1 .. Len(cps) + Len(more)
      BY <2>1, <2>3, <3>2 DEF Stamped
    <3> QED BY <2>3, <3>1, <3>2
  <2>6. Stamped(d)
    BY <2>3, <2>5 DEF Stamped
  <2> QED BY <2>1, <2>4, <2>6 DEF d
<1>10. Owing'
  BY <1>2, <1>8, <1>9, OwingKept DEF Tampered
<1>11. Numbered'
  <2>1. \A i \in DOMAIN entries' : entries'[i].seq < nextSeq + 1
    <3>1. PICK S : entries \in Seq(S)
      BY DEF Tampered, Ordered
    <3>2. /\ Len(entries) \in Nat /\ DOMAIN entries = 1 .. Len(entries) /\ DOMAIN entries' = 1 .. Len(entries) + 1
          /\ entries'[Len(entries) + 1] = row /\ \A i \in 1 .. Len(entries) : entries'[i] = entries[i]
      BY <1>7, <3>1, Grown
    <3>3. \A i \in DOMAIN entries : entries[i].seq < nextSeq /\ entries[i].seq \in Nat
      BY <1>1 DEF Tampered, Numbered, Ordered, Numberable
    <3>4. row.seq < nextSeq + 1
      BY <1>1, <1>6
    <3>5. \A i \in DOMAIN entries : entries[i].seq < nextSeq + 1
      BY <1>1, <3>3
    <3>6. \A i \in DOMAIN entries' : i \in DOMAIN entries \/ i = Len(entries) + 1
      BY <3>2
    <3> QED BY <3>2, <3>4, <3>5, <3>6
  <2>2. \A u \in Threads : handler'[u].tip \in Nat /\ (handler'[u].pc \in Holding => FALSE)
    <3> TAKE u \in Threads
    <3>1. CASE u = t
      BY <1>3, <1>4, <3>1
    <3>2. CASE u # t
      BY <1>1, <1>4, <3>2, HolderAlone DEF Tampered, Numbered
    <3> QED BY <3>1, <3>2
  <2>3. Stamped(<<>>) /\ Closed.rows = <<>> /\ Closed.cps = <<>>
    <3>1. <<>> \in Seq({})
      OBVIOUS
    <3> QED BY <3>1 DEF Stamped, Closed
  <2>4. ASSUME NEW q \in Procs PROVE Stamped(conn'[q].cps) /\ conn'[q].rows = <<>>
    <3>1. CASE q = p
      BY <1>4, <2>3, <3>1
    <3>2. CASE q # p
      <4>1. conn[q].rows = <<>>
        <5> SUFFICES ASSUME conn[q].rows # <<>> PROVE FALSE
          OBVIOUS
        <5>1. conn[q].tx \in Threads /\ handler[conn[q].tx].pc = "commit"
          BY <1>1 DEF Inv, Pending
        <5>2. conn[q].tx = t
          BY <1>1, <5>1, HolderAlone
        <5> QED BY <1>1, <3>2, <5>2 DEF Inv, TxOwned
      <4> QED BY <1>1, <1>4, <3>2, <4>1 DEF Tampered, Numbered
    <3> QED BY <3>1, <3>2
  <2>5. nextSeq' \in Nat \ {0}
    BY <1>1, <1>2
  <2> QED BY <1>2, <2>1, <2>2, <2>4, <2>5 DEF Numbered
<1> QED BY <1>8, <1>9, <1>10, <1>11 DEF Tampered

LEMMA TamperedByCrash ==
  ASSUME Inv, Tampered, NEW p \in Procs, ProcessDies(p)
  PROVE  Tampered'
<1>1. /\ host = "postgres" /\ DOMAIN conn = Procs /\ DOMAIN handler = Threads
      /\ conn' = [conn EXCEPT ![p] = Closed]
      /\ handler' = [t \in Threads |-> IF ProcOf[t] = p THEN AtRest ELSE handler[t]]
      /\ UNCHANGED <<host, entries, cps, nextSeq, intact, owed>>
  BY DEF ProcessDies, Inv, Shapes
<1>2. Stamped(<<>>) /\ Closed.rows = <<>> /\ Closed.cps = <<>> /\ AtRest.tip = 0 /\ AtRest.pc \notin Holding
  <2>1. <<>> \in Seq({})
    OBVIOUS
  <2> QED BY <2>1 DEF Stamped, Closed, AtRest, Holding
<1>3. \A q \in Procs : conn'[q] = Closed \/ conn'[q] = conn[q]
  BY <1>1
<1>4. \A t \in Threads : handler'[t] = AtRest \/ handler'[t] = handler[t]
  BY <1>1
<1>5. Numbered'
  <2>1. ASSUME NEW q \in Procs
        PROVE  /\ Stamped(conn'[q].cps)
               /\ \A i \in DOMAIN conn'[q].rows : Numberable(conn'[q].rows[i]) /\ conn'[q].rows[i].seq = nextSeq
    <3>1. CASE conn'[q] = Closed
      BY <1>2, <3>1
    <3>2. CASE conn'[q] = conn[q]
      BY <1>1, <3>2 DEF Tampered, Numbered
    <3> QED BY <1>3, <3>1, <3>2
  <2>2. \A t \in Threads : handler'[t].tip \in Nat /\ (handler'[t].pc \in Holding => handler'[t].seq = nextSeq)
    BY <1>1, <1>2, <1>4 DEF Tampered, Numbered
  <2> QED BY <1>1, <2>1, <2>2 DEF Tampered, Numbered
<1>6. Stamped(cps') /\ Prefix(cps, cps')
  BY <1>1, PrefixAppend DEF Tampered, Stamped
<1> QED BY <1>1, <1>5, <1>6, TamperedApart

(* Before anyone tampers rows are numbered from 1.                         *)
LEMMA IntactRows ==
  ASSUME Inv, Tampered, intact
  PROVE  /\ Len(entries) \in Nat /\ DOMAIN entries = 1 .. Len(entries) /\ (\E S : entries \in Seq(S))
         /\ \A i \in 1 .. Len(entries) : entries[i].seq = i /\ DOMAIN entries[i] = {"seq", "content", "prev", "hash"} /\ entries[i].hash = Rehashed(entries[i])
         /\ \A i \in 2 .. Len(entries) : entries[i].prev = Rehashed(entries[i - 1])
         /\ Tip(entries) = Len(entries)
<1>1. Len(entries) \in Nat /\ DOMAIN entries = 1 .. Len(entries) /\ (\E S : entries \in Seq(S)) /\ (entries = <<>> <=> Len(entries) = 0)
  BY DEF Tampered, Ordered
<1>2. \A i \in 1 .. Len(entries) : entries[i].seq = i /\ DOMAIN entries[i] = {"seq", "content", "prev", "hash"} /\ entries[i].hash = Rehashed(entries[i])
  BY <1>1 DEF Inv, ChainIntact, Tampered, Ordered, Numberable
<1>3. ASSUME NEW i \in 2 .. Len(entries) PROVE entries[i].prev = Rehashed(entries[i - 1])
  <2>1. i \in 1 .. Len(entries) /\ i # 1 /\ i - 1 \in 1 .. Len(entries)
    BY <1>1
  <2> QED BY <1>1, <1>2, <2>1 DEF Inv, ChainIntact
<1>4. Tip(entries) = Len(entries)
  <2>1. CASE Len(entries) = 0
    BY <1>1, <2>1 DEF Tip
  <2>2. CASE Len(entries) # 0
    <3>1. Len(entries) \in 1 .. Len(entries)
      BY <1>1, <2>2
    <3> QED BY <1>1, <1>2, <3>1 DEF Tip
  <2> QED BY <2>1, <2>2
<1> QED BY <1>1, <1>2, <1>3, <1>4

LEMMA NumbersOfEdited ==
  ASSUME Tampered, \A i \in DOMAIN entries' : \E j \in DOMAIN entries : entries'[i].seq = entries[j].seq,
         UNCHANGED <<host, cps, local>>
  PROVE  Numbered'
BY DEF Tampered, Numbered, local

LEMMA TamperedByEdit ==
  ASSUME Inv, Tampered, Edit
  PROVE  Tampered'
<1>1. intact /\ ~ intact' /\ UNCHANGED <<host, cps, local>>
  BY DEF Edit
<1>2. /\ Len(entries) \in Nat /\ DOMAIN entries = 1 .. Len(entries) /\ (\E S : entries \in Seq(S))
      /\ \A k \in 1 .. Len(entries) : entries[k].seq = k /\ DOMAIN entries[k] = {"seq", "content", "prev", "hash"} /\ entries[k].hash = Rehashed(entries[k])
      /\ \A k \in 2 .. Len(entries) : entries[k].prev = Rehashed(entries[k - 1])
      /\ Tip(entries) = Len(entries)
  BY <1>1, IntactRows
<1>3. PICK i \in DOMAIN entries, c \in Contents, rehash \in BOOLEAN :
        LET row == [entries[i] EXCEPT !.content = c] IN
        /\ c # entries[i].content
        /\ entries' = [entries EXCEPT ![i] = IF rehash THEN [row EXCEPT !.hash = Rehashed(row)] ELSE row]
        /\ owed' = Followed(i) \cup Anchored(i)
  BY DEF Edit
<1> DEFINE row == [entries[i] EXCEPT !.content = c]
           edited == IF rehash THEN [row EXCEPT !.hash = Rehashed(row)] ELSE row
<1>4. i \in 1 .. Len(entries) /\ c # entries[i].content /\ entries' = [entries EXCEPT ![i] = edited] /\ owed' = Followed(i) \cup Anchored(i)
  BY <1>2, <1>3
<1>5. /\ DOMAIN edited = {"seq", "content", "prev", "hash"} /\ edited.seq = i /\ edited.content = c
  BY <1>2, <1>4
<1>6. Rehashed(edited) # Rehashed(entries[i])
  BY <1>4, <1>5 DEF Rehashed, EntryHash
<1> HIDE DEF row, edited
<1>7. /\ DOMAIN entries' = 1 .. Len(entries) /\ Len(entries') = Len(entries) /\ (\E S : entries' \in Seq(S))
      /\ entries'[i] = edited /\ \A k \in 1 .. Len(entries) \ {i} : entries'[k] = entries[k]
  <2>1. PICK S : entries \in Seq(S)
    BY <1>2
  <2>2. entries' \in Seq(S \cup {edited})
    <3>1. entries \in Seq(S \cup {edited})
      BY <2>1
    <3> QED BY <1>4, <3>1
  <2>3. Len(entries') = Len(entries)
    BY <1>4, <2>1
  <2>4. DOMAIN entries' = 1 .. Len(entries) /\ entries'[i] = edited /\ \A k \in 1 .. Len(entries) \ {i} : entries'[k] = entries[k]
    BY <1>2, <1>4
  <2> QED BY <2>2, <2>3, <2>4
<1>8. \A k \in 1 .. Len(entries) : entries'[k].seq = k /\ DOMAIN entries'[k] = {"seq", "content", "prev", "hash"}
  BY <1>2, <1>5, <1>7
<1>9. Ordered(entries')
  BY <1>2, <1>7, <1>8 DEF Ordered, Numberable
<1>10. Rehashed(entries'[i]) # Rehashed(entries[i])
  BY <1>6, <1>7
<1>11. ASSUME NEW range \in Followed(i)
       PROVE  range = <<i, i + 1>> /\ Broken(entries', i)
  <2>1. i < Len(entries) /\ range = <<entries[i].seq, entries[i + 1].seq>>
    BY <1>11 DEF Followed
  <2>2. i + 1 \in 2 .. Len(entries) /\ i + 1 \in 1 .. Len(entries) \ {i} /\ (i + 1) - 1 = i
    BY <1>2, <1>4, <2>1
  <2>3. range = <<i, i + 1>>
    BY <1>2, <1>4, <2>1, <2>2
  <2>4. entries'[i + 1].prev # Rehashed(entries'[i])
    BY <1>2, <1>7, <1>10, <2>2
  <2> QED BY <1>7, <1>8, <2>2, <2>3, <2>4 DEF Broken
<1>12. ASSUME NEW range \in Anchored(i)
       PROVE  \E a \in Nat : range = <<i, a>> /\ Rooted(entries', cps', i, a)
  <2> DEFINE later == {b \in Ats(cps) : b \in entries[i].seq .. Tip(entries)}
  <2>1. PICK a \in later : range = <<entries[i].seq, a>> /\ (\A d \in later : a <= d) /\ Reported(a, a) = {}
    BY <1>12 DEF Anchored
  <2>2. a \in Ats(cps) /\ a \in i .. Len(entries) /\ range = <<i, a>>
    BY <1>2, <1>4, <2>1
  <2>3. a \in 1 .. Len(entries) /\ a \in Nat /\ i \in 1 .. a
    BY <1>2, <1>4, <2>2
  <2>4. RootAnomalies(entries, cps, a, a) = {}
    <3>1. Low(a) = a /\ High(entries, a) = a
      BY <1>2, <2>3 DEF Low, High
    <3> QED BY <2>1, <3>1 DEF Reported, Verify, VerifyAuditChain
  <2> DEFINE marks == {k \in DOMAIN cps : cps[k].at = a}
  <2>5. PICK j \in marks : \A k \in marks : j <= k
    <3>1. marks \subseteq Nat /\ marks # {}
      BY <2>2 DEF Ats, Tampered, Stamped
    <3> HIDE DEF marks
    <3> QED BY <3>1, LeastNatural
  <2>6. j \in DOMAIN cps /\ cps[j].at = a /\ \A k \in DOMAIN cps : k < j => cps[k].at # a
    <3>1. DOMAIN cps \subseteq Nat
      BY DEF Tampered, Stamped
    <3> QED BY <2>5, <3>1
  <2> HIDE DEF marks
  <2> DEFINE q == PriorAt(cps, j)
             old == Rehashes(entries, q + 1, a)
  <2>7. q \in 0 .. i - 1
    <3>1. q \in Nat /\ (q = 0 \/ (q < a /\ q \in Ats(cps)))
      BY <2>6, PriorBelow DEF Tampered
    <3> HIDE DEF q
    <3>2. CASE q = 0
      BY <1>2, <1>4, <3>2
    <3>3. CASE q # 0
      <4>1. q < a /\ q \in Ats(cps)
        BY <3>1, <3>3
      <4>2. q \notin later
        BY <2>1, <2>3, <3>1, <4>1
      <4>3. ~(q >= i)
        BY <1>2, <1>4, <2>2, <2>3, <3>1, <4>1, <4>2
      <4> QED BY <1>4, <1>2, <3>1, <4>3
    <3> QED BY <3>2, <3>3
  <2>8. q \in 0 .. a - 1
    <3> HIDE DEF q
    <3> QED BY <1>2, <1>4, <2>3, <2>7
  <2>9. /\ Leafy(old) /\ Len(old) = a - q
        /\ \A k \in 1 .. a - q : old[k] = Rehashed(entries[q + k])
        /\ old[1][1] = "entry" /\ old[1][2] = q + 1
    <3>1. Ordered(entries) /\ \A k \in 1 .. a : entries[k].seq = k
      BY <1>2, <2>3 DEF Tampered
    <3> HIDE DEF q
    <3>2. LET h == Rehashes(entries, q + 1, a) IN
          /\ Leafy(h)
          /\ Len(h) = a - q
          /\ \A k \in 1 .. a - q : h[k] = Rehashed(entries[q + k])
          /\ h[1][1] = "entry" /\ h[1][2] = q + 1
      BY <2>3, <2>8, <3>1, RehashesFirst, Zenon
    <3> QED BY <3>2
  <2>10. cps[j].root = MerkleRoot(old)
    <3> SUFFICES ASSUME MerkleRoot(old) # cps[j].root PROVE FALSE
      OBVIOUS
    <3>1. old = LET found == Between(entries, PriorAt(cps, j) + 1, cps[j].at) IN [k \in DOMAIN found |-> Rehashed(found[k])]
      BY <2>6, Zenon DEF q, Rehashes
    <3>2. a \in a .. a
      BY <2>3
    <3> HIDE DEF old
    <3>3. <<"merkle-mismatch", cps[j].at>> \in RootAnomalies(entries, cps, a, a)
      BY <2>6, <3>1, <3>2 DEF RootAnomalies
    <3> QED BY <2>4, <3>3
  <2> HIDE DEF q, old
  <2>11. i - q \in 1 .. a - q /\ q + (i - q) = i
    BY <1>2, <1>4, <2>3, <2>7
  <2>12. old[i - q] # Rehashed(entries'[i])
    BY <1>10, <2>9, <2>11
  <2>13. a \in 1 .. Len(entries') /\ \A k \in 1 .. a : entries'[k].seq = k
    BY <1>2, <1>7, <1>8, <2>3
  <2>14. Rooted(entries', cps, i, a)
    BY <2>3, <2>6, <2>7, <2>9, <2>10, <2>12, <2>13 DEF Rooted
  <2> QED BY <1>1, <2>2, <2>3, <2>14
<1>13. Owing'
  <2> SUFFICES ASSUME NEW range \in owed'
               PROVE  \E s \in Nat \ {0} : \/ range = <<s, s + 1>> /\ Broken(entries', s)
                                           \/ \E a \in Nat : range = <<s, a>> /\ Rooted(entries', cps', s, a)
    BY <1>1 DEF Owing
  <2>1. i \in Nat \ {0}
    BY <1>2, <1>4
  <2> QED BY <1>4, <1>11, <1>12, <2>1
<1>14. Numbered'
  <2>1. \A k \in DOMAIN entries' : entries'[k].seq = entries[k].seq /\ k \in DOMAIN entries
    BY <1>2, <1>7, <1>8
  <2> QED BY <1>1, <2>1, NumbersOfEdited
<1> QED BY <1>1, <1>9, <1>13, <1>14 DEF Tampered

LEMMA TamperedByDelete ==
  ASSUME Inv, Tampered, Delete
  PROVE  Tampered'
<1>1. intact /\ ~ intact' /\ UNCHANGED <<host, cps, local>>
  BY DEF Delete
<1>2. /\ Len(entries) \in Nat /\ DOMAIN entries = 1 .. Len(entries) /\ (\E S : entries \in Seq(S))
      /\ \A k \in 1 .. Len(entries) : entries[k].seq = k /\ DOMAIN entries[k] = {"seq", "content", "prev", "hash"}
  BY <1>1, IntactRows
<1>3. PICK i \in DOMAIN entries : entries' = SubSeq(entries, 1, i - 1) \o SubSeq(entries, i + 1, Len(entries)) /\ owed' = Followed(i)
  BY DEF Delete
<1>4. i \in 1 .. Len(entries)
  BY <1>2
<1>5. /\ (\E S : entries' \in Seq(S)) /\ DOMAIN entries' = 1 .. Len(entries) - 1
      /\ \A k \in 1 .. Len(entries) - 1 : entries'[k] = entries[IF k < i THEN k ELSE k + 1]
  <2>1. PICK S : entries \in Seq(S)
    BY <1>2
  <2> DEFINE a == SubSeq(entries, 1, i - 1)
             b == SubSeq(entries, i + 1, Len(entries))
  <2>2. a \in Seq(S) /\ Len(a) = i - 1 /\ \A k \in 1 .. i - 1 : a[k] = entries[k]
    <3>1. CASE i = 1
      BY <1>2, <1>4, <2>1, <3>1
    <3>2. CASE i # 1
      BY <1>2, <1>4, <2>1, <3>2
    <3> QED BY <3>1, <3>2
  <2>3. b \in Seq(S) /\ Len(b) = Len(entries) - i /\ \A k \in 1 .. Len(entries) - i : b[k] = entries[i + k]
    <3>1. CASE i = Len(entries)
      <4>1. b = <<>>
        BY <1>2, <1>4, <2>1, <3>1
      <4> QED BY <1>2, <3>1, <4>1
    <3>2. CASE i # Len(entries)
      BY <1>2, <1>4, <2>1, <3>2
    <3> QED BY <3>1, <3>2
  <2>4. entries' = a \o b
    BY <1>3
  <2> HIDE DEF a, b
  <2>5. entries' \in Seq(S) /\ Len(entries') = Len(entries) - 1
    <3>1. entries' \in Seq(S) /\ Len(entries') = Len(a) + Len(b)
      BY <2>2, <2>3, <2>4, Joined
    <3> QED BY <1>2, <1>4, <2>2, <2>3, <3>1
  <2>6. \A k \in 1 .. Len(entries) - 1 : entries'[k] = IF k <= i - 1 THEN a[k] ELSE b[k - (i - 1)]
    <3>1. /\ \A k \in 1 .. i - 1 : entries'[k] = a[k]
          /\ \A k \in i .. Len(entries) - 1 : entries'[k] = b[k - (i - 1)]
      <4>1. /\ \A k \in 1 .. Len(a) : entries'[k] = a[k]
            /\ \A k \in Len(a) + 1 .. Len(a) + Len(b) : entries'[k] = b[k - Len(a)]
        BY <2>2, <2>3, <2>4, Joined
      <4> QED BY <1>2, <1>4, <2>2, <2>3, <4>1
    <3> TAKE k \in 1 .. Len(entries) - 1
    <3>2. CASE k <= i - 1
      BY <1>2, <1>4, <3>1, <3>2
    <3>3. CASE ~(k <= i - 1)
      BY <1>2, <1>4, <3>1, <3>3
    <3> QED BY <3>2, <3>3
  <2>7. ASSUME NEW k \in 1 .. Len(entries) - 1 PROVE entries'[k] = entries[IF k < i THEN k ELSE k + 1]
    <3>1. CASE k < i
      BY <1>2, <1>4, <2>2, <2>6, <3>1
    <3>2. CASE ~(k < i)
      <4>1. k - (i - 1) \in 1 .. Len(entries) - i /\ i + (k - (i - 1)) = k + 1 /\ ~(k <= i - 1)
        BY <1>2, <1>4, <3>2
      <4> QED BY <2>3, <2>6, <3>2, <4>1
    <3> QED BY <3>1, <3>2
  <2>8. DOMAIN entries' = 1 .. Len(entries) - 1
    BY <1>2, <1>4, <2>5
  <2> QED BY <2>5, <2>7, <2>8
<1>6. ASSUME NEW k \in 1 .. Len(entries) - 1
      PROVE  /\ entries'[k].seq = (IF k < i THEN k ELSE k + 1) /\ entries'[k].seq # i /\ entries'[k].seq \in 1 .. Len(entries)
             /\ DOMAIN entries'[k] = {"seq", "content", "prev", "hash"}
  <2>1. (IF k < i THEN k ELSE k + 1) \in 1 .. Len(entries) /\ (IF k < i THEN k ELSE k + 1) # i
    BY <1>2, <1>4
  <2> QED BY <1>2, <1>5, <2>1
<1>7. Ordered(entries')
  <2>1. (\E S : entries' \in Seq(S)) /\ DOMAIN entries' = 1 .. Len(entries) - 1
    BY <1>5
  <2>2. ASSUME NEW k \in 1 .. Len(entries) - 1 PROVE Numberable(entries'[k])
    <3>1. entries'[k].seq \in Nat \ {0}
      BY <1>2, <1>6
    <3> QED BY <1>6, <3>1 DEF Numberable
  <2>3. ASSUME NEW k \in 1 .. Len(entries) - 1, NEW m \in 1 .. Len(entries) - 1, k < m
        PROVE  entries'[k].seq < entries'[m].seq
    <3>1. entries'[k].seq = (IF k < i THEN k ELSE k + 1) /\ entries'[m].seq = (IF m < i THEN m ELSE m + 1)
      BY <1>6
    <3>2. (IF k < i THEN k ELSE k + 1) < (IF m < i THEN m ELSE m + 1)
      BY <1>2, <1>4, <2>3
    <3> QED BY <3>1, <3>2
  <2> QED BY <2>1, <2>2, <2>3 DEF Ordered
<1>8. ASSUME NEW range \in owed'
      PROVE  \E s \in Nat \ {0} : range = <<s, s + 1>> /\ Broken(entries', s)
  <2>1. i < Len(entries) /\ range = <<entries[i].seq, entries[i + 1].seq>>
    BY <1>3, <1>8 DEF Followed
  <2>2. i + 1 \in 1 .. Len(entries) /\ i \in 1 .. Len(entries) - 1 /\ i \in Nat \ {0}
    BY <1>2, <1>4, <2>1
  <2>3. range = <<i, i + 1>> /\ entries'[i].seq = i + 1
    BY <1>2, <1>4, <1>6, <2>1, <2>2
  <2>4. Broken(entries', i)
    BY <1>5, <1>6, <2>2, <2>3 DEF Broken
  <2> QED BY <2>2, <2>3, <2>4
<1>9. Owing'
  BY <1>1, <1>8 DEF Owing
<1>10. Numbered'
  <2>1. \A k \in DOMAIN entries' : \E j \in DOMAIN entries : entries'[k].seq = entries[j].seq
    BY <1>2, <1>5, <1>6
  <2> QED BY <1>1, <2>1, NumbersOfEdited
<1> QED BY <1>1, <1>7, <1>9, <1>10 DEF Tampered

LEMMA TamperedInit == AuditInit => Tampered
<1> SUFFICES ASSUME AuditInit PROVE Tampered
  OBVIOUS
<1>1. <<>> \in Seq({})
  OBVIOUS
<1>2. entries = <<>> /\ cps = <<>> /\ Ordered(<<>>) /\ Stamped(<<>>)
  BY <1>1 DEF AuditInit, Ordered, Stamped
<1>3. Numbered
  BY <1>2 DEF AuditInit, Numbered, Closed, AtRest, Holding
<1> QED BY <1>2, <1>3 DEF AuditInit, Tampered, Owing

LEMMA TamperedStep == Inv /\ Tampered /\ [AuditNext]_auditVars => Tampered'
<1> SUFFICES ASSUME Inv, Tampered, [AuditNext]_auditVars PROVE Tampered'
  OBVIOUS
<1>1. CASE Write \/ BootV2 \/ BootSqlite
  BY <1>1, TamperedLocally
<1>2. CASE Stop \/ UNCHANGED auditVars
  BY <1>2 DEF Stop, auditVars, local, Tampered, Numbered, Owing
<1>3. ASSUME NEW t \in Threads, LogAudit(t) \/ TriggerCheckpoint(t) PROVE Tampered'
  BY <1>3, TamperedByHandler, TamperedByCommit
<1>4. ASSUME NEW p \in Procs, ProcessDies(p) PROVE Tampered'
  BY <1>4, TamperedByCrash
<1>5. CASE Edit \/ Delete
  BY <1>5, TamperedByEdit, TamperedByDelete
<1> QED BY <1>1, <1>2, <1>3, <1>4, <1>5 DEF AuditNext

(* Whatever entry was changed or taken out of the table, a re-walk of any  *)
(* range that holds it and the entry after it, or an edited entry and the  *)
(* checkpoint that anchored it, reports something, however much the host   *)
(* wrote since (verifyAuditChain, verify).                                 *)
THEOREM TamperingIsSeen == AuditSpec => []TamperSeen
<1>1. Tampered => TamperSeen
  <2> SUFFICES ASSUME Tampered, NEW range \in owed, NEW from \in 0 .. range[1], NEW to \in range[2] .. MaxSeq
               PROVE  Reported(from, to) # {}
    BY DEF TamperSeen
  <2>1. PICK s \in Nat \ {0} : \/ range = <<s, s + 1>> /\ Broken(entries, s)
                               \/ \E a \in Nat : range = <<s, a>> /\ Rooted(entries, cps, s, a)
    BY DEF Tampered, Owing
  <2>2. CASE range = <<s, s + 1>> /\ Broken(entries, s)
    <3>1. from \in Nat /\ to \in Nat /\ from <= s /\ s + 1 <= to
      BY <2>2, AuditAssumption
    <3> QED BY <2>2, <3>1, BrokenReported DEF Reported, Tampered
  <2>3. CASE \E a \in Nat : range = <<s, a>> /\ Rooted(entries, cps, s, a)
    <3>1. PICK a \in Nat : range = <<s, a>> /\ Rooted(entries, cps, s, a)
      BY <2>3
    <3>2. from \in Nat /\ to \in Nat /\ from <= s /\ a <= to
      BY <3>1, AuditAssumption
    <3> QED BY <3>1, <3>2, RootedReported DEF Reported, Tampered
  <2> QED BY <2>1, <2>2, <2>3
<1> QED BY <1>1, TamperedInit, TamperedStep, InvHolds, PTL DEF AuditSpec
=============================================================================
