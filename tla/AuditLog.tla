------------------------------- MODULE AuditLog ------------------------------
(***************************************************************************)
(* The audit logs of the three persistent hosts.  The v2 reference and the *)
(* SQLite host are one process each whose calls are synchronous, so a      *)
(* write and its checkpoint are one step that only a crash can cut.  The   *)
(* Postgres host is several processes, each with one connection that all   *)
(* its handlers share: every statement is a step, withTransaction lets one *)
(* handler of a process have a transaction open at a time, and a statement *)
(* of any other handler of that process lands inside that transaction.     *)
(*                                                                         *)
(* A transaction rolls back when a statement of it fails or its process    *)
(* dies.  The UPDATE of audit_seq holds the row's lock until the end of    *)
(* the transaction; reads are at READ COMMITTED.                           *)
(*                                                                         *)
(* An operator can write to the tables from outside, once: edit an entry   *)
(* in place, with or without recomputing its hash, or delete one (the      *)
(* tests of the repository do, with OPENWOP_AUDIT_ALLOW_TAMPER).           *)
(***************************************************************************)
EXTENDS AuditChain

CONSTANTS Hosts,     \* the kinds of host, a subset of {"v2", "sqlite", "postgres"}
          Contents,  \* what an entry may record
          Procs,     \* the processes of a Postgres host
          Threads,   \* the handlers they run
          ProcOf,    \* the process of each handler
          Interval,  \* checkpointIntervalEntries
          MaxSeq,    \* bound: entries ever numbered
          None       \* no handler, no process

ASSUME AuditAssumption ==
  /\ Hosts \subseteq {"v2", "sqlite", "postgres"}
  /\ ProcOf \in [Threads -> Procs]
  /\ Interval \in Nat \ {0}
  /\ MaxSeq \in Nat
  /\ None \notin Threads \cup Procs

VARIABLES host,     \* which of the hosts this is
          entries,  \* audit_log, committed
          cps,      \* audit_checkpoints, committed
          nextSeq,  \* audit_seq.next_seq, committed (Postgres)
          lock,     \* the process whose transaction holds the row of audit_seq
          conn,     \* each process's connection: the open transaction and its writes
          handler,  \* each handler: where it is and what it has read
          alive,    \* the single process is running (v2, SQLite)
          intact,   \* nobody has written to the tables from outside
          owed      \* the ranges of which a re-walk must report something

auditVars == <<host, entries, cps, nextSeq, lock, conn, handler, alive, intact, owed>>

local == <<nextSeq, lock, conn, handler>>

Local == host # "postgres"

Closed == [tx |-> None, rows |-> <<>>, cps |-> <<>>]

AtRest == [pc |-> "idle", seq |-> 0, prev |-> NoHash, last |-> 0, tip |-> 0, root |-> NoHash]

AuditInit ==
  /\ host \in Hosts
  /\ entries = <<>>
  /\ cps = <<>>
  /\ nextSeq = 1
  /\ lock = None
  /\ conn = [p \in Procs |-> Closed]
  /\ handler = [t \in Threads |-> AtRest]
  /\ alive = FALSE
  /\ intact = TRUE
  /\ owed = {}

-----------------------------------------------------------------------------
(* The single-process hosts.                                               *)

(* logAudit: number, chain and insert the entry in one transaction.        *)
Appended(rows, c) == Append(rows, Row(Tip(rows) + 1, c, TipHash(rows)))

(* triggerCheckpointIfDue.                                                 *)
CheckpointIfDue(rows, late) ==
  IF IsDue(Tip(rows), LastAt(cps), Interval, late) THEN Checkpointed(rows, cps) ELSE cps

(* A write that succeeded: append an entry, then checkpoint if one is due. *)
(* The process may die between the two.                                    *)
Write ==
  /\ Local
  /\ alive
  /\ Tip(entries) < MaxSeq
  /\ \E c \in Contents, late \in BOOLEAN :
       /\ entries' = Appended(entries, c)
       /\ \/ /\ cps' = CheckpointIfDue(entries', late)
             /\ alive' = TRUE
          \/ /\ cps' = cps
             /\ alive' = FALSE
  /\ UNCHANGED <<host, intact, owed, local>>

Stop ==
  /\ Local
  /\ alive
  /\ alive' = FALSE
  /\ UNCHANGED <<host, entries, cps, intact, owed, local>>

(* Mutation: boot creates its tables anew.                                 *)
BootAnew ==
  /\ host = "v2"
  /\ ~alive
  /\ alive' = TRUE
  /\ \E c \in Contents : entries' = Appended(<<>>, c)
  /\ cps' = Checkpointed(entries', <<>>)
  /\ UNCHANGED <<host, intact, owed, local>>

(* Boot of the v2 host: append host.started, which checkpoints if one is   *)
(* due, then checkpoint whatever is left.                                  *)
BootV2 ==
  /\ host = "v2"
  /\ ~alive
  /\ Tip(entries) < MaxSeq
  /\ alive' = TRUE
  /\ \E c \in Contents, late \in BOOLEAN :
       /\ entries' = Appended(entries, c)
       /\ cps' = Checkpointed(entries', CheckpointIfDue(entries', late))
  /\ UNCHANGED <<host, intact, owed, local>>

(* Boot of the SQLite host: append host.started and checkpoint.            *)
BootSqlite ==
  /\ host = "sqlite"
  /\ ~alive
  /\ Tip(entries) < MaxSeq
  /\ alive' = TRUE
  /\ \E c \in Contents : entries' = Appended(entries, c)
  /\ cps' = Checkpointed(entries', cps)
  /\ UNCHANGED <<host, intact, owed, local>>

-----------------------------------------------------------------------------
(* The Postgres host.                                                      *)

(* What a statement of process p reads: the committed rows and those of    *)
(* the transaction open on its connection.                                 *)
LogOf(p) == entries \o conn[p].rows

CpsOf(p) == cps \o conn[p].cps

HandlerAt(t, pc) == host = "postgres" /\ handler[t].pc = pc

Goto(t, pc) == handler' = [handler EXCEPT ![t].pc = pc]

(* withTransaction: BEGIN once no handler of the process has one open.     *)
(* Handlers wait in order in the code; here any of them may be next.       *)
Begin(t) ==
  /\ HandlerAt(t, "idle")
  /\ conn[ProcOf[t]].tx = None
  /\ conn' = [conn EXCEPT ![ProcOf[t]].tx = t]
  /\ Goto(t, "alloc")
  /\ UNCHANGED <<host, entries, cps, nextSeq, lock, alive, intact, owed>>

(* Mutation: the number is read without locking its row.                   *)
AllocUnlocked(t) ==
  /\ HandlerAt(t, "alloc")
  /\ nextSeq <= MaxSeq
  /\ handler' = [handler EXCEPT ![t].pc = "prior", ![t].seq = nextSeq]
  /\ UNCHANGED <<host, entries, cps, nextSeq, lock, conn, alive, intact, owed>>

(* UPDATE audit_seq ... RETURNING: waits for the row's lock and keeps it.  *)
Alloc(t) ==
  /\ HandlerAt(t, "alloc")
  /\ lock \in {None, ProcOf[t]}
  /\ nextSeq <= MaxSeq
  /\ lock' = ProcOf[t]
  /\ handler' = [handler EXCEPT ![t].pc = "prior", ![t].seq = nextSeq]
  /\ UNCHANGED <<host, entries, cps, nextSeq, conn, alive, intact, owed>>

ReadPrior(t) ==
  /\ HandlerAt(t, "prior")
  /\ handler' = [handler EXCEPT ![t].pc = "insert", ![t].prev = TipHash(LogOf(ProcOf[t]))]
  /\ UNCHANGED <<host, entries, cps, nextSeq, lock, conn, alive, intact, owed>>

Insert(t) ==
  /\ HandlerAt(t, "insert")
  /\ \E c \in Contents :
       conn' = [conn EXCEPT ![ProcOf[t]].rows =
                  Append(@, Row(handler[t].seq, c, handler[t].prev))]
  /\ Goto(t, "commit")
  /\ UNCHANGED <<host, entries, cps, nextSeq, lock, alive, intact, owed>>

(* COMMIT: everything written on the connection since BEGIN lands.         *)
Commit(t) ==
  LET p == ProcOf[t] IN
  /\ HandlerAt(t, "commit")
  /\ entries' = LogOf(p)
  /\ cps' = CpsOf(p)
  /\ nextSeq' = nextSeq + 1
  /\ lock' = None
  /\ conn' = [conn EXCEPT ![p] = Closed]
  /\ handler' = [handler EXCEPT ![t] = [AtRest EXCEPT !.pc = "dueLast"]]
  /\ UNCHANGED <<host, alive, intact, owed>>

(* A statement of the transaction fails: ROLLBACK, and the handler with    *)
(* it.  What other handlers wrote on the connection is rolled back too.    *)
Rollback(t) ==
  /\ \E pc \in {"alloc", "prior", "insert", "commit"} : HandlerAt(t, pc)
  /\ conn' = [conn EXCEPT ![ProcOf[t]] = Closed]
  /\ lock' = IF lock = ProcOf[t] THEN None ELSE lock
  /\ handler' = [handler EXCEPT ![t] = AtRest]
  /\ UNCHANGED <<host, entries, cps, nextSeq, alive, intact, owed>>

(* triggerCheckpointIfDue: the newest checkpoint, then the tip, then the   *)
(* verdict.                                                                *)
DueLast(t) ==
  /\ HandlerAt(t, "dueLast")
  /\ handler' = [handler EXCEPT ![t].pc = "dueTip", ![t].last = LastAt(CpsOf(ProcOf[t]))]
  /\ UNCHANGED <<host, entries, cps, nextSeq, lock, conn, alive, intact, owed>>

DueTip(t) ==
  /\ HandlerAt(t, "dueTip")
  /\ \E late \in BOOLEAN :
       handler' = [handler EXCEPT ![t] =
                IF IsDue(Tip(LogOf(ProcOf[t])), handler[t].last, Interval, late)
                  THEN [AtRest EXCEPT !.pc = "cpLast"]
                  ELSE AtRest]
  /\ UNCHANGED <<host, entries, cps, nextSeq, lock, conn, alive, intact, owed>>

(* createCheckpoint: the newest checkpoint, the tip, the entries between,  *)
(* and the insert, each a statement of its own and outside a transaction   *)
(* of this handler.                                                        *)
CpLast(t) ==
  /\ HandlerAt(t, "cpLast")
  /\ handler' = [handler EXCEPT ![t].pc = "cpTip", ![t].last = LastAt(CpsOf(ProcOf[t]))]
  /\ UNCHANGED <<host, entries, cps, nextSeq, lock, conn, alive, intact, owed>>

CpTip(t) ==
  LET tip == Tip(LogOf(ProcOf[t])) IN
  /\ HandlerAt(t, "cpTip")
  /\ handler' = [handler EXCEPT ![t] =
              IF tip <= handler[t].last
                THEN AtRest
                ELSE [@ EXCEPT !.pc = "cpEntries", !.tip = tip]]
  /\ UNCHANGED <<host, entries, cps, nextSeq, lock, conn, alive, intact, owed>>

CpEntries(t) ==
  /\ HandlerAt(t, "cpEntries")
  /\ handler' = [handler EXCEPT
              ![t].pc = "cpInsert",
              ![t].root = Checkpoint(LogOf(ProcOf[t]), handler[t].last + 1, handler[t].tip).root]
  /\ UNCHANGED <<host, entries, cps, nextSeq, lock, conn, alive, intact, owed>>

CpInsert(t) ==
  LET p == ProcOf[t]
      cp == [at |-> handler[t].tip, root |-> handler[t].root]
  IN
  /\ HandlerAt(t, "cpInsert")
  /\ \/ /\ conn[p].tx = None
        /\ cps' = Append(cps, cp)
        /\ conn' = conn
     \/ /\ conn[p].tx # None
        /\ conn' = [conn EXCEPT ![p].cps = Append(@, cp)]
        /\ cps' = cps
  /\ handler' = [handler EXCEPT ![t] = AtRest]
  /\ UNCHANGED <<host, entries, nextSeq, lock, alive, intact, owed>>

(* A process dies: its transaction is rolled back and its handlers end.    *)
ProcessDies(p) ==
  /\ host = "postgres"
  /\ conn' = [conn EXCEPT ![p] = Closed]
  /\ lock' = IF lock = p THEN None ELSE lock
  /\ handler' = [t \in Threads |-> IF ProcOf[t] = p THEN AtRest ELSE handler[t]]
  /\ UNCHANGED <<host, entries, cps, nextSeq, alive, intact, owed>>

-----------------------------------------------------------------------------
(* What the host's verify reports of a range.                              *)
Reported(from, to) ==
  IF host = "v2" THEN Verify(entries, cps, from, to) ELSE VerifyAuditChain(entries, cps, from, to)

(* An outside hand on the table, once.  A re-walk owes a report of any     *)
(* range that holds the row and the one after it, or an edited row and the *)
(* first checkpoint that anchored it, if that one verified before; the     *)
(* newest entries can be cut off unseen.                                   *)

Followed(i) == IF i < Len(entries) THEN {<<entries[i].seq, entries[i + 1].seq>>} ELSE {}

Anchored(i) ==
  LET later == {a \in Ats(cps) : a \in entries[i].seq .. Tip(entries)}
  IN  {<<entries[i].seq, a>> :
         a \in {b \in later : (\A d \in later : b <= d) /\ Reported(b, b) = {}}}

Edit ==
  /\ intact
  /\ \E i \in DOMAIN entries, c \in Contents, rehash \in BOOLEAN :
       LET row == [entries[i] EXCEPT !.content = c] IN
       /\ c # entries[i].content
       /\ entries' = [entries EXCEPT ![i] = IF rehash THEN [row EXCEPT !.hash = Rehashed(row)] ELSE row]
       /\ owed' = Followed(i) \cup Anchored(i)
  /\ intact' = FALSE
  /\ UNCHANGED <<host, cps, alive, local>>

Delete ==
  /\ intact
  /\ \E i \in DOMAIN entries :
       /\ entries' = SubSeq(entries, 1, i - 1) \o SubSeq(entries, i + 1, Len(entries))
       /\ owed' = Followed(i)
  /\ intact' = FALSE
  /\ UNCHANGED <<host, cps, alive, local>>

-----------------------------------------------------------------------------
LogAudit(t) == Begin(t) \/ Alloc(t) \/ ReadPrior(t) \/ Insert(t) \/ Commit(t) \/ Rollback(t)

TriggerCheckpoint(t) ==
  DueLast(t) \/ DueTip(t) \/ CpLast(t) \/ CpTip(t) \/ CpEntries(t) \/ CpInsert(t)

AuditNext ==
  \/ Write \/ Stop \/ BootV2 \/ BootSqlite
  \/ \E t \in Threads : LogAudit(t) \/ TriggerCheckpoint(t)
  \/ \E p \in Procs : ProcessDies(p)
  \/ Edit \/ Delete

AuditSpec == AuditInit /\ [][AuditNext]_auditVars

-----------------------------------------------------------------------------
(* Properties                                                              *)

(* The chain is whole: whatever the number of processes and however their  *)
(* transactions end, the numbers run from 1 without a gap, and each entry  *)
(* names the hash of the one before it.  This is what the row lock of      *)
(* audit_seq is for.                                                       *)
ChainIntact ==
  intact =>
    \A i \in DOMAIN entries :
      /\ entries[i].seq = i
      /\ entries[i].prev = IF i = 1 THEN NoHash ELSE entries[i - 1].hash
      /\ entries[i].hash = Rehashed(entries[i])

(* Until someone tampers, the table is an append-only log: every step adds *)
(* at most one entry, at the end, and none is ever lost.                   *)
AppendOnly ==
  INSTANCE AppendOnlyLog WITH entries <- [i \in DOMAIN entries |-> entries[i].content]

LogIsAppendOnly == AppendOnly!Spec

(* Every range that holds a changed entry and the one after it, or an      *)
(* edited entry and the checkpoint that anchored it, is reported, whether  *)
(* or not the entry's hash was recomputed, and whatever was appended since.*)
TamperSeen ==
  \A range \in owed :
    \A from \in 0 .. range[1], to \in range[2] .. MaxSeq : Reported(from, to) # {}

(* A running single-process host never leaves as many entries without a    *)
(* checkpoint as it advertises, also across crashes and restarts.          *)
AnchorsKeepUp ==
  Local /\ alive /\ intact => Tip(entries) - LastAt(cps) < Interval

=============================================================================
