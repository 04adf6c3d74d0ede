------------------------------ MODULE AuditChain -----------------------------
(***************************************************************************)
(* The pure part of the three audit logs (v2-reference/src/audit.ts,       *)
(* sqlite/src/audit.ts, postgres/src/audit.ts): how an entry is chained to *)
(* the one before it, how a checkpoint anchors a range of entries under a  *)
(* Merkle root, and what a re-walk of the table reports.                   *)
(*                                                                         *)
(* A hash is symbolic: the tuple of what was hashed, so that two hashes    *)
(* are equal exactly when their inputs are (SHA-256 without collisions,    *)
(* over canonical JSON that survives the store).  A signature always       *)
(* verifies: one key signs every checkpoint and no checkpoint is forged.   *)
(***************************************************************************)
EXTENDS Integers, Sequences, FiniteSets

NoHash == <<"none">>

(* The hash of an entry covers its number, its contents and the hash of    *)
(* the entry before it.                                                    *)
EntryHash(seq, content, prev) == <<"entry", seq, content, prev>>

(* A row of audit_log: the columns the hash covers and the stored hash.    *)
Row(seq, content, prev) ==
  [seq |-> seq, content |-> content, prev |-> prev,
   hash |-> EntryHash(seq, content, prev)]

(* The hash of what a row says now, whatever its hash column says.         *)
Rehashed(row) == EntryHash(row.seq, row.content, row.prev)

(* One level of the Merkle tree: pairs are hashed, an odd node at the end  *)
(* is promoted unchanged.                                                  *)
Paired(level) ==
  [i \in 1 .. (Len(level) + 1) \div 2 |->
     IF 2 * i > Len(level)
       THEN level[2 * i - 1]
       ELSE <<"node", level[2 * i - 1], level[2 * i]>>]

MerkleRoot(leaves) ==
  LET up[n \in 0 .. Len(leaves)] == IF n = 0 THEN leaves ELSE Paired(up[n - 1])
  IN  IF leaves = <<>> THEN <<"empty">> ELSE up[Len(leaves)][1]

-----------------------------------------------------------------------------
(* The queries.  Rows are kept in the order of their numbers, checkpoints  *)
(* in the order of their insertion.                                        *)

Tip(rows) == IF rows = <<>> THEN 0 ELSE rows[Len(rows)].seq

TipHash(rows) == IF rows = <<>> THEN NoHash ELSE rows[Len(rows)].hash

Between(rows, lo, hi) ==
  LET upTo(n) == Cardinality({i \in DOMAIN rows : rows[i].seq <= n})
  IN  SubSeq(rows, upTo(lo - 1) + 1, upTo(hi))

Ats(cps) == {cps[i].at : i \in DOMAIN cps}

(* at_sequence of the newest checkpoint, 0 when there is none.             *)
LastAt(cps) == IF cps = <<>> THEN 0 ELSE CHOOSE a \in Ats(cps) : \A b \in Ats(cps) : b <= a

Hashes(rows) == [i \in DOMAIN rows |-> rows[i].hash]

(* The checkpoint that anchors the rows from one number to another.        *)
Checkpoint(rows, from, to) ==
  [at |-> to, root |-> MerkleRoot(Hashes(Between(rows, from, to)))]

(* A checkpoint of everything since the last one, or none when there is    *)
(* nothing new.                                                            *)
Checkpointed(rows, cps) ==
  IF Tip(rows) <= LastAt(cps)
    THEN cps
    ELSE Append(cps, Checkpoint(rows, LastAt(cps) + 1, Tip(rows)))

(* Mutation: a checkpoint is due one entry late.                           *)
IsDueLate(tip, last, interval, late) ==
  /\ tip > 0
  /\ tip - last > interval \/ last = 0 \/ late

(* Whether a checkpoint is due: enough entries or, as the clock has it,    *)
(* enough time; a log without a checkpoint has waited for ever.            *)
IsDue(tip, last, interval, late) ==
  /\ tip > 0
  /\ tip - last >= interval \/ last = 0 \/ late

-----------------------------------------------------------------------------
(* The re-walk.  An anomaly is a kind and the number it is reported at.    *)

(* Entry by entry: the numbers must follow one another from lo, each entry *)
(* must name the hash of the one before it as that one now hashes, and its *)
(* stored hash must be the hash of what it says.                           *)
EntryAnomalies(rows, lo, hi) ==
  LET walked == Between(rows, lo, hi)
      before == Between(rows, lo - 1, lo - 1)
      number(i) == IF i = 1 THEN lo ELSE walked[i - 1].seq + 1
      prev(i) == IF i > 1 THEN Rehashed(walked[i - 1]) ELSE TipHash(before)
  IN  {<<"missing-entry", number(i)>> :
         i \in {j \in DOMAIN walked : walked[j].seq # number(j)}}
      \cup {<<"chain-break", walked[i].seq>> :
         i \in {j \in DOMAIN walked : walked[j].prev # prev(j)}}
      \cup {<<"hash-mismatch", walked[i].seq>> :
         i \in {j \in DOMAIN walked : walked[j].hash # Rehashed(walked[j])}}

(* at_sequence of the checkpoint sorted before the i-th one, 0 when there  *)
(* is none.  Two checkpoints at one number come in the order of insertion. *)
PriorAt(cps, i) ==
  LET earlier == {cps[j].at : j \in {k \in DOMAIN cps :
                    cps[k].at < cps[i].at \/ (cps[k].at = cps[i].at /\ k < i)}}
  IN  IF earlier = {} THEN 0 ELSE CHOOSE a \in earlier : \A b \in earlier : b <= a

(* Mutation: the checkpoint at the end of the range is left out.           *)
RootAnomaliesShort(rows, cps, lo, hi) ==
  LET anchored(i) == Between(rows, PriorAt(cps, i) + 1, cps[i].at)
      leaves(i) == [j \in DOMAIN anchored(i) |-> Rehashed(anchored(i)[j])]
  IN  {<<"merkle-mismatch", cps[i].at>> :
         i \in {j \in DOMAIN cps :
                  /\ cps[j].at \in lo .. hi - 1
                  /\ MerkleRoot(leaves(j)) # cps[j].root}}

(* Checkpoint by checkpoint: its root must be the root of the rows between *)
(* it and the one before it, each hashed as it now reads.                  *)
RootAnomalies(rows, cps, lo, hi) ==
  LET anchored(i) == Between(rows, PriorAt(cps, i) + 1, cps[i].at)
      leaves(i) == [j \in DOMAIN anchored(i) |-> Rehashed(anchored(i)[j])]
  IN  {<<"merkle-mismatch", cps[i].at>> :
         i \in {j \in DOMAIN cps :
                  /\ cps[j].at \in lo .. hi
                  /\ MerkleRoot(leaves(j)) # cps[j].root}}

(* v2-reference also holds the number of anchored rows to the range.       *)
CountAnomalies(rows, cps, lo, hi) ==
  {<<"merkle-mismatch", cps[i].at>> :
     i \in {j \in DOMAIN cps :
              /\ cps[j].at \in lo .. hi
              /\ Len(Between(rows, PriorAt(cps, j) + 1, cps[j].at)) # cps[j].at - PriorAt(cps, j)}}

(* The bounds a caller asks for, clamped to the table.                     *)
Low(from) == IF from < 1 THEN 1 ELSE from

High(rows, to) == IF to > Tip(rows) THEN Tip(rows) ELSE to

(* verifyAuditChain of the SQLite and the Postgres hosts.                  *)
VerifyAuditChain(rows, cps, from, to) ==
  EntryAnomalies(rows, Low(from), High(rows, to))
    \cup RootAnomalies(rows, cps, Low(from), High(rows, to))

(* verify of the v2 reference host.                                        *)
Verify(rows, cps, from, to) ==
  VerifyAuditChain(rows, cps, from, to)
    \cup CountAnomalies(rows, cps, Low(from), High(rows, to))
=============================================================================
