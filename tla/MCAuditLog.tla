----------------------------- MODULE MCAuditLog ------------------------------
(* Two processes of a Postgres host with two handlers and one; two kinds   *)
(* of entry; a checkpoint every two entries.                               *)
EXTENDS AuditLog, TLC

CONSTANTS p1, p2, t1, t2, t3, e1, e2

MCProcOf == (t1 :> p1) @@ (t2 :> p1) @@ (t3 :> p2)

MCSymmetry == Permutations({e1, e2}) \cup Permutations({t1, t2})
=============================================================================
