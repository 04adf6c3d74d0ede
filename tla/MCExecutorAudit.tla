--------------------------- MODULE MCExecutorAudit ---------------------------
(***************************************************************************)
(* Two parts in one run.  They share no state, so a behaviour follows one of *)
(* them and the other stands still: the runs of the v2 reference host        *)
(* (Executor), the audit logs of three hosts (AuditLog).                      *)
(***************************************************************************)
EXTENDS MCExecutor, MCAuditLog

VARIABLE followed

\* What is not followed starts, and stays, in one state.
ExecutorAuditInit ==
  /\ followed \in {"runs", "audit"}
  /\ Init /\ AuditInit
  /\ followed # "audit" => host = "v2"
  /\ followed # "runs" => wf = [r \in Runs |-> Overrun]

ExecutorAuditNext ==
  \/ followed = "runs" /\ Next /\ UNCHANGED <<followed, auditVars>>
  \/ followed = "audit" /\ AuditNext /\ UNCHANGED <<followed, vars>>

ExecutorAuditSpec == ExecutorAuditInit /\ [][ExecutorAuditNext]_<<followed, vars, auditVars>>
=============================================================================
