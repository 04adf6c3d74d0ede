------------------------------ MODULE MCParts ------------------------------
(***************************************************************************)
(* Three parts of the v2 reference host in one run.  They share no state, so *)
(* a behaviour follows one of them and the others stand still: the          *)
(* scheduling loop (Scheduler), requests under a key (Idempotency), the      *)
(* tasks of other agents (AgentTasks).                                       *)
(***************************************************************************)
EXTENDS MCScheduler, MCIdempotency, AgentTasks

VARIABLE followed

keyVars == vars

\* What is not followed starts, and stays, in one state.
PartsInit ==
  /\ followed \in {"loop", "keys", "tasks"}
  /\ SchedulerInit /\ Init /\ AgentInit
  /\ followed # "loop" => w = [nodes |-> <<n1, n2>>, links |-> <<>>]

PartsNext ==
  \/ followed = "loop" /\ SchedulerNext /\ UNCHANGED <<followed, keyVars, agentVars>>
  \/ followed = "keys" /\ Next /\ UNCHANGED <<followed, schedulerVars, agentVars>>
  \/ followed = "tasks" /\ AgentNext /\ UNCHANGED <<followed, schedulerVars, keyVars>>

PartsSpec == PartsInit /\ [][PartsNext]_<<followed, schedulerVars, keyVars, agentVars>>

\* Which connection a request comes on makes no difference.
ConnectionSymmetry == Permutations(Callers) \cup Permutations(Clients)
=============================================================================
