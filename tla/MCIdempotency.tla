---------------------------- MODULE MCIdempotency ----------------------------
(***************************************************************************)
(* Requests that share keys: the same one again, another body, another run.  *)
(***************************************************************************)
EXTENDS Idempotency

Request(op, target, body) == [op |-> op, key |-> "k", target |-> target, body |-> body]

\* Of each operation a request, and one that differs in what it can differ in.
SharedKey ==
  {Request("createRun", "host", "b"), Request("createRun", "host", "other"),
   Request("registerWebhook", "host", "b"),
   Request("cancelRun", "r1", "b"), Request("cancelRun", "r2", "b"),
   Request("resolveInterruptByRun", "r1", "b"), Request("resolveInterruptByRun", "r2", "b")}

=============================================================================
