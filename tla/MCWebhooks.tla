----------------------------- MODULE MCWebhooks -----------------------------
(***************************************************************************)
(* Two subscriptions to the one event type of a run and its fork: s1 is     *)
(* registered before the run starts, s2 on the way.                         *)
(***************************************************************************)
EXTENDS Webhooks

\* Both subscriptions name every type.
EveryType == [s \in Subs |-> Types]
=============================================================================
