----------------------------- MODULE MCWebhooks -----------------------------
(* Small instances of Webhooks for TLC. *)
EXTENDS Webhooks, TLC

\* Requests and workers are interchangeable.
TaskSymmetry == Permutations(Tasks)
=============================================================================
