-------------------------- MODULE MCReconciliation --------------------------
(* A small instance of Reconciliation and Dashboard, and of Books below them, for TLC. *)
EXTENDS Reconciliation, Dashboard

\* Every division of the basis points, of amounts around the rounding boundaries.
Divisions(amounts, performers) ==
  {t \in [gross : amounts, hasEntertainer : performers, entertainerBps : 0 .. BasisPointsTotal,
          venueBps : 0 .. BasisPointsTotal, platformBps : 0 .. BasisPointsTotal] : ValidTerms(t)}

AllTerms == Divisions({1, 2, 6, 7}, BOOLEAN)
=============================================================================
