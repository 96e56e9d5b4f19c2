------------------------------ MODULE MCPayout ------------------------------
(* Small instances of Payout, with its history, for TLC. *)
EXTENDS PayoutHistory, TLC

CONSTANTS p1, t1, t2

MCOneRow == p1 :> 0

\* Tasks are interchangeable.
TaskSymmetry == Permutations(Tasks)
=============================================================================
