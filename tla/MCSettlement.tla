---------------------------- MODULE MCSettlement ----------------------------
(* Small instances of Settlement for TLC. *)
EXTENDS Settlement, TLC

CONSTANTS p1, t1, t2, t3, entertainer, venue

\* A tip to an entertainer, shared with the venue.
MCShares == p1 :> {entertainer, venue}

\* Tasks are interchangeable.
TaskSymmetry == Permutations(Tasks)
=============================================================================
