---------------------------- MODULE MCGuestAccess ----------------------------
(* A small instance of GuestAccess for TLC. *)
EXTENDS GuestAccess, TLC

\* Requests and rows are interchangeable.
Symmetric == Permutations(Tasks) \cup Permutations(Codes)
=============================================================================
