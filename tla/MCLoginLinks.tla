---------------------------- MODULE MCLoginLinks ----------------------------
(* A small instance of LoginLinks for TLC. *)
EXTENDS LoginLinks, TLC

\* Requests, links and entertainers are interchangeable.
Symmetric == Permutations(Tasks) \cup Permutations(Links) \cup Permutations(Entertainers)
=============================================================================
