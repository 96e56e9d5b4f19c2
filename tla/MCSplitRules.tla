---------------------------- MODULE MCSplitRules ----------------------------
(* A small instance of SplitTerms, and with it of SplitRules, for TLC. *)
EXTENDS SplitTerms, TLC

\* With a fee of 1 or 2 in 4, a venue asks for shares that fit one of the fees.
MCOffers == {<<2, 1>>, <<1, 1>>}

\* Requests are interchangeable.
Symmetric == Permutations(Tasks)
=============================================================================
