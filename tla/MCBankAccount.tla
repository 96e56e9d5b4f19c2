--------------------------- MODULE MCBankAccount ---------------------------
(* A small instance of BankAccount for TLC. *)
EXTENDS BankAccount, TLC

CONSTANTS a1, a2, ada, bola

\* Two accounts of two people.
MCHolder == a1 :> ada @@ a2 :> bola

\* Requests are interchangeable.
TaskSymmetry == Permutations(Tasks)
=============================================================================
