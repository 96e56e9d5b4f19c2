------------------------------- MODULE Ledger -------------------------------
(***************************************************************************)
(* The posting logic of src/ledger/ledger.service.ts: which entries divide *)
(* a payment, and which record or take back a payout.                      *)
(*                                                                         *)
(* A posting has at most one line per account type, so it is a function    *)
(* from account types to kobo debited less kobo credited; a line of 0 kobo *)
(* is not written.  The owner of a payable account is the payment's        *)
(* entertainer or venue.  Amounts are exact: a 32-bit amount times 10000   *)
(* is far below the integers a double holds.                               *)
(***************************************************************************)
EXTENDS Integers

CONSTANT BasisPointsTotal  \* BASIS_POINTS_TOTAL

ASSUME BasisPointsAssumption == BasisPointsTotal \in Nat \ {0}

Payables == {"ENTERTAINER_PAYABLE", "VENUE_PAYABLE"}
AccountTypes == Payables \cup {"PROCESSOR_CLEARING", "PLATFORM_REVENUE"}

\* What decides how a payment is divided: the amount, whether a performer was tipped,
\* and the split rule.  assertValidSplit, and a positive integer amount.
ValidTerms(terms) ==
  /\ terms.gross \in Nat \ {0}
  /\ terms.hasEntertainer \in BOOLEAN
  /\ terms.entertainerBps \in Nat /\ terms.venueBps \in Nat /\ terms.platformBps \in Nat
  /\ terms.entertainerBps + terms.venueBps + terms.platformBps = BasisPointsTotal

\* Mutant: shares are rounded up.
roundUp(amount, bps) == (amount * bps + BasisPointsTotal - 1) \div BasisPointsTotal

applyBasisPoints(amount, bps) == (amount * bps) \div BasisPointsTotal

\* Who is paid, and with which part of the basis points: without an entertainer the venue
\* takes both.
BpsOf(terms, payee) ==
  IF payee = "ENTERTAINER_PAYABLE"
  THEN IF terms.hasEntertainer THEN terms.entertainerBps ELSE 0
  ELSE IF terms.hasEntertainer THEN terms.venueBps ELSE terms.venueBps + terms.entertainerBps

Share(terms, payee) == applyBasisPoints(terms.gross, BpsOf(terms, payee))

\* Mutant: the platform's share is floored like the others.
paymentEntriesAllFloored(terms) ==
  [a \in AccountTypes |->
     IF a \in Payables THEN -Share(terms, a)
     ELSE IF a = "PROCESSOR_CLEARING" THEN terms.gross
     ELSE -applyBasisPoints(terms.gross, terms.platformBps)]

\* The platform takes what is left.
computePaymentEntries(terms) ==
  [a \in AccountTypes |->
     IF a \in Payables THEN -Share(terms, a)
     ELSE IF a = "PROCESSOR_CLEARING" THEN terms.gross
     ELSE Share(terms, "ENTERTAINER_PAYABLE") + Share(terms, "VENUE_PAYABLE") - terms.gross]

computePayoutEntries(payee, amount) ==
  [a \in AccountTypes |->
     IF a = payee THEN amount ELSE IF a = "PROCESSOR_CLEARING" THEN -amount ELSE 0]

computePayoutReversalEntries(payee, amount) ==
  [a \in AccountTypes |-> -computePayoutEntries(payee, amount)[a]]

\* Debits less credits, which assertBalanced and the database's trigger want to be 0.
Imbalance(entries) ==
  entries["PROCESSOR_CLEARING"] + entries["ENTERTAINER_PAYABLE"]
    + entries["VENUE_PAYABLE"] + entries["PLATFORM_REVENUE"]
=============================================================================
