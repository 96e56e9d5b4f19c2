------------------------------ MODULE Dashboard ------------------------------
(***************************************************************************)
(* The figures of src/dashboard/dashboard.service.ts that are read from    *)
(* the payout rows, over the books: what a venue and an entertainer are    *)
(* told is pending and was paid out, while payouts move and bounce.        *)
(*                                                                         *)
(* Every payment tips the one entertainer, or nobody.  A figure is one     *)
(* query, so it is a function of the state, and of the payments made at    *)
(* the venue that looks (`here`); an overview asks several at once, each   *)
(* of which may be answered at its own moment.  Earnings has the figures   *)
(* that are read from the ledger.  Left out: the takings of the night, and *)
(* lists of rows.                                                          *)
(***************************************************************************)
EXTENDS Books, Functions

-----------------------------------------------------------------------------
(* The windows (time-window.ts): instants are milliseconds, a payment is tonight's or not. *)

Day == 86400000
LagosOffset == 3600000  \* LAGOS_UTC_OFFSET_MINUTES

\* The UTC instant of the last midnight in Lagos.
lagosDayStart(now) == ((now + LagosOffset) \div Day) * Day - LagosOffset

tonight(now) == lagosDayStart(now) .. now
thisWeek(now) == (lagosDayStart(now) - 6 * Day) .. now

-----------------------------------------------------------------------------
(* The queries *)

\* Mutant: payouts waiting for a retry are forgotten.
OpenWithoutRetrying == {"QUEUED", "PROCESSING"}

\* "Owed, but not yet successfully transferred"; FAILED, which waits for an operator, is
\* not among them.
OpenPayoutStatuses == {"QUEUED", "RETRYING", "PROCESSING"}

SumPayouts(S, k, statuses) ==
  SumFunction([p \in S |-> IF status[p][k] \in statuses THEN Amount(p, k) ELSE 0])

\* entertainerOverview.
PendingPayoutsKobo == SumPayouts(Payments, "ENTERTAINER_PAYABLE", OpenPayoutStatuses)
PaidOutKobo == SumPayouts(Payments, "ENTERTAINER_PAYABLE", {"SUCCESS"})

\* venueOverview.
OwnPendingPayoutsKobo(here) == SumPayouts(here, "VENUE_PAYABLE", OpenPayoutStatuses)
OwnPaidOutKobo(here) == SumPayouts(here, "VENUE_PAYABLE", {"SUCCESS"})
VenuePendingPayoutsKobo(here) ==
  SumPayouts(here, "ENTERTAINER_PAYABLE", OpenPayoutStatuses) + OwnPendingPayoutsKobo(here)

-----------------------------------------------------------------------------
(* Properties *)

Owed(S, k) == SumFunction([p \in S |-> -ledger[p][k]])
InReview(S, k) == SumPayouts(S, k, {"FAILED"})
Shares(S, k) ==
  SumFunction([p \in S |-> IF payment[p] = "settled" THEN Amount(p, k) ELSE 0])

\* What is shown as pending and as paid out is read from the payout rows, and is right by
\* the ledger: pending, with the payouts in review that no figure shows, is what is owed, and
\* what is paid out is the rest of the payee's shares.  For the venue, whichever payments
\* were made there.
PendingIsOwed ==
  /\ PendingPayoutsKobo + InReview(Payments, "ENTERTAINER_PAYABLE")
       = Owed(Payments, "ENTERTAINER_PAYABLE")
  /\ PaidOutKobo + Owed(Payments, "ENTERTAINER_PAYABLE") = Shares(Payments, "ENTERTAINER_PAYABLE")
  /\ \A here \in SUBSET Payments :
       /\ OwnPendingPayoutsKobo(here) + InReview(here, "VENUE_PAYABLE") = Owed(here, "VENUE_PAYABLE")
       /\ VenuePendingPayoutsKobo(here) + InReview(here, "VENUE_PAYABLE")
           + InReview(here, "ENTERTAINER_PAYABLE")
            = Owed(here, "VENUE_PAYABLE") + Owed(here, "ENTERTAINER_PAYABLE")
       /\ OwnPaidOutKobo(here) + Owed(here, "VENUE_PAYABLE") = Shares(here, "VENUE_PAYABLE")
=============================================================================
