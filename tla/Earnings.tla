------------------------------ MODULE Earnings -------------------------------
(***************************************************************************)
(* The figures of src/dashboard/dashboard.service.ts that are read from    *)
(* the ledger: what an entertainer is told to have earned, and what each   *)
(* row of a venue's list of entertainers says.                             *)
(*                                                                         *)
(* Earnings are a sum of CREDIT entries, so the entries of an account are  *)
(* told apart here by direction: credits counts one side of what the       *)
(* account's balance in Books nets.  The payments tip the one entertainer, *)
(* or nobody, at the venue that looks or at another where the entertainer  *)
(* performs.  Left out: the same sums over each window.                    *)
(***************************************************************************)
EXTENDS Dashboard

CONSTANT BounceBound  \* bound on the reversals of one payout

VARIABLES
  here,    \* the payments made at the venue that looks
  credits, \* per payment and payee, kobo of the CREDIT entries of its account
  bounces  \* history: how often that payout was taken back

earningsVars == <<vars, here, credits, bounces>>

\* A posting has one line per account; what lowers the balance is a CREDIT.
Credited(p, k) == IF ledger'[p][k] < ledger[p][k] THEN ledger[p][k] - ledger'[p][k] ELSE 0

TakenBack(p, k) == status[p][k] = "SUCCESS" /\ status'[p][k] = "RETRYING"

EarningsInit ==
  /\ Init
  /\ here \in SUBSET Payments
  /\ credits = [p \in Payments |-> [k \in Payables |-> 0]]
  /\ bounces = [p \in Payments |-> [k \in Payables |-> 0]]

\* A step of the books.
EarningsNext ==
  /\ Next
  /\ \A p \in Payments : \A k \in Payables : TakenBack(p, k) => bounces[p][k] < BounceBound
  /\ credits' = [p \in Payments |-> [k \in Payables |-> credits[p][k] + Credited(p, k)]]
  /\ bounces' = [p \in Payments |-> [k \in Payables |->
       IF TakenBack(p, k) THEN bounces[p][k] + 1 ELSE bounces[p][k]]]
  /\ UNCHANGED here

EarningsSpec == EarningsInit /\ [][EarningsNext]_earningsVars

-----------------------------------------------------------------------------
(* The queries *)

SumCredits(S) == SumFunction([p \in S |-> credits[p]["ENTERTAINER_PAYABLE"]])

\* entertainerOverview: every credit of the account.
TotalKobo == SumCredits(Payments)

\* venueEntertainerEarnings: the credits of payments at this venue ...
EarningsHere == SumCredits(here)

\* ... in a row that the query's WHERE keeps if the account has no CREDIT entry at all, or
\* one of a payment here.  Entries of other venues only leave no row.
RowShown ==
  LET entries == {p \in Payments : credits[p]["ENTERTAINER_PAYABLE"] > 0}
  IN  entries = {} \/ entries \cap here # {}

-----------------------------------------------------------------------------
(* Properties *)

\* "An entertainer's earnings are their own share, read from the ledger": what the overview
\* and the venue's list give as earned is the entertainer's part of the tips.  The code does
\* not keep this: a payout the bank sends back is put back as another CREDIT of the account,
\* and counts as income once more.
EarningsAreTheShare ==
  /\ TotalKobo = Shares(Payments, "ENTERTAINER_PAYABLE")
  /\ RowShown => EarningsHere = Shares(here, "ENTERTAINER_PAYABLE")

\* What counts as earned instead: every account is credited its share once by the
\* settlement, and once more by each payout that is taken back.
CreditsExplained ==
  \A p \in Payments : \A k \in Payables :
    credits[p][k] =
      IF payment[p] = "settled" THEN Amount(p, k) + bounces[p][k] * Amount(p, k) ELSE 0
=============================================================================
