-------------------------------- MODULE Books --------------------------------
(***************************************************************************)
(* One payment's money from the guest's card to its payees' banks, in kobo *)
(* on both sides: in the ledger, as settlement (payment-settlement.service)*)
(* and payouts (payouts.service) post it, and at the payment provider.     *)
(*                                                                         *)
(* Settlement and Payout model how concurrent tasks reach these database   *)
(* transactions and provider calls; here each is one action, whoever makes *)
(* it.  From Payout comes that an attempt follows only a dead transfer,    *)
(* which it does unless the transfer was taken for dead too early          *)
(* (PayoutHistory): the books of such a payout are not these.  Attempts,   *)
(* references, queues and tasks are left out: what they restrict may       *)
(* happen at any time here.                                                *)
(*                                                                         *)
(* A ledger entry carries the payment's id, so ledger[p] holds the totals  *)
(* of the entries of payment p, payout entries included.                   *)
(***************************************************************************)
EXTENDS Ledger, FiniteSets

CONSTANTS
  Payments,  \* transactions rows
  Terms      \* amounts and split rules a payment may have

ASSUME PaymentsAssumption == IsFiniteSet(Payments)

ASSUME TermsAssumption == \A t \in Terms : ValidTerms(t)

VARIABLES
  terms,     \* per payment: gross_amount_kobo, entertainer_id, and its split rule's shares
  payment,   \* "pending", "charged" at the provider, "settled" in the ledger
  ledger,    \* per payment and account type, debits less credits
  status,    \* per payment and payee, payouts.status; "none" where there is no row
  transfer,  \* the latest transfer of that payout, at the provider
  held       \* per payment, the kobo of it the provider holds

vars == <<terms, payment, ledger, status, transfer, held>>

Open == {"QUEUED", "RETRYING", "PROCESSING"}
Unpaid == Open \cup {"FAILED"}

\* Money has left for the payee; it never did, or came back.
Gone == {"out", "delivered"}
Dead == {"none", "failed", "bounced"}

\* payouts.amount_kobo, written once.
Amount(p, k) == Share(terms[p], k)

Init ==
  /\ terms \in [Payments -> Terms]
  /\ payment = [p \in Payments |-> "pending"]
  /\ ledger = [p \in Payments |-> [a \in AccountTypes |-> 0]]
  /\ status = [p \in Payments |-> [k \in Payables |-> "none"]]
  /\ transfer = [p \in Payments |-> [k \in Payables |-> "none"]]
  /\ held = [p \in Payments |-> 0]

Post(p, entries) ==
  ledger' = [ledger EXCEPT ![p] = [a \in AccountTypes |-> ledger[p][a] + entries[a]]]

SetStatus(p, k, s) == status' = [status EXCEPT ![p][k] = s]
SetTransfer(p, k, s) == transfer' = [transfer EXCEPT ![p][k] = s]

-----------------------------------------------------------------------------
(* Settlement *)

Charge(p) ==
  /\ payment[p] = "pending"
  /\ payment' = [payment EXCEPT ![p] = "charged"]
  /\ held' = [held EXCEPT ![p] = terms[p].gross]
  /\ UNCHANGED <<terms, ledger, status, transfer>>

\* Claim, posting and payout rows in one transaction; no row for a share of 0.
Settle(p) ==
  /\ payment[p] = "charged"
  /\ payment' = [payment EXCEPT ![p] = "settled"]
  /\ Post(p, computePaymentEntries(terms[p]))
  /\ status' = [status EXCEPT ![p] =
       [k \in Payables |-> IF Amount(p, k) > 0 THEN "QUEUED" ELSE "none"]]
  /\ UNCHANGED <<terms, transfer, held>>

-----------------------------------------------------------------------------
(* Payouts *)

\* The last attempt moved no money: claim a new one and ask for its transfer.
Claim(p, k) ==
  /\ status[p][k] \in Open
  /\ transfer[p][k] \in Dead
  /\ SetStatus(p, k, "PROCESSING")
  /\ SetTransfer(p, k, "requested")
  /\ UNCHANGED <<terms, payment, ledger, held>>

\* The job that gives the row back may have read it before another moved it on, and looks
\* at its status only.
Hold(p, k) ==
  /\ status[p][k] \in Open
  /\ SetStatus(p, k, "QUEUED")
  /\ UNCHANGED <<terms, payment, ledger, transfer, held>>

\* A transfer was reported delivered, perhaps before it bounced.
MarkSucceeded(p, k) ==
  /\ status[p][k] \in Unpaid
  /\ transfer[p][k] \in {"delivered", "bounced"}
  /\ SetStatus(p, k, "SUCCESS")
  /\ Post(p, computePayoutEntries(k, Amount(p, k)))
  /\ UNCHANGED <<terms, payment, transfer, held>>

\* Mutant: the obligation is not put back.
ReversedUnposted(p, k) ==
  /\ status[p][k] = "SUCCESS"
  /\ transfer[p][k] = "bounced"
  /\ SetStatus(p, k, "RETRYING")
  /\ UNCHANGED <<terms, payment, ledger, transfer, held>>

\* handleTransferEvent: reversed after SUCCESS.
Reversed(p, k) ==
  /\ status[p][k] = "SUCCESS"
  /\ transfer[p][k] = "bounced"
  /\ SetStatus(p, k, "RETRYING")
  /\ Post(p, computePayoutReversalEntries(k, Amount(p, k)))
  /\ UNCHANGED <<terms, payment, transfer, held>>

\* Mutant: the obligation is put back although it never left.
NotPaidPosts(p, k) ==
  /\ status[p][k] \in Unpaid
  /\ transfer[p][k] \in {"failed", "bounced"}
  /\ SetStatus(p, k, "RETRYING")
  /\ Post(p, computePayoutReversalEntries(k, Amount(p, k)))
  /\ UNCHANGED <<terms, payment, transfer, held>>

\* handleTransferEvent: failed or reversed before SUCCESS; nothing was posted.
NotPaid(p, k) ==
  /\ status[p][k] \in Unpaid
  /\ transfer[p][k] \in {"failed", "bounced"}
  /\ SetStatus(p, k, "RETRYING")
  /\ UNCHANGED <<terms, payment, ledger, transfer, held>>

MarkForReview(p, k) ==
  /\ status[p][k] \in Unpaid
  /\ SetStatus(p, k, "FAILED")
  /\ UNCHANGED <<terms, payment, ledger, transfer, held>>

RetryPayout(p, k) ==
  /\ status[p][k] = "FAILED"
  /\ SetStatus(p, k, "RETRYING")
  /\ UNCHANGED <<terms, payment, ledger, transfer, held>>

-----------------------------------------------------------------------------
(* The provider *)

\* The request arrives, and the provider debits its balance, perhaps delivering at once,
\* or it is lost.
Land(p, k) ==
  /\ transfer[p][k] = "requested"
  /\ \/ /\ \E s \in Gone : SetTransfer(p, k, s)
        /\ held' = [held EXCEPT ![p] = held[p] - Amount(p, k)]
     \/ SetTransfer(p, k, "none") /\ UNCHANGED held
  /\ UNCHANGED <<terms, payment, ledger, status>>

Deliver(p, k) ==
  /\ transfer[p][k] = "out"
  /\ SetTransfer(p, k, "delivered")
  /\ UNCHANGED <<terms, payment, ledger, status, held>>

\* The transfer fails, or the bank sends delivered money back.
Return(p, k) ==
  /\ transfer[p][k] \in Gone
  /\ SetTransfer(p, k, IF transfer[p][k] = "out" THEN "failed" ELSE "bounced")
  /\ held' = [held EXCEPT ![p] = held[p] + Amount(p, k)]
  /\ UNCHANGED <<terms, payment, ledger, status>>

-----------------------------------------------------------------------------
Next ==
  \E p \in Payments :
    \/ Charge(p) \/ Settle(p)
    \/ \E k \in Payables :
         \/ Claim(p, k) \/ Hold(p, k) \/ MarkSucceeded(p, k) \/ Reversed(p, k)
         \/ NotPaid(p, k) \/ MarkForReview(p, k) \/ RetryPayout(p, k)
         \/ Land(p, k) \/ Deliver(p, k) \/ Return(p, k)

Spec == Init /\ [][Next]_vars

-----------------------------------------------------------------------------
(* Properties *)

\* Every variable has its type, and a payable account never goes into debit.
TypeOK ==
  /\ terms \in [Payments -> Terms]
  /\ payment \in [Payments -> {"pending", "charged", "settled"}]
  /\ ledger \in [Payments -> [AccountTypes -> Int]]
  /\ status \in [Payments -> [Payables -> {"none", "SUCCESS"} \cup Unpaid]]
  /\ transfer \in [Payments -> [Payables -> {"requested"} \cup Gone \cup Dead]]
  /\ held \in [Payments -> Int]
  /\ \A p \in Payments : \A k \in Payables : ledger[p][k] <= 0

\* Debits equal credits for every payment after any postings: neither assertBalanced
\* nor the database's deferred trigger ever rejects one.
BooksBalance == \A p \in Payments : Imbalance(ledger[p]) = 0

\* "Liability never lost": a settled payment owes each payee exactly its share until the
\* payout is SUCCESS, and owes it again after a reversal.
NothingOwedIsLost ==
  \A p \in Payments : \A k \in Payables :
    payment[p] = "settled" =>
      -ledger[p][k] = IF status[p][k] = "SUCCESS" THEN 0 ELSE Share(terms[p], k)

\* Money of a payout that has left and is not recorded, or is recorded and came back.
Unrecorded(p, k) ==
  IF transfer[p][k] \in Gone /\ status[p][k] # "SUCCESS" THEN -Amount(p, k)
  ELSE IF transfer[p][k] \notin Gone /\ status[p][k] = "SUCCESS" THEN Amount(p, k)
  ELSE 0

\* What the provider holds of a settled payment is what its clearing account says but for
\* the transfers not recorded yet: no kobo is entered twice, or never.
BooksExplainTheBalance ==
  \A p \in Payments : payment[p] = "settled" =>
    held[p] = ledger[p]["PROCESSOR_CLEARING"]
                + Unrecorded(p, "ENTERTAINER_PAYABLE") + Unrecorded(p, "VENUE_PAYABLE")

\* What is still kept for a payee: its share, unless a transfer of it has left.
Kept(p, k) == IF transfer[p][k] \in Gone THEN 0 ELSE Amount(p, k)

\* No payout is made of another payment's money: of a settled payment the provider always
\* holds the platform's part and every share that has not left, however often transfers
\* fail, bounce and are sent again.
ObligationsAreCovered ==
  \A p \in Payments : payment[p] = "settled" =>
    held[p] = Kept(p, "ENTERTAINER_PAYABLE") + Kept(p, "VENUE_PAYABLE")
                - ledger[p]["PLATFORM_REVENUE"]

\* The platform's part of a payment stays at the provider: payouts never take more of a
\* payment than the shares of its payees.
PlatformPartStays ==
  \A p \in Payments : /\ 0 <= -ledger[p]["PLATFORM_REVENUE"]
                      /\ -ledger[p]["PLATFORM_REVENUE"] <= held[p]

\* How settlement leaves the books of a payment, and payouts find them.
JustSettled(p) ==
  /\ payment[p] = "settled"
  /\ ledger[p] = computePaymentEntries(terms[p])
  /\ status[p] = [k \in Payables |-> IF Amount(p, k) > 0 THEN "QUEUED" ELSE "none"]
  /\ transfer[p] = [k \in Payables |-> "none"]
  /\ held[p] = terms[p].gross

\* An amount is a part of the gross, rounded down by less than a kobo.
RoundsDown(t, bps, amount) ==
  /\ amount * BasisPointsTotal <= t.gross * bps
  /\ t.gross * bps < amount * BasisPointsTotal + BasisPointsTotal

\* Nobody is given more than the split says, nor a whole kobo less; "the platform takes
\* the remainder (at most 2 kobo)".
SharesAreFair ==
  \A p \in Payments : payment[p] = "settled" =>
    LET t == terms[p]
        platform == applyBasisPoints(t.gross, t.platformBps)
    IN /\ t.hasEntertainer =>
            /\ RoundsDown(t, t.entertainerBps, Amount(p, "ENTERTAINER_PAYABLE"))
            /\ RoundsDown(t, t.venueBps, Amount(p, "VENUE_PAYABLE"))
       /\ ~t.hasEntertainer =>
            /\ Amount(p, "ENTERTAINER_PAYABLE") = 0
            /\ RoundsDown(t, t.entertainerBps + t.venueBps, Amount(p, "VENUE_PAYABLE"))
       /\ -ledger[p]["PLATFORM_REVENUE"] \in platform .. platform + 2

=============================================================================
