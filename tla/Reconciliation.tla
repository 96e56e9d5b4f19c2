--------------------------- MODULE Reconciliation ---------------------------
(***************************************************************************)
(* src/reconciliation/reconciliation.service.ts over the books: the hourly *)
(* job reads the ledger, the payouts in flight and the provider's balance, *)
(* one query after another while money moves, and reports the difference.  *)
(*                                                                         *)
(* Left out: the payable and revenue balances, which it reports but does   *)
(* not compare.  All money at the provider is that of the payments:        *)
(* no fees, float or delayed settlement, the sources of drift the code     *)
(* names.                                                                  *)
(***************************************************************************)
EXTENDS Books, Functions

VARIABLE report  \* the job: what it has read so far

reportVars == <<vars, report>>

\* Mutant: payouts waiting for a retry are taken for in flight.
InFlightRetrying(s) == s \in {"PROCESSING", "RETRYING"}

InFlight(s) == s = "PROCESSING"

\* The kobo in flight to a payee.
OnItsWay(p, k) == IF InFlight(status[p][k]) THEN Amount(p, k) ELSE 0

InFlightKobo ==
  SumFunction([p \in Payments |->
    OnItsWay(p, "ENTERTAINER_PAYABLE") + OnItsWay(p, "VENUE_PAYABLE")])

\* getTrialBalance is one query.
TrialBalanced == SumFunction([p \in Payments |-> Imbalance(ledger[p])]) = 0

Clearing == SumFunction([p \in Payments |-> ledger[p]["PROCESSOR_CLEARING"]])
ProviderBalance == SumFunction(held)

NoReport == [pc |-> "idle", trialBalanced |-> TRUE, clearing |-> 0, inFlight |-> 0, drift |-> 0]

ReadTrialBalance ==
  /\ report.pc = "idle"
  /\ report' = [NoReport EXCEPT !.pc = "clearing", !.trialBalanced = TrialBalanced]

ReadClearing ==
  /\ report.pc = "clearing"
  /\ report' = [report EXCEPT !.pc = "inFlight", !.clearing = Clearing]

ReadInFlight ==
  /\ report.pc = "inFlight"
  /\ report' = [report EXCEPT !.pc = "balance", !.inFlight = InFlightKobo]

\* getBalance, and the comparison.
ReadProviderBalance ==
  /\ report.pc = "balance"
  /\ report' = [report EXCEPT !.pc = "done",
       !.drift = ProviderBalance - (report.clearing - report.inFlight)]

EndReport ==
  /\ report.pc = "done"
  /\ report' = NoReport

\* A query or the call to the provider throws.
ReadFails ==
  /\ report.pc \notin {"idle", "done"}
  /\ report' = NoReport

Run == ReadTrialBalance \/ ReadClearing \/ ReadInFlight \/ ReadProviderBalance
         \/ EndReport \/ ReadFails

InitReport == Init /\ report = NoReport

NextReport ==
  \/ Next /\ UNCHANGED report
  \/ Run /\ UNCHANGED vars

SpecReport == InitReport /\ [][NextReport]_reportVars

-----------------------------------------------------------------------------
(* Properties *)

\* "Transfers the processor has debited but not yet confirmed to us".
Debited(p, k) == transfer[p][k] \in Gone /\ status[p][k] # "SUCCESS"

\* No settlement is due, the payouts in flight are the transfers that have left, and what
\* is recorded as delivered is.
Settled ==
  \A p \in Payments :
    /\ payment[p] # "charged"
    /\ \A k \in Payables :
         /\ (status[p][k] = "PROCESSING") <=> Debited(p, k)
         /\ status[p][k] = "SUCCESS" => transfer[p][k] = "delivered"

\* What sets the provider's balance of a payment apart from the ledger: a charge not settled
\* yet, transfers that left and are not recorded or are recorded and came back; and what the
\* report counts as in flight, whether it has left or not.
Between(p) ==
  (IF payment[p] = "charged" THEN terms[p].gross ELSE 0)
    + Unrecorded(p, "ENTERTAINER_PAYABLE") + Unrecorded(p, "VENUE_PAYABLE")
    + OnItsWay(p, "ENTERTAINER_PAYABLE") + OnItsWay(p, "VENUE_PAYABLE")

InBetween == SumFunction([p \in Payments |-> Between(p)])

\* Whatever the job reports is explained: the drift is what is in between when the balance
\* is read, and what moved since the ledger and the payouts were.
DriftIsExplained ==
  [][ReadProviderBalance =>
       report'.drift = InBetween + (Clearing - report.clearing)
                                 - (InFlightKobo - report.inFlight)]_reportVars

\* A report whose reads still hold, of books with nothing in between, shows no drift:
\* each kobo of the balance is explained by the ledger or by a payout in flight.
QuietReportIsExact ==
  [][ReadProviderBalance /\ Settled /\ report.clearing = Clearing /\ report.inFlight = InFlightKobo
       => report'.drift = 0]_reportVars
=============================================================================
