----------------------------- MODULE Settlement -----------------------------
(***************************************************************************)
(* A guest's payment from initializePayment to its settlement:             *)
(* src/payments/payments.service.ts and payment-settlement.service.ts,     *)
(* with the payment provider they ask.                                     *)
(*                                                                         *)
(* settle() runs concurrently for one payment: in webhook workers and in   *)
(* every status poll of the guest's page.  A task advances one database    *)
(* statement, transaction or provider call at a time.                      *)
(*                                                                         *)
(* Abstractions.  Amounts are left out except for whether the provider     *)
(* took what was asked for ("success") or something else ("odd").  The     *)
(* rule that splits a payment is fixed when it is created, so the payees   *)
(* with a positive share are a constant.  What initializePayment checks    *)
(* before it creates the row (session, QR code, venue, active split rule)  *)
(* decides whether the payment exists at all.  The webhook of a charge is  *)
(* here from the moment the queue has a job for it (how it gets there, or  *)
(* is handled with no queue, is in Webhooks); a failed job is kept for     *)
(* seven days, which is longer than a behaviour of this model.             *)
(***************************************************************************)
EXTENDS Integers, FiniteSets

CONSTANTS
  Payments,   \* payment transactions
  Tasks,      \* names of the tasks that may run at once on one payment
  Payees,     \* payable accounts: the entertainer's, the venue's
  Shares,     \* the payees of each payment with a positive share
  MaxTries,   \* attempts of a webhook's job
  MaxFaults   \* bound on the faults of one behaviour

ASSUME SharesAssumption == Shares \in [Payments -> SUBSET Payees]
ASSUME SettlementTriesAssumption == MaxTries \in Nat \ {0}
ASSUME SettlementFaultsAssumption == MaxFaults \in Nat
ASSUME SettlementWorkersAssumption == Tasks \cap {"none", "waiting", "failed"} = {}

VARIABLES
  payment,   \* payment_transactions.status
  postings,  \* ledger: payment postings
  payouts,   \* payees a payout row was created for
  queued,    \* payees whose payout was enqueued
  task,      \* the running tasks
  checkout,  \* payments whose guest was given the checkout URL
  charge,    \* at the provider: the charge
  job,       \* of each payment's charge.success webhook: "none", "waiting", "failed", or its worker
  tries,     \* attempts the job has used
  stalled,   \* payments whose webhook's job was given to another worker once already
  faults     \* faults so far

books == <<payment, postings, payouts>>
provider == <<checkout, charge>>
queue == <<job, tries, stalled>>
vars == <<books, queued, task, provider, queue, faults>>

Statuses == {"absent", "CREATED", "PENDING", "SUCCESS", "FAILED"}

\* SETTLEABLE also lists ABANDONED, which nothing ever writes.
Settleable == {"CREATED", "PENDING", "FAILED"}

\* "unknown": the provider has no such reference; "open": initialized, not paid
\* (Paystack calls that abandoned or pending); "odd": paid, but not as asked for.
Charges == {"unknown", "open", "failed", "success", "odd"}

Labels == {"idle", "settle", "verify", "fail", "pend", "claim", "enqueue",
           "checkout", "answer", "abort"}

\* left: the payouts this task created and has yet to enqueue.
TaskStates == [pc : Labels, left : SUBSET Payees]

IdleTask == [pc |-> "idle", left |-> {}]

Init ==
  /\ payment = [p \in Payments |-> "absent"]
  /\ postings = [p \in Payments |-> 0]
  /\ payouts = [p \in Payments |-> {}]
  /\ queued = [p \in Payments |-> {}]
  /\ task = [p \in Payments |-> [t \in Tasks |-> IdleTask]]
  /\ checkout = {}
  /\ charge = [p \in Payments |-> "unknown"]
  /\ job = [p \in Payments |-> "none"]
  /\ tries = [p \in Payments |-> 0]
  /\ stalled = {}
  /\ faults = 0

At(p, t, label) == task[p][t].pc = label
Goto(p, t, label) == task' = [task EXCEPT ![p][t] = [@ EXCEPT !.pc = label]]
Leave(p, t) == task' = [task EXCEPT ![p][t] = IdleTask]
Start(p, t, label) == task' = [task EXCEPT ![p][t] = [pc |-> label, left |-> {}]]

Fault == faults < MaxFaults /\ faults' = faults + 1

-----------------------------------------------------------------------------
(* The webhook's job *)

\* A worker that lost its job to another one has no say in it.  A task that is no
\* worker has no job.
EndJob(p, t) == job' = [job EXCEPT ![p] = IF @ = t THEN "none" ELSE @] /\ UNCHANGED <<tries, stalled>>

\* The handler threw: the job is tried again, until it has used its attempts.
RetryJob(p, t) ==
  IF job[p] # t THEN UNCHANGED queue
  ELSE /\ tries' = [tries EXCEPT ![p] = @ + 1]
       /\ job' = [job EXCEPT ![p] = IF tries[p] + 1 < MaxTries THEN "waiting" ELSE "failed"]
       /\ UNCHANGED stalled

\* A job nobody renews is given to another worker once, and has failed the second
\* time (maxStalledCount).
Stall(p) ==
  /\ job' = [job EXCEPT ![p] = IF p \in stalled THEN "failed" ELSE "waiting"]
  /\ stalled' = stalled \cup {p}
  /\ UNCHANGED tries

\* jobId dedupes: a job that is there, finished unsuccessfully or not, is not added again.
AddJob(p) ==
  IF job[p] # "none" THEN UNCHANGED queue
  ELSE /\ job' = [job EXCEPT ![p] = "waiting"]
       /\ tries' = [tries EXCEPT ![p] = 0]
       /\ stalled' = stalled \ {p}

\* settle is over for its caller, a webhook's handler or a poll.
Return(p, t) == Leave(p, t) /\ EndJob(p, t)

-----------------------------------------------------------------------------
(* initializePayment *)

CreatePayment(p, t) ==
  /\ At(p, t, "idle")
  /\ payment[p] = "absent"
  /\ payment' = [payment EXCEPT ![p] = "CREATED"]
  /\ Start(p, t, "checkout")
  /\ UNCHANGED <<postings, payouts, queued, provider, queue, faults>>

\* The provider opens the checkout, or never gets the request.
RequestCheckout(p, t) ==
  /\ At(p, t, "checkout")
  /\ \E c \in {"unknown", "open"} : charge' = [charge EXCEPT ![p] = c]
  /\ Goto(p, t, "answer")
  /\ UNCHANGED <<books, queued, checkout, queue, faults>>

\* Mutant: the error path runs although the guest was answered.
GiveCheckoutFallsThrough(p, t) ==
  /\ At(p, t, "answer")
  /\ charge[p] = "open"
  /\ checkout' = checkout \cup {p}
  /\ Goto(p, t, "abort")
  /\ UNCHANGED <<books, queued, charge, queue, faults>>

\* Its answer reaches the guest ...
GiveCheckout(p, t) ==
  /\ At(p, t, "answer")
  /\ charge[p] = "open"
  /\ checkout' = checkout \cup {p}
  /\ Leave(p, t)
  /\ UNCHANGED <<books, queued, charge, queue, faults>>

\* ... or the call throws, whether the checkout was opened or not.
LoseCheckout(p, t) ==
  /\ At(p, t, "answer")
  /\ Goto(p, t, "abort")
  /\ UNCHANGED <<books, queued, provider, queue, faults>>

\* Whatever the row says by now.
AbortPayment(p, t) ==
  /\ At(p, t, "abort")
  /\ payment' = [payment EXCEPT ![p] = "FAILED"]
  /\ Leave(p, t)
  /\ UNCHANGED <<postings, payouts, queued, provider, queue, faults>>

-----------------------------------------------------------------------------
(* settle *)

\* getPaymentStatus settles what is not decided yet.  Only the guest who was given
\* the checkout knows the reference.
StartPoll(p, t) ==
  /\ At(p, t, "idle")
  /\ p \in checkout
  /\ payment[p] \in {"CREATED", "PENDING"}
  /\ Start(p, t, "settle")
  /\ UNCHANGED <<books, queued, provider, queue, faults>>

StartWebhook(p, t) ==
  /\ At(p, t, "idle")
  /\ job[p] = "waiting"
  /\ job' = [job EXCEPT ![p] = t]
  /\ Start(p, t, "settle")
  /\ UNCHANGED <<books, queued, provider, tries, stalled, faults>>

\* Mutant: a failed payment is not settled any more.
ReadPaymentFailedIsFinal(p, t) ==
  /\ At(p, t, "settle")
  /\ IF payment[p] \in {"CREATED", "PENDING"} THEN Goto(p, t, "verify") /\ UNCHANGED queue
     ELSE Return(p, t)
  /\ UNCHANGED <<books, queued, provider, faults>>

ReadPayment(p, t) ==
  /\ At(p, t, "settle")
  /\ IF payment[p] \in Settleable THEN Goto(p, t, "verify") /\ UNCHANGED queue
     ELSE Return(p, t)
  /\ UNCHANGED <<books, queued, provider, faults>>

\* What settle does with the provider's answer c: an unknown reference and an odd
\* charge (SettlementIntegrityError) throw.  A poll swallows that; the webhook of an odd
\* charge is parked, and its job done (a charge with a webhook is not unknown).
AfterVerify(c) ==
  CASE c = "success" -> "claim"
    [] c = "failed" -> "fail"
    [] c = "open" -> "pend"
    [] OTHER -> "idle"

Verify(p, t) ==
  /\ At(p, t, "verify")
  /\ LET next == AfterVerify(charge[p])
     IN  IF next = "idle" THEN Return(p, t) ELSE Goto(p, t, next) /\ UNCHANGED queue
  /\ UNCHANGED <<books, queued, provider, faults>>

\* transition: a conditional update.
TransitionFrom(p, from, to) ==
  payment' = [payment EXCEPT ![p] = IF @ \in from THEN to ELSE @]

Fail(p, t) ==
  /\ At(p, t, "fail")
  /\ TransitionFrom(p, {"CREATED", "PENDING"}, "FAILED")
  /\ Return(p, t)
  /\ UNCHANGED <<postings, payouts, queued, provider, faults>>

Pend(p, t) ==
  /\ At(p, t, "pend")
  /\ TransitionFrom(p, {"CREATED"}, "PENDING")
  /\ Return(p, t)
  /\ UNCHANGED <<postings, payouts, queued, provider, faults>>

\* Mutant: the claim takes what settle read for granted.
CanSettleStale(p) == TRUE

CanSettle(p) == payment[p] \in Settleable

\* One transaction: the claim, the posting, and a payout for every payable entry.
Settle(p, t) ==
  /\ At(p, t, "claim")
  /\ CanSettle(p)
  /\ payment' = [payment EXCEPT ![p] = "SUCCESS"]
  /\ postings' = [postings EXCEPT ![p] = @ + 1]
  /\ payouts' = [payouts EXCEPT ![p] = @ \cup Shares[p]]
  /\ task' = [task EXCEPT ![p][t] = [@ EXCEPT !.pc = "enqueue", !.left = Shares[p]]]
  /\ UNCHANGED <<queued, provider, queue, faults>>

LoseSettle(p, t) ==
  /\ At(p, t, "claim")
  /\ ~CanSettle(p)
  /\ Return(p, t)
  /\ UNCHANGED <<books, queued, provider, faults>>

\* enqueuePayouts: best effort, a failed enqueue is left to the sweep.
EnqueuePayout(p, t) ==
  /\ At(p, t, "enqueue")
  /\ \E payee \in task[p][t].left :
       /\ task' = [task EXCEPT ![p][t] = [@ EXCEPT !.left = task[p][t].left \ {payee}]]
       /\ \E added \in {{}, {payee}} : queued' = [queued EXCEPT ![p] = @ \cup added]
  /\ UNCHANGED <<books, provider, queue, faults>>

FinishSettle(p, t) ==
  /\ At(p, t, "enqueue")
  /\ task[p][t].left = {}
  /\ Return(p, t)
  /\ UNCHANGED <<books, queued, provider, faults>>

-----------------------------------------------------------------------------
(* Environment: the guest, the provider, crashes *)

\* The guest pays on the provider's page, after as many declined cards as it
\* takes; a charge paid as asked for, or otherwise, is announced by a webhook.
Pay(p) ==
  /\ p \in checkout
  /\ charge[p] \in {"open", "failed"}
  /\ \E c \in {"success", "odd"} : charge' = [charge EXCEPT ![p] = c]
  /\ AddJob(p)
  /\ UNCHANGED <<books, queued, task, checkout, faults>>

Decline(p) ==
  /\ p \in checkout
  /\ charge[p] = "open"
  /\ charge' = [charge EXCEPT ![p] = "failed"]
  /\ UNCHANGED <<books, queued, task, checkout, queue, faults>>

\* A task dies between two steps; a worker's job stalls.
Crash(p, t) ==
  /\ ~At(p, t, "idle")
  /\ Leave(p, t)
  /\ IF job[p] = t THEN Stall(p) ELSE UNCHANGED queue
  /\ Fault
  /\ UNCHANGED <<books, queued, provider>>

\* A statement or a call to the provider throws: a webhook is retried, a guest sees an error.
Throw(p, t) ==
  /\ ~At(p, t, "idle")
  /\ Leave(p, t)
  /\ RetryJob(p, t)
  /\ Fault
  /\ UNCHANGED <<books, queued, provider>>

\* A worker's lock expires while it runs.
StallJob(p) ==
  /\ job[p] \in Tasks
  /\ Stall(p)
  /\ Fault
  /\ UNCHANGED <<books, queued, task, provider>>

\* The webhook of a paid charge is delivered once more.
RepeatWebhook(p) ==
  /\ charge[p] \in {"success", "odd"}
  /\ AddJob(p)
  /\ Fault
  /\ UNCHANGED <<books, queued, task, provider>>

-----------------------------------------------------------------------------
Step(p, t) ==
  \/ RequestCheckout(p, t) \/ GiveCheckout(p, t) \/ LoseCheckout(p, t) \/ AbortPayment(p, t)
  \/ ReadPayment(p, t) \/ Verify(p, t) \/ Fail(p, t) \/ Pend(p, t)
  \/ Settle(p, t) \/ LoseSettle(p, t) \/ EnqueuePayout(p, t) \/ FinishSettle(p, t)

Next ==
  \E p \in Payments :
    \/ Pay(p) \/ Decline(p) \/ StallJob(p) \/ RepeatWebhook(p)
    \/ \E t \in Tasks :
         \/ CreatePayment(p, t) \/ StartPoll(p, t) \/ StartWebhook(p, t)
         \/ Step(p, t) \/ Crash(p, t) \/ Throw(p, t)

\* Workers take waiting webhooks and every task goes on.  Nothing makes the guest
\* poll, or pay.
Fairness ==
  \A p \in Payments :
    /\ WF_vars(\E t \in Tasks : StartWebhook(p, t))
    /\ \A t \in Tasks : WF_vars(Step(p, t))

Spec == Init /\ [][Next]_vars

FairSpec == Spec /\ Fairness

-----------------------------------------------------------------------------
(* Properties *)

\* Every variable has its type.
TypeOK ==
  /\ payment \in [Payments -> Statuses]
  /\ postings \in [Payments -> 0 .. 1]
  /\ payouts \in [Payments -> SUBSET Payees]
  /\ queued \in [Payments -> SUBSET Payees]
  /\ task \in [Payments -> [Tasks -> TaskStates]]
  /\ checkout \subseteq Payments
  /\ charge \in [Payments -> Charges]
  /\ job \in [Payments -> {"none", "waiting", "failed"} \cup Tasks]
  /\ tries \in [Payments -> 0 .. MaxTries]
  /\ stalled \subseteq Payments
  /\ faults \in 0 .. MaxFaults

\* "Concurrent or duplicate settlement attempts can never double-post": a payment is
\* posted once if it is SUCCESS and not at all otherwise, and its payouts exist
\* exactly then and before anything is enqueued, whichever webhooks and polls settle it.
PostedExactlyOnce ==
  \A p \in Payments :
    /\ IF payment[p] = "SUCCESS" THEN postings[p] = 1 /\ payouts[p] = Shares[p]
       ELSE postings[p] = 0 /\ payouts[p] = {}
    /\ queued[p] \subseteq payouts[p]

\* "Always re-verifies with the provider": SUCCESS means that the provider took the
\* amount asked for, not that a webhook or a redirect said so.
OnlyPaidIsSettled ==
  \A p \in Payments : payment[p] = "SUCCESS" => charge[p] = "success"

\* "The guest never received a checkout URL, so no money can have moved": the
\* unconditional FAILED of initializePayment meets no payment that was charged, and
\* in particular never takes a settled one back.
AbortedBeforeCheckout ==
  \A p \in Payments : \A t \in Tasks : At(p, t, "abort") =>
    /\ p \notin checkout
    /\ charge[p] \in {"unknown", "open"}
    /\ payment[p] # "SUCCESS"

\* A settled payment stays settled: no late refusal, poll or abort takes it back.
SuccessIsFinal == [][\A p \in Payments : payment[p] = "SUCCESS" => payment'[p] = "SUCCESS"]_vars

\* Settlement keeps the promise of Receipt.
Bookkeeping == INSTANCE Receipt WITH
  taken <- {p \in Payments : charge[p] = "success"},
  booked <- postings,
  owed <- payouts,
  parked <- {p \in Payments : charge[p] = "success" /\ job[p] = "failed"}

ImplementsReceipt == Bookkeeping!Safety

\* ... with its liveness: money taken as asked for is eventually posted, even if the
\* payment was FAILED when the guest paid, unless the job of its webhook uses up its
\* attempts or stalls twice, and is left as a failed job for a human.
ImplementsFairReceipt == Bookkeeping!Spec
=============================================================================
