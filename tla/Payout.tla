------------------------------- MODULE Payout -------------------------------
(***************************************************************************)
(* The payout engine: src/payouts/payouts.service.ts, the BullMQ queue it   *)
(* is driven by, and the transfer API of the payment provider.             *)
(*                                                                         *)
(* A payout row is an obligation to move one ledger credit to its owner's  *)
(* bank.  It is worked on by tasks that run concurrently: queue jobs       *)
(* (processPayout) and transfer webhooks (handleTransferEvent).  A task    *)
(* advances one database statement or one provider call at a time; between *)
(* two steps it holds what it read, which may be stale by then.            *)
(*                                                                         *)
(* Abstractions.  The transfer reference is po_<id>_<attempts>, written in *)
(* the same statement as attempts and nowhere else, so a reference is its  *)
(* attempt number and 0 stands for a null reference.  Amounts and bank     *)
(* details are constant per payout and left out; the ledger keeps, for     *)
(* each payout, how many payout and reversal transactions were posted.     *)
(* Time is left out: a delay, a backoff or the 15-minute staleness test    *)
(* may elapse at any moment.                                               *)
(***************************************************************************)
EXTENDS Integers, FiniteSets

CONSTANTS
  Payouts,               \* payout rows
  Tasks,                 \* names of the tasks that may run at once on one payout
  MaxAutomaticAttempts,  \* MAX_AUTOMATIC_TRANSFER_ATTEMPTS
  SweepBatch,            \* the sweep's `take`
  RowOrder,              \* the order the database returns rows in when a query names none
  LateLanding,           \* may a request still land after somebody asked about its reference?
  StalledJobs,           \* may the queue hand a job to a second worker while the first runs on?
  OperatorRetries,       \* does somebody call retryPayout?  (no controller does)
  AttemptBound,          \* bound on the attempts of one payout
  MaxFaults              \* bound on the faults of one behaviour

ASSUME AttemptBoundAssumption == AttemptBound \in Nat \ {0}
ASSUME FaultsAssumption == MaxFaults \in Nat
ASSUME MaxAutomaticAssumption == MaxAutomaticAttempts \in Nat \ {0}
ASSUME TasksAssumption == "none" \notin Tasks /\ "waiting" \notin Tasks
ASSUME SweepAssumption == SweepBatch \in Nat \ {0} /\ RowOrder \in [Payouts -> Nat]
ASSUME EnvironmentAssumption ==
  LateLanding \in BOOLEAN /\ StalledJobs \in BOOLEAN /\ OperatorRetries \in BOOLEAN

Attempts == 1 .. AttemptBound

VARIABLES
  status, attempts, reason,  \* the row: payouts.status, attempts (and reference), failureReason
  debits, credits,           \* ledger: payout postings and reversal postings of the payout
  job,                       \* its BullMQ job: "none", "waiting", or the task running it
  task,                      \* the running tasks and what each has read
  owner,                     \* what resolveDestination would answer: "send", "hold", "review"
  transfer,                  \* at the provider: the transfer of each attempt
  events,                    \* transfer.* webhooks received or on their way, not yet handled
  faults                     \* faults so far

row == <<status, attempts, reason>>
ledger == <<debits, credits>>
provider == <<transfer, events>>
vars == <<row, ledger, job, task, owner, provider, faults>>

Open == {"QUEUED", "RETRYING", "PROCESSING"}
Statuses == Open \cup {"SUCCESS", "FAILED"}
Reasons == {"none", "action", "bounced", "review"}
Outcomes == {"success", "failed", "reversed"}
Owners == {"send", "hold", "review"}

\* "none": the provider has never seen the reference; "inflight": the request is
\* on the network; the others are its answers (mapTransferStatus).
TransferStates == {"none", "inflight", "pending", "requires_action"} \cup Outcomes

\* Money is moving, has moved, or will move when a human says so.
Live == {"pending", "requires_action", "success"}

Labels == {"idle", "verify", "resolve", "hold", "review", "claim", "send", "sent",
           "flag", "succeed", "bounced", "unpay", "reopen", "reopened"}

\* kind: a queue job, or the webhook outcome it handles; ref: the attempt it is
\* dealing with; seen: the status it read.
TaskStates == [pc : Labels, kind : {"job"} \cup Outcomes,
               ref : 0 .. AttemptBound, seen : Statuses]

IdleTask == [pc |-> "idle", kind |-> "job", ref |-> 0, seen |-> "QUEUED"]

Init ==
  /\ status = [p \in Payouts |-> "QUEUED"]
  /\ attempts = [p \in Payouts |-> 0]
  /\ reason = [p \in Payouts |-> "none"]
  /\ debits = [p \in Payouts |-> 0]
  /\ credits = [p \in Payouts |-> 0]
  /\ job \in [Payouts -> {"none", "waiting"}]   \* settlement's enqueue is best effort
  /\ task = [p \in Payouts |-> [t \in Tasks |-> IdleTask]]
  /\ owner \in [Payouts -> Owners]
  /\ transfer = [p \in Payouts |-> [n \in Attempts |-> "none"]]
  /\ events = {}
  /\ faults = 0

-----------------------------------------------------------------------------
(* Queue and task bookkeeping *)

\* add() with a job id: dropped while a job of that id exists, running or not.
AddJob(j) == IF j = "none" THEN "waiting" ELSE j

\* The job ends, and is removed, if this task still holds it.
EndJob(j, t) == IF j = t THEN "none" ELSE j

At(p, t, label) == task[p][t].pc = label
Ref(p, t) == task[p][t].ref
Goto(p, t, label) == task' = [task EXCEPT ![p][t] = [@ EXCEPT !.pc = label]]
Leave(p, t) == task' = [task EXCEPT ![p][t] = IdleTask]

\* The task returns: its job (if it is one) is complete.
Finish(p, t) == Leave(p, t) /\ job' = [job EXCEPT ![p] = EndJob(@, t)]

\* Goto a label, or return.
Proceed(p, t, label) ==
  IF label = "idle" THEN Finish(p, t) ELSE Goto(p, t, label) /\ UNCHANGED job

Fault == faults < MaxFaults /\ faults' = faults + 1

-----------------------------------------------------------------------------
(* processPayout *)

\* A worker takes the job and reads the row.
StartJob(p, t) ==
  /\ At(p, t, "idle")
  /\ job[p] = "waiting"
  /\ status[p] \in Open
  /\ task' = [task EXCEPT ![p][t] =
       [pc |-> IF attempts[p] = 0 THEN "resolve" ELSE "verify",
        kind |-> "job", ref |-> attempts[p], seen |-> status[p]]]
  /\ job' = [job EXCEPT ![p] = t]
  /\ UNCHANGED <<row, ledger, owner, provider, faults>>

\* SUCCESS and FAILED rows are left alone.
SkipJob(p) ==
  /\ job[p] = "waiting"
  /\ status[p] \notin Open
  /\ job' = [job EXCEPT ![p] = "none"]
  /\ UNCHANGED <<row, ledger, task, owner, provider, faults>>

\* Mutant: a pending transfer is taken for a dead one.
AfterVerifyPendingIsDead(s) ==
  CASE s = "success" -> "succeed"
    [] s = "requires_action" -> "flag"
    [] OTHER -> "resolve"

\* Mutant: a parked transfer is taken for a dead one.
AfterVerifyParkedIsDead(s) ==
  CASE s = "success" -> "succeed"
    [] s = "pending" -> "idle"
    [] OTHER -> "resolve"

\* Mutant: a parked transfer is waited for in silence.
AfterVerifyParkedIsPending(s) ==
  CASE s = "success" -> "succeed"
    [] s \in {"pending", "requires_action"} -> "idle"
    [] OTHER -> "resolve"

\* What a job does when the provider says s of the reference on the row.
AfterVerify(s) ==
  CASE s = "success" -> "succeed"
    [] s = "requires_action" -> "flag"
    [] s = "pending" -> "idle"
    [] OTHER -> "resolve"

\* Unless LateLanding, a request settles before anybody asks about it.
Verify(p, t) ==
  /\ At(p, t, "verify")
  /\ LateLanding \/ transfer[p][Ref(p, t)] # "inflight"
  /\ Proceed(p, t, AfterVerify(transfer[p][Ref(p, t)]))
  /\ UNCHANGED <<row, ledger, owner, provider, faults>>

AfterResolve(o) == IF o = "send" THEN "claim" ELSE o

ResolveDestination(p, t) ==
  /\ At(p, t, "resolve")
  /\ Goto(p, t, AfterResolve(owner[p]))
  /\ UNCHANGED <<row, ledger, job, owner, provider, faults>>

\* Back to QUEUED, unless the row has moved since it was read.
Hold(p, t) ==
  /\ At(p, t, "hold")
  /\ status' = [status EXCEPT ![p] = IF @ = task[p][t].seen THEN "QUEUED" ELSE @]
  /\ Finish(p, t)
  /\ UNCHANGED <<attempts, reason, ledger, owner, provider, faults>>

\* Mutant: the claim does not compare attempts with what was read.
CanClaimStale(p, t) == status[p] \in Open

\* The conditional update that decides which of several workers may transfer.
CanClaim(p, t) == status[p] \in Open /\ attempts[p] = Ref(p, t)

Claim(p, t) ==
  /\ At(p, t, "claim")
  /\ CanClaim(p, t)
  /\ attempts[p] < AttemptBound
  /\ status' = [status EXCEPT ![p] = "PROCESSING"]
  /\ attempts' = [attempts EXCEPT ![p] = Ref(p, t) + 1]
  /\ reason' = [reason EXCEPT ![p] = "none"]
  /\ task' = [task EXCEPT ![p][t] = [@ EXCEPT !.pc = "send", !.ref = Ref(p, t) + 1]]
  /\ UNCHANGED <<ledger, job, owner, provider, faults>>

LoseClaim(p, t) ==
  /\ At(p, t, "claim")
  /\ ~CanClaim(p, t)
  /\ Finish(p, t)
  /\ UNCHANGED <<row, ledger, owner, provider, faults>>

\* createRecipient, then the POST leaves.  A createRecipient that throws is a
\* Crash before this step.
InitiateTransfer(p, t) ==
  /\ At(p, t, "send")
  /\ transfer' = [transfer EXCEPT ![p][Ref(p, t)] = "inflight"]
  /\ Goto(p, t, "sent")
  /\ UNCHANGED <<row, ledger, job, owner, events, faults>>

\* What the job does with the answer to its POST.
AfterInitiate(s) ==
  CASE s = "success" -> "succeed"
    [] s \in {"failed", "reversed"} -> "bounced"
    [] s = "requires_action" -> "flag"
    [] OTHER -> "idle"

Response(p, t) ==
  /\ At(p, t, "sent")
  /\ transfer[p][Ref(p, t)] \notin {"none", "inflight"}
  /\ Proceed(p, t, AfterInitiate(transfer[p][Ref(p, t)]))
  /\ UNCHANGED <<row, ledger, owner, provider, faults>>

\* The provider refused the request, or never got it: the call throws, and the
\* queue runs the job again or, its tries used up, drops it.
RequestFailed(p, t) ==
  /\ At(p, t, "sent")
  /\ transfer[p][Ref(p, t)] = "none"
  /\ Leave(p, t)
  /\ \E j \in {"none", "waiting"} : job' = [job EXCEPT ![p] = IF @ = t THEN j ELSE @]
  /\ UNCHANGED <<row, ledger, owner, provider, faults>>

FlagForOperator(p, t) ==
  /\ At(p, t, "flag")
  /\ reason' = [reason EXCEPT ![p] = "action"]
  /\ Finish(p, t)
  /\ UNCHANGED <<status, attempts, ledger, owner, provider, faults>>

-----------------------------------------------------------------------------
(* handleTransferEvent, markSucceeded, markForReview *)

\* The row is looked up by its reference, then the outcome decides.
AfterEventRead(p, n, outcome) ==
  CASE attempts[p] # n -> "idle"
    [] attempts[p] = n /\ outcome = "success" -> "succeed"
    [] attempts[p] = n /\ outcome = "reversed" /\ status[p] = "SUCCESS" -> "unpay"
    [] attempts[p] = n /\ outcome # "success" /\ status[p] # "SUCCESS" -> "reopen"
    [] OTHER -> "idle"

\* A webhook worker takes an event and reads the row.
StartEvent(p, t) ==
  /\ At(p, t, "idle")
  /\ \E n \in Attempts, outcome \in Outcomes :
       /\ <<p, n, outcome>> \in events
       /\ events' = events \ {<<p, n, outcome>>}
       /\ LET next == AfterEventRead(p, n, outcome)
          IN  task' = [task EXCEPT ![p][t] =
                IF next = "idle" THEN IdleTask
                ELSE [pc |-> next, kind |-> outcome, ref |-> n, seen |-> status[p]]]
  /\ UNCHANGED <<row, ledger, job, owner, transfer, faults>>

\* The same handler, called by the job whose transfer came back failed.
InitiateBounced(p, t) ==
  /\ At(p, t, "bounced")
  /\ Proceed(p, t, AfterEventRead(p, Ref(p, t), "failed"))
  /\ UNCHANGED <<row, ledger, owner, provider, faults>>

\* Mutant: the claim matches a row already paid.
CanSucceedTwice(p, t) == attempts[p] = Ref(p, t)

\* markSucceeded's claim, by reference, of a row not yet paid.
CanSucceed(p, t) == attempts[p] = Ref(p, t) /\ status[p] # "SUCCESS"

\* One transaction: the row becomes SUCCESS and the payable account is debited.
MarkSucceeded(p, t) ==
  /\ At(p, t, "succeed")
  /\ IF CanSucceed(p, t)
     THEN /\ status' = [status EXCEPT ![p] = "SUCCESS"]
          /\ reason' = [reason EXCEPT ![p] = "none"]
          /\ debits' = [debits EXCEPT ![p] = @ + 1]
     ELSE UNCHANGED <<status, reason, debits>>
  /\ Finish(p, t)
  /\ UNCHANGED <<attempts, credits, owner, provider, faults>>

\* Mutant: the reversal's claim matches a row that is not paid.
CanUnpayTwice(p, t) == attempts[p] = Ref(p, t)

\* The reversal's claim of a row recorded as paid by this reference.
CanUnpay(p, t) == attempts[p] = Ref(p, t) /\ status[p] = "SUCCESS"

\* One transaction: the row is RETRYING again and the compensating entries posted.
Unpay(p, t) ==
  /\ At(p, t, "unpay")
  /\ IF CanUnpay(p, t)
     THEN /\ status' = [status EXCEPT ![p] = "RETRYING"]
          /\ reason' = [reason EXCEPT ![p] = "bounced"]
          /\ credits' = [credits EXCEPT ![p] = @ + 1]
          /\ Goto(p, t, "reopened")
          /\ UNCHANGED job
     ELSE /\ Finish(p, t)
          /\ UNCHANGED <<status, reason, credits>>
  /\ UNCHANGED <<attempts, debits, owner, provider, faults>>

\* Nothing was posted for the attempt: only the row changes, if it still is this
\* attempt's and unpaid.  The number of rows updated is not looked at.
Reopen(p, t) ==
  /\ At(p, t, "reopen")
  /\ IF CanSucceed(p, t)
     THEN /\ status' = [status EXCEPT ![p] = "RETRYING"]
          /\ reason' = [reason EXCEPT ![p] = "bounced"]
     ELSE UNCHANGED <<status, reason>>
  /\ Goto(p, t, "reopened")
  /\ UNCHANGED <<attempts, ledger, job, owner, provider, faults>>

\* Too many attempts (as read before the update) go to review ...
ReopenedExhausted(p, t) ==
  /\ At(p, t, "reopened")
  /\ Ref(p, t) >= MaxAutomaticAttempts
  /\ Goto(p, t, "review")
  /\ UNCHANGED <<row, ledger, job, owner, provider, faults>>

\* ... the others are enqueued, which a job that is itself running only drops.
ReopenedRetry(p, t) ==
  /\ At(p, t, "reopened")
  /\ Ref(p, t) < MaxAutomaticAttempts
  /\ Leave(p, t)
  /\ job' = [job EXCEPT ![p] = EndJob(AddJob(@), t)]
  /\ UNCHANGED <<row, ledger, owner, provider, faults>>

\* FAILED, whatever attempt the row has reached by now, unless it is paid.
MarkForReview(p, t) ==
  /\ At(p, t, "review")
  /\ IF status[p] # "SUCCESS"
     THEN /\ status' = [status EXCEPT ![p] = "FAILED"]
          /\ reason' = [reason EXCEPT ![p] = "review"]
     ELSE UNCHANGED <<status, reason>>
  /\ Finish(p, t)
  /\ UNCHANGED <<attempts, ledger, owner, provider, faults>>

-----------------------------------------------------------------------------
(* retryPayout and the sweep *)

\* The enqueue after the update may fail: the row stays RETRYING for the sweep.
RetryPayout(p) ==
  /\ OperatorRetries
  /\ status[p] = "FAILED"
  /\ status' = [status EXCEPT ![p] = "RETRYING"]
  /\ reason' = [reason EXCEPT ![p] = "none"]
  /\ \E j \in {job[p], AddJob(job[p])} : job' = [job EXCEPT ![p] = j]
  /\ UNCHANGED <<attempts, ledger, task, owner, provider, faults>>

\* Mutant: the sweep does not look at PROCESSING payouts.
CandidatesNotProcessing ==
  {p \in Payouts :
     /\ status[p] \in {"QUEUED", "RETRYING"}
     /\ Cardinality({q \in Payouts : status[q] \in Open /\ RowOrder[q] < RowOrder[p]}) < SweepBatch}

\* The first SweepBatch open payouts, in the order the database returns them.
Candidates ==
  {p \in Payouts :
     /\ status[p] \in Open
     /\ Cardinality({q \in Payouts : status[q] \in Open /\ RowOrder[q] < RowOrder[p]}) < SweepBatch}

\* Of these, the ones whose owner may be paid are enqueued.  The gate reads KYC and
\* confirmation only, so owners that would be sent to review pass it too.
Sweep ==
  /\ job' = [p \in Payouts |->
       IF p \in Candidates /\ owner[p] # "hold" THEN AddJob(job[p]) ELSE job[p]]
  /\ UNCHANGED <<row, ledger, task, owner, provider, faults>>

-----------------------------------------------------------------------------
(* Environment: the owner's onboarding, the provider, crashes *)

\* KYC and bank-account changes.
SetOwner(p, o) ==
  /\ owner' = [owner EXCEPT ![p] = o]
  /\ UNCHANGED <<row, ledger, job, task, provider, faults>>

\* The provider moves a transfer to state s and announces an outcome by webhook.
Transition(p, n, s) ==
  /\ transfer' = [transfer EXCEPT ![p][n] = s]
  /\ events' = IF s \in Outcomes THEN events \cup {<<p, n, s>>} ELSE events
  /\ UNCHANGED <<row, ledger, job, task, owner>>

\* The request arrives, or a transfer the provider was working on completes.
Advance(p, n) ==
  /\ \/ transfer[p][n] = "inflight" /\ \E s \in Live : Transition(p, n, s)
     \/ transfer[p][n] = "pending" /\ Transition(p, n, "success")
  /\ UNCHANGED faults

\* A human completes a parked transfer on the provider's dashboard.
HumanAction(p, n) ==
  /\ transfer[p][n] = "requires_action"
  /\ Transition(p, n, "pending")
  /\ UNCHANGED faults

\* The request is refused or lost; the bank rejects the transfer, or bounces it
\* after it was announced as delivered.
Setback(p, n) ==
  /\ \/ transfer[p][n] = "inflight" /\ Transition(p, n, "none")
     \/ transfer[p][n] \in Live \ {"success"} /\ Transition(p, n, "failed")
     \/ transfer[p][n] = "success" /\ Transition(p, n, "reversed")
  /\ Fault

\* A task dies between two steps: the process crashed, or a statement or a
\* call threw.  The queue runs its job or its event again, or gives up on it.
Crash(p, t) ==
  /\ ~At(p, t, "idle")
  /\ Leave(p, t)
  /\ IF task[p][t].kind = "job"
     THEN /\ \E j \in {"none", "waiting"} : job' = [job EXCEPT ![p] = IF @ = t THEN j ELSE @]
          /\ UNCHANGED events
     ELSE /\ \E lost \in BOOLEAN :
               events' = IF lost THEN events
                         ELSE events \cup {<<p, Ref(p, t), task[p][t].kind>>}
          /\ UNCHANGED job
  /\ Fault
  /\ UNCHANGED <<row, ledger, owner, transfer>>

\* A webhook that never arrives, or whose job runs out of tries.
LoseEvent ==
  /\ \E e \in events : events' = events \ {e}
  /\ Fault
  /\ UNCHANGED <<row, ledger, job, task, owner, transfer>>

\* A webhook delivered again, or whose job runs again although it had finished.
RepeatEvent ==
  /\ \E p \in Payouts, n \in Attempts, outcome \in Outcomes :
       /\ \/ transfer[p][n] = outcome
          \/ transfer[p][n] = "reversed" /\ outcome = "success"
       /\ events' = events \cup {<<p, n, outcome>>}
  /\ Fault
  /\ UNCHANGED <<row, ledger, job, task, owner, transfer>>

\* The queue believes the worker dead and offers its job again.
StallJob(p) ==
  /\ StalledJobs
  /\ job[p] \in Tasks
  /\ job' = [job EXCEPT ![p] = "waiting"]
  /\ Fault
  /\ UNCHANGED <<row, ledger, task, owner, provider>>

-----------------------------------------------------------------------------
\* The next step of a task that is under way.
Step(p, t) ==
  \/ Verify(p, t) \/ ResolveDestination(p, t) \/ Hold(p, t)
  \/ Claim(p, t) \/ LoseClaim(p, t) \/ InitiateTransfer(p, t)
  \/ Response(p, t) \/ RequestFailed(p, t) \/ FlagForOperator(p, t)
  \/ InitiateBounced(p, t) \/ MarkSucceeded(p, t) \/ Unpay(p, t) \/ Reopen(p, t)
  \/ ReopenedExhausted(p, t) \/ ReopenedRetry(p, t) \/ MarkForReview(p, t)

Environment ==
  \/ LoseEvent
  \/ RepeatEvent
  \/ \E p \in Payouts :
       \/ StallJob(p)
       \/ \E o \in Owners : SetOwner(p, o)
       \/ \E n \in Attempts : Advance(p, n) \/ HumanAction(p, n) \/ Setback(p, n)
       \/ \E t \in Tasks : Crash(p, t)

Next ==
  \/ Sweep
  \/ Environment
  \/ \E p \in Payouts :
       \/ SkipJob(p)
       \/ RetryPayout(p)
       \/ \E t \in Tasks : StartJob(p, t) \/ StartEvent(p, t) \/ Step(p, t)

\* Workers take what is queued and finish what they started, the sweep is a
\* repeatable job, and the provider answers.  Nothing makes an owner finish
\* onboarding or a human act.
Fairness ==
  /\ WF_vars(Sweep)
  /\ \A p \in Payouts :
       /\ WF_vars(SkipJob(p) \/ \E t \in Tasks : StartJob(p, t))
       /\ WF_vars(\E t \in Tasks : StartEvent(p, t))
       /\ \A t \in Tasks : WF_vars(Step(p, t))
       /\ \A n \in Attempts : WF_vars(Advance(p, n))

Spec == Init /\ [][Next]_vars

FairSpec == Spec /\ Fairness

-----------------------------------------------------------------------------
(* Properties *)

\* Every variable has its type.
TypeOK ==
  /\ status \in [Payouts -> Statuses]
  /\ attempts \in [Payouts -> 0 .. AttemptBound]
  /\ reason \in [Payouts -> Reasons]
  /\ debits \in [Payouts -> Nat]
  /\ credits \in [Payouts -> Nat]
  /\ job \in [Payouts -> {"none", "waiting"} \cup Tasks]
  /\ task \in [Payouts -> [Tasks -> TaskStates]]
  /\ owner \in [Payouts -> Owners]
  /\ transfer \in [Payouts -> [Attempts -> TransferStates]]
  /\ events \subseteq Payouts \X Attempts \X Outcomes
  /\ faults \in 0 .. MaxFaults

\* The ledger and the row never disagree: a payout has exactly one payout posting
\* that no reversal has undone if it is SUCCESS, and none otherwise, however
\* webhooks, verifications and reversals race (markSucceeded: "exactly-once").
LedgerMatchesStatus ==
  \A p \in Payouts : debits[p] = credits[p] + (IF status[p] = "SUCCESS" THEN 1 ELSE 0)

\* "The ledger is debited only when the provider confirms delivery": a payout
\* recorded as paid by an attempt had that very transfer delivered (it may have
\* bounced since).
DebitOnlyWhenDelivered ==
  \A p \in Payouts : status[p] = "SUCCESS" =>
    \E n \in Attempts : n = attempts[p] /\ transfer[p][n] \in {"success", "reversed"}

\* The optimistic claim lets one task at a time send a given reference, and only
\* one that the provider has not seen: no two tasks are between the claim and the
\* POST of one attempt, even when the queue runs a job twice.
OneSenderPerReference ==
  \A p \in Payouts : \A t \in Tasks : At(p, t, "send") =>
    /\ transfer[p][Ref(p, t)] = "none"
    /\ Ref(p, t) <= attempts[p]
    /\ \A u \in Tasks \ {t} : At(p, u, "send") \/ At(p, u, "sent") => Ref(p, u) # Ref(p, t)

\* "A crash, timeout or retried job can't transfer the same obligation twice": of
\* the transfers of one payout at most one is delivered, pending or parked.
NoDoubleTransfer ==
  \A p \in Payouts : \A m, n \in Attempts :
    transfer[p][m] \in Live /\ transfer[p][n] \in Live => m = n

\* What the ledger still owes of each obligation, and the transfers that decide about them.
Ledger == INSTANCE Obligation WITH
  owed <- [p \in Payouts |-> 1 - debits[p] + credits[p]],
  delivered <- [p \in Payouts |-> {n \in Attempts : transfer[p][n] \in {"success", "reversed"}}],
  bounced <- [p \in Payouts |-> {n \in Attempts : transfer[p][n] = "reversed"}]

\* The engine keeps the promise of Obligation: postings alternate, each backed by a
\* delivered (or bounced) transfer, in every interleaving of its tasks.
ImplementsObligation == Ledger!Spec

\* The transfer that may still move money is the one the row names, so that its
\* webhook finds the payout (the handler drops events of any other reference).
LiveTransferIsOnTheRow ==
  \A p \in Payouts : \A n \in Attempts :
    transfer[p][n] \in Live => n = attempts[p]

\* A payout leaves SUCCESS only because its transfer bounced, and the same step
\* restores the payable balance.
OnlyAReversalUndoesSuccess ==
  [][\A p \in Payouts : status[p] = "SUCCESS" /\ status'[p] # "SUCCESS" =>
       /\ status'[p] = "RETRYING"
       /\ credits'[p] = credits[p] + 1
       /\ transfer[p][attempts[p]] = "reversed"]_vars

\* A payout whose owner stays payable is settled, goes to review, or is parked at
\* the provider for a human: crashes, lost webhooks, failed enqueues and enqueues
\* dropped by the job id all end with the sweep taking it up again.
OpenPayoutsResolve ==
  \A p \in Payouts : <>[](owner[p] = "send") =>
    []<>(status[p] \notin Open
         \/ \E n \in Attempts : n = attempts[p] /\ transfer[p][n] = "requires_action")

\* A transfer parked for a human does not stay silent: the row of an open payout
\* gets the operator's flag (flagForOperator: "report nothing wrong").
ParkedTransfersAreFlagged ==
  \A p \in Payouts : \A n \in Attempts :
    <>[](owner[p] # "hold" /\ status[p] \in Open /\ n = attempts[p] /\ transfer[p][n] = "requires_action")
      => <>[](reason[p] = "action")
=============================================================================
