# A TLA+ development for Splitcore

Splitcore takes tips for entertainers: a guest scans a QR code, pays through a
payment provider, the money is split in a double-entry ledger between the
entertainer, the venue and the platform, and what the ledger owes is paid out
to bank accounts. The backend is a NestJS program (TypeScript, Prisma on
PostgreSQL at Read Committed, BullMQ on Redis) that runs as several processes:
the HTTP API and one or more workers. This directory holds TLA+ models of it,
the TLC runs that check them, and the TLAPS proofs about them. Paths of source
files below are relative to the root of the repository.

## 1. Inventory

| Component | State | Operations | Talks to |
|---|---|---|---|
| Payments (`src/payments/payments.service.ts`) | `transactions` row: status, snapshot of the split rule | `initializePayment`, `getPaymentStatus` | provider (initialize, verify), settlement |
| Settlement (`payment-settlement.service.ts`) | status of the transaction, ledger entries, payout rows | `settle`, `enqueuePayouts`, `transition` | provider (verify), ledger, payouts queue |
| Ledger (`src/ledger`) | accounts, immutable entries | `computePaymentEntries`, `computePayoutEntries`, reversal entries, `post`, balances | called inside the transactions of settlement and payouts |
| Payouts (`src/payouts/payouts.service.ts`) | `payouts` row: status, attempts, transfer reference, failure reason | `processPayout`, `handleTransferEvent`, `retryPayout`, `enqueueDuePayouts` | provider (verify, transfer), ledger, payouts queue |
| Webhooks (`src/webhooks`) | `webhook_events` row: status | `ingest`, `handle` | webhook queue, settlement, payouts |
| Queues (`src/queue`) | BullMQ jobs in Redis | processors, repeatable jobs, `NullQueue` | all of the above |
| Reconciliation (`src/reconciliation`) | none | `run` | reads the ledger, the payouts in flight and the provider's balance one after the other, reports the drift; changes nothing |
| Split rules (`src/split-rules`) | rules (PENDING, ACTIVE, ...), consent token, audit log | `propose`, `override`, `respond`, lookups | read by payments |
| KYC (`src/kyc`) | entertainer: bank account, resolved name, confirmation, KYC status | `submitBankDetails`, `resolveAccount`, `confirmAccount`, `verifyIdentity`, `decideReview` | KYC provider, gate of payouts |
| Venue payout account (`src/venue-payout-account`) | venue: bank account, resolved name, confirmation | `submit`, `resolve`, `confirm` | name lookup, gate of payouts |
| Entertainers (`src/entertainers`) | entertainer profile, `is_active`, links to venues | `create`, `update`, `deactivate`, `linkToVenue`, `unlinkFromVenue` | KYC, split rules, QR codes |
| Entertainer login (`src/entertainer-auth`, `src/auth`) | hashed one-time login tokens; a session is a JWT, checked against the row on every request | `issueLoginLink`, `redeem`, strategy and guards | entertainers |
| QR codes, guest (`src/qr-codes`, `src/guest`) | codes with `is_active`, guest sessions | `create`, `deactivate`, `regenerate`, the scan, the checks of `initializePayment` | venues, entertainers, split rules, payments |
| Platform settings (`src/platform-settings`) | one row with the platform's fee | `get` (creates it), `update` | read by `propose` |
| Banks (`src/banks`) | in-process cache of the bank list, one refresh in flight | `list`, `resolve` | provider; asked by KYC and venue accounts |
| Redis connection (`src/redis`) | what the process believes of the connection, a reconnect timer and its count | `tryConnect`, `scheduleReconnect`, client events, shutdown | queues |
| Venues (`src/venues`) | rows | CRUD | payments, QR codes |
| Dashboard (`src/dashboard`) | none | overviews, earnings list, transaction and payout pages | sums over payments, ledger and payouts |
| Auth, health, config, common | none of their own | guards, wiring | |

### Which behaviours are hard

* Workers, webhooks, the API and the scheduler run concurrently and every
  `await` is a point where another of them can move the row just read.
  Correctness rests on conditional updates (`updateMany ... where status`) and
  on what is compared there.
* The provider answers late, not at all, or twice; webhooks are lost,
  duplicated and reordered; a request whose answer is lost may have landed.
* Any process can die between two statements; BullMQ then runs the job again,
  and may run it while the first run is still alive (a stalled job).
* An enqueue is outside the database transaction that makes it necessary, and
  is silently dropped while a job of the same id exists.
* Recovery is left to periodic sweeps of bounded size.
* A check is of the moment it is made: a session, a link, a fee or a bank list
  may have been replaced by the time what rests on it is written.
* Arithmetic on kobo with rounding, where every entry must balance.

## 2. Plan

Modules in order of importance. All that exist are described below.

| Module | Models | State |
|---|---|---|
| `Obligation`, `Payout`, `PayoutHistory`, `PayoutProofs` | the payout engine, because it moves money out and is the most concurrent part | done (section 3) |
| `Receipt`, `Settlement`, `SettlementProofs` | a payment from `initializePayment` to SUCCESS or FAILED | done (section 4) |
| `Webhooks`, `WebhookProofs` | ingest, deduplication, retries, the handler's status | done (section 5) |
| `SplitRules`, `SplitTerms`, `SplitRuleProofs` | propose, override, respond as Read Committed transactions; what the rules say and the fee they are checked against | done (section 6) |
| `Ledger`, `Books`, `BookProofs`, `Reconciliation` | the arithmetic, the money on both sides, the report that compares them | done (section 7) |
| `BankAccount`, `BankAccountProofs` | KYC (`kyc.service.ts`), the venue's account (`venue-payout-account.service.ts`) and the PATCH of an entertainer: a confirmation belongs to the number it confirms | done (section 8) |
| `Dashboard`, `Earnings`, proofs in `BookProofs` | the figures and windows of `dashboard.service.ts` over `Books` | done (section 9) |
| `LoginLinks`, `LoginLinkProofs` | login links that are superseded and redeemed at once, the session a link gives, the guards of every request | done (section 10) |
| `GuestAccess`, `GuestAccessProofs` | QR codes, guest sessions and the start of a payment while codes, performers and the venue are retired | done (section 11) |
| `Banks`, proofs in `BankAccountProofs` | the cached bank list with one refresh in flight, its fallbacks, and the bank a name stands for | done (section 12) |
| `RedisConnection`, proofs in `WebhookProofs` | the reconnect cycle of the service beside the client's own retries | done (section 13) |
| composition | `Settlement` implements the settlement part of `Books` and `Payout` the payout part, so that what is proved of the books holds of the concurrent models | proved (sections 3 and 4) |

Abstract specifications: `Obligation` (what payouts promise), `Receipt` (what
settlement promises), and `Books`, which `Settlement` and `Payout` implement one
after the other. Where the code does less than its comments say, the properties
state what it does ensure, and section 14 lists what is left open.

## 3. The payout engine

`Payout.tla` models `payouts.service.ts`, the queue that drives it and the
provider's transfer API. A payout row is worked on by *tasks* (queue jobs and
webhook handlers); each task has a program counter and what it read
(`ref`, `seen`), and one action is one database statement, transaction or
provider call.

| Variable | Code |
|---|---|
| `status`, `attempts`, `reason` | the columns of `payouts`; the transfer reference is `po_<id>_<attempts>`, so it is the attempt number |
| `debits`, `credits` | payout and reversal postings for the payout |
| `job` | its BullMQ job (`payout:<id>`, removed when it ends): absent, waiting, or run by a task |
| `task` | the running tasks |
| `owner` | what `resolveDestination` answers |
| `transfer` | per attempt, the state of the transfer at the provider |
| `events` | transfer webhooks on their way |
| `faults` | faults so far, bounded by `MaxFaults` |

Actions carry the names of the methods: `StartJob`, `SkipJob`, `Verify`,
`ResolveDestination`, `Hold`, `Claim`/`LoseClaim`, `InitiateTransfer`,
`Response`/`RequestFailed`, `FlagForOperator` (`processPayout`); `StartEvent`,
`InitiateBounced`, `Unpay`, `Reopen`, `ReopenedExhausted`, `ReopenedRetry`
(`handleTransferEvent`); `MarkSucceeded`, `MarkForReview`, `RetryPayout`,
`Sweep`. The environment is `SetOwner`, `Advance`, `HumanAction`, `Setback`,
`Crash`, `LoseEvent`, `RepeatEvent`, `StallJob`.

Two switches describe the environment: `LateLanding` (a transfer request may
still land after somebody asked the provider about its reference) and
`StalledJobs` (the queue may hand a job to a second worker while the first is
alive). Nothing in the code excludes either; they are constants to separate
what holds regardless from what needs them to be false.

`PayoutHistory.tla` adds a history variable, `early`: the attempts that a job
took for dead (`not_found`, line 94) although their request was still on the
network or about to be sent. It restricts no step of `Payout`. With it the
promise about double payments can be stated of every environment: a transfer
that moves money, or may yet, is the one the row names, unless it is in `early`
(`StrayTransfersCameLate`). Where requests settle before they are asked about
and jobs run once at a time, this amounts to `NoDoubleTransfer` and
`LiveTransferIsOnTheRow`, which `Payout_safe` checks.

`Obligation.tla` is the promise: an obligation is owed until it is written off
against a delivered transfer, and is owed again when that transfer bounced.

### Runs

| Run | Bounds | Shows |
|---|---|---|
| `Payout_safe` | 1 payout, 2 tasks, 3 attempts, limit 2, 2 faults; both switches off; operators retry; fair | one transfer at a time, books in step with rows, refinement of `Obligation`, open payouts resolve, parked transfers are flagged |
| `Payout_hostile` | the same with limit 1, both switches on | in the worst environment a reference still has one sender, which sends only what the provider has not seen, and a transfer besides the one on the row came late (the proofs add that books match rows and debits are backed by deliveries) |

Payouts do not interact except through the sweep's batch, so one payout is
enough elsewhere; two tasks are enough for every pair of readers and writers
of one row to interleave; three attempts allow a retry after the limit of two.
Two faults allow a crash together with a lost, repeated or rejected transfer.
The guard `attempts < AttemptBound` in `Claim` is a bound of the model.
`OperatorRetries` adds `retryPayout`; without it FAILED is an end.

Fairness (`Payout_safe`): workers take waiting jobs and
events and finish what they start, the repeatable sweep runs, the provider
answers requests. Owners are not forced to finish onboarding, nor humans to
act, and no fault has to happen. `OpenPayoutsResolve` therefore speaks only of
payouts whose owner stays payable and whose transfers the provider finishes.

### Proofs

`PayoutProofs.tla` proves, for every number of payouts, tasks, attempts and
faults, and in every environment (no theorem assumes `LateLanding` or
`StalledJobs` to be FALSE):

* `TypeCorrect`, `OneSender`, `LedgerCorrect`, `DebitBacked`,
  `SuccessUndoneByReversalOnly` and `Implementation`;
* `LiveTransferOnTheRow` (`StrayTransfersCameLate`), `NoDoublePayment` (of two
  transfers of one payout that both move money, one is in `early`) and
  `NewAttemptsFollowDeadTransfers` (a new attempt is claimed when each earlier
  transfer is over without having moved money, or is in `early`).

None of these is inductive alone. `Core` strengthens the types with what a task
may rely on (`TasksOK`: its reference is not newer than the row's, the outcome
it is about to record was announced by the provider), with the truth of the
webhooks (`EventsOK`), and with `ReferenceBeforeRequest`: nothing at the
provider has a reference the row has not reached. `PostingStep` then classifies
what any step does to the books of a payout, from which the ledger theorems
and the refinement follow. `History` is the additional invariant for one
transfer at a time: every attempt before the row's is in `early` or over, and so
is the one that a job on its way to a claim asked about. A transfer that is over
stays so (`OverStays`), as only the task that claimed an attempt sends it.

On these rests the refinement of `Books` (section 7), under `RowsGiven`: each
row is the positive share of a payee of a settled payment, for any amounts and
splits. `PaperLedger` maps the postings counted in `debits` and `credits` to the
entries they consist of, `PaperHeld` takes from the gross every live transfer,
`LastTransfer` is the transfer of the latest attempt, "requested" from the claim
until the request has landed or is lost. `PaysByTheBooks`: the engine starts
where settlement left the books (`JustSettled` of `Books`), and as long as
`early` is empty each of its steps is one of `Books` on one row, or none. That a refusal is only handled of a
transfer that was refused or bounced is one more invariant (`Told`).
`EngineKeepsTheBooks` spells out what follows for the engine itself: in every
environment entries balance and no liability is lost; and while `early` is
empty, the provider holds what the clearing account says but for transfers not
recorded yet, and it holds the platform's part and every share that has not
left. It is proved from the mapping directly (`PaperLines`: each account as what
was settled and what was posted, the balance as the gross less what was sent),
with `DueWithinGross`: floors of parts of an amount do not exceed it. Once an
attempt is in `early` a row may have two live transfers, which the books cannot
say, and the balance may not cover what is owed (section 14).

Liveness is model-checked only (fairness and ENABLED are outside the prover).

## 4. Settlement

`Settlement.tla` models `payments.service.ts` and
`payment-settlement.service.ts` with the provider's side of a charge. As in
section 3 a payment is worked on by tasks: the request that creates it, status
polls of the guest's page, and webhook workers.

| Variable | Code |
|---|---|
| `payment` | `payment_transactions.status`; "absent" before the row exists |
| `postings` | payment postings in the ledger |
| `payouts` | the payees with a `payouts` row |
| `queued` | the payouts `enqueuePayouts` got into the queue |
| `task` | the running tasks; `left` is the payouts a task has yet to enqueue |
| `checkout`, `charge` | who was given the checkout URL, and the charge, at the provider |
| `job`, `tries`, `stalled` | the BullMQ job of the payment's `charge.success` webhook: absent, waiting, run by a task, or failed; the tries it has used; whether it was handed on once as stalled |
| `faults` | faults so far, bounded by `MaxFaults` |

`CreatePayment` to `AbortPayment` are `initializePayment`; `StartPoll` is
`getPaymentStatus`; `ReadPayment` to `FinishSettle` are `settle`, with
`TransitionFrom` for `transition`. `AddJob`, `RetryJob`, `EndJob` and `Stall`
are the queue as in `Webhooks`: a throw is retried until `MaxTries` (5 in the
code) are used, a job whose worker dies is handed on once, and a failed job
stays under its id, so that nothing runs it again. A guest may pay after declined cards, and
the provider's answer to `Verify` may be old by the time it is used.

`Receipt.tla` is the promise: money is entered once, with the payouts it owes,
only when it was taken as asked for, and eventually, unless its webhook ends as
a failed job (`Park`): a FAILED payment is not polled, and then only an operator
would notice. It may still be entered after that, by a poll.

| Run | Bounds | Shows |
|---|---|---|
| `Settlement_safe` | 1 payment, 2 payees, 3 tasks, 2 tries, 3 faults, fair | one posting with its payouts, no settlement of anything but the amount asked for, the unconditional FAILED of line 140 of `payments.service.ts` is harmless, refinement of `Receipt` with its liveness |

Payments share no state; three tasks put a poll, a webhook and a repeated
webhook (or the initial request) at one row at the same time. Two tries are one
that fails and a last one; three faults use them up, or stall a job twice, and
leave one for a crash elsewhere.

Fairness: workers take webhooks and every task goes on. Nothing makes the guest
poll or pay. That a webhook reaches a worker is what section 5 establishes.

Proofs (`SettlementProofs.tla`), for any number of payments, tasks, payees and
faults: `TypeCorrect`, `PostedOnce`, `PaidBeforeSettled`, `AbortIsSafe`,
`Final`, `Implementation` (the safety part of `Receipt`). The inductive
invariant adds to the types what a task may rely on at each label (one that is
about to claim has seen the charge succeed, one that is about to abort is of a
payment nobody was given the checkout of), and that one task only is in
`initializePayment` (`OneOpening`). The checked invariants alone do not say
why a late FAILED cannot meet a settled payment; this does.

`SettlesByTheBooks` shows that settlement implements `Books`, under `TermsGiven`:
every payment has valid terms and its payees are those with a positive share. A
charge of the amount asked for is `Charge`, the settlement transaction is
`Settle`, and no other step moves the books. `SettlementKeepsTheBooks` states of
settlement itself that entries balance, shares are owed and the money for them
is there, and `HandsOverTheBooks` that each payment it booked is what payouts
begin with (`JustSettled`).

## 5. Webhooks

`Webhooks.tla` models `webhooks.service.ts` (`ingest`, in a request) and
`webhook-event-handler.service.ts` (`handle`, in a worker, or in the request
when there is no queue).

| Variable | Code |
|---|---|
| `status` | `webhook_events.processing_status`; "absent" before the row exists |
| `job`, `tries`, `stalled` | the BullMQ job of the event: none, waiting, failed (kept for seven days), or the worker that has it; its attempts; whether its one stall is used |
| `task` | requests and workers |
| `sent`, `acked` | what the provider announced, and what it was answered 200 for |
| `handled` | events whose effect happened, or that were parked for a human |
| `odd`, `queueEnabled`, `stalledJobs` | fixed by the initial state: which events fail settlement's integrity checks; whether Redis is configured; whether a job may be run by two workers at once |

`Store`, `ReadExisting`, `Enqueue`/`EnqueueTimesOut` are `ingest`; `ReadEvent`
to `Fail` are `handle`. The environment announces and delivers (several copies
at once), redelivers after a 200, crashes, lets statements and effects throw.
Because the modes are variables, one run covers all of them.

| Run | Bounds | Shows |
|---|---|---|
| `Webhooks_safe` | 1 event, 3 tasks, 2 tries, 3 faults, fair | a 200 never loses an event, COMPLETED is final with a queue that runs a job once at a time; every event is handled or left as a failed job |

Events share no state. Two tries (five in the code) let a job fail, be retried
and be used up within the three faults.

Fairness: the provider delivers until it is answered 200, workers take waiting
jobs, requests and workers go on.

Proofs (`WebhookProofs.tla`), for any number of events, tasks, tries and
faults and in every mode: `TypeCorrect`, `NothingAckedIsLost`
(`AckedIsKept`), `CompletedMeansApplied` (`CompletedIsApplied`) and `Final`
(`CompletedIsFinal`). The invariant adds that a task
that is to complete has applied the effect (`HandledFirst`), that odd events
never reach that point (`OddIsParked`), that a live job has tries left
(`TriesLeft`), and for `CompletedIsFinal` that with one run of a job at a time
its worker is alone with the event. The module also holds the proofs of the
Redis connection (section 13), which the queue rests on.

## 6. Split rules

`SplitRules.tla` models `split-rules.service.ts` for one venue: the requests
`propose`, `override` and `respond` as transactions at Read Committed.
`status` is the committed rows; `task[t].writes` is what transaction `t` has
written and not committed, which locks those rows, and `task[t].todo` what its
current statement found. `Seen` is what a statement of a transaction reads. A
transaction may be rolled back anywhere (a deadlock, a crash, a throw).

`SplitTerms.tla` adds what the rules say. `settings` is the fee in the settings
row, which may be missing and which an admin moves at any time; `request` is
the terms of the propose or override a task works on, from the reading of the
fee (`ReadFee`, `HealFee`) to the transaction; `terms` those of the committed
rules. Two histories serve the properties: `inForce`, the fees there were
during a request, and `overtaken`, whether another rule came into force since a
transaction looked at the active ones.

| Run | Bounds | Shows |
|---|---|---|
| `SplitRules_safe` | 3 rules, 2 requests at a time, fees of 1 or 2 in 4, offers that fit one of them | a proposal is decided once, a venue with a rule keeps one, a decision that nothing overtook leaves its own rule as the only one, every rule divides the whole by a fee it was checked against |

Two requests at a time are every pair; three rules are one to be replaced and
two that race to replace it. The run is of `SplitTerms`, which contains every
step of `SplitRules`.

Proofs (`SplitRuleProofs.tla`), for any rules, requests, fees and offers:
`TypeCorrect`, `ProposalsAreDecidedOnce`, `AlwaysARule`, and of `SplitTerms`
`NewRulesAreSound` and `DecisionsLeaveOne`; `TermsKeepTheRules` carries what was
proved of `SplitRules` over. The invariant says that two transactions never
hold writes of one row (`Exclusive`), what each transaction knows of the rows
it has read or written (`TransactionOK`): a row it wrote keeps the committed
status its condition was checked against, and what it is to close was in force;
that a decision nobody overtook has every active rule among those it is closing
(`DecisionOK`); and that checked terms are whole, with a fee of the time of the
request (`TermsOK`).

Without `overtaken`, `UnopposedDecisionLeavesOne` is false: two decisions at
once leave two active rules (section 14).

## 7. Ledger, books and reconciliation

`Ledger.tla` is the arithmetic of `ledger.service.ts`: how a payment is
divided, and the entries of a payout and of its reversal, as functions from
account types to kobo. `Books.tla` is the money of each payment on both sides:
`ledger` and `status` in the database, `transfer` and `held` at the provider,
with one action per database transaction of settlement and payouts and one per
move of the provider. It takes from section 3 that an attempt follows only a
dead transfer (guard of `Claim`), which is so until one was taken for dead too
early, and leaves out who does what when.
`Reconciliation.tla` adds the hourly job: `report` is what it has read so far,
one query per action, while money moves.

| Run | Bounds | Shows |
|---|---|---|
| `Reconciliation_safe` | 1 payment of 1, 2, 6 or 7 kobo, with and without a performer, every division of 7 basis points | postings balance, a payee is owed its share exactly until its payout is SUCCESS, the provider's balance is explained to the kobo, rounding favours nobody and the platform takes at most 2 kobo; a report of books at rest shows no drift |

With 7 instead of 10000 basis points every residue of a share occurs; amounts
below, at and beyond one kobo per basis point bring out zero shares and the
full remainder of 2 kobo. The run also checks `PendingIsOwed` of section 9, which
reads the same rows.

`Books.Land` may deliver in the step in which the request arrives, because an
answer of the provider to the first question may already be "success".

Proofs (`BookProofs.tla`), for any finite set of payments
(`PaymentsAssumption`), amounts, splits and number of basis points:
`TypeCorrect`, `AlwaysBalanced`, `LiabilityIsKept`, `BalanceExplained`,
`FairDivision`, and two more about the money: `AlwaysCovered`
(`ObligationsAreCovered`: of a settled payment the provider holds the platform's
part and every share that has not left) and `PlatformPartIsKept` (payouts never
take more of a payment than its payees' shares). `SettledBooksAreKept` is the
same for books that begin with payments just settled; with the hand-over proved
in section 4 and the engine's refinement in section 3, it carries these
properties through both services, as far as those theorems go. The inductive invariant gives each ledger
line as a function of `terms` and `status` and the balance as a function of
`transfer` (`PaymentOK`), from which the properties follow by arithmetic; the
arithmetic lemmas (floor division, the remainder of two floors) are stated once.

Reports and figures sum over all payments with a fold of the community modules.
The head of the module proves what is needed of it: a sum over a finite set is
an element and the sum of the rest (`SumUnfolds`), and sums of integers are
integers and add up (`Sums`). The fold
is a function defined by recursion on subsets; that it exists and is unique is
shown by taking a smallest subset that fails (`SubsetInduction`,
`IterationExists`), which needs no theorem with an operator parameter.
From it follow `TrialAlwaysBalances` (the report never finds the ledger out of
balance, at any moment and in any interleaving), `EveryDriftIsExplained` and
`ReportIsExact` (a report of books at rest shows no drift, however many payments
there are), of `SpecReport`, the books with the report that is being written.
`EveryDriftIsExplained` accounts for every report, at rest or not: the drift is
what is in between when the balance is read (`Between`: a charge not settled, a
transfer not recorded or bounced since, a payout counted as in flight) and what
moved after the ledger and the payouts were read. The first part is
`BooksExplainTheBalance` summed over the payments (`BalanceOfAll`); where
nothing is in between it is 0, which gives `ReportIsExact`.

## 8. Bank accounts

`BankAccount.tla` models the way from a typed number to an account money is
sent to, for one entertainer (`kyc.service.ts`, and `update` of
`entertainers.service.ts`) or one venue (`venue-payout-account.service.ts`).
Requests run concurrently; each reads the row (`find`), asks a bank or an
identity provider, and updates by id, so an update may rest on a row that has
changed meanwhile.

| Variable | Code |
|---|---|
| `kind` | entertainer or venue |
| `row` | `account_number`, `bank_code` (`coded`), `bank_name` (`named`), `resolved_account_name`, `account_confirmed_at`, `kyc_status` |
| `task` | the running requests: what each is to store or asks the bank about |
| `clean` | history: no update rested on an outdated row and no PATCH moved a resolved number |

`StartSubmit`/`SubmitBankDetails`, `StartResolve`/`ResolveAccount`/
`ResolveRefused`, `StartConfirm`/`ConfirmAccount`, `StartVerify`/
`VerifyIdentity`, `StartDecide`/`DecideReview` are the requests before and
after their `await`; `ReadVenueAgain` is the second `find` of a venue,
`PatchAccount` the PATCH, which writes the number and the bank's name it is given,
null and empty ones too; `Throw` a request that fails. `NextStep`,
`PayoutsEnabled` and `Destination` are what the onboarding page, the profile
and the payout engine make of one row.

| Run | Bounds | Shows |
|---|---|---|
| `BankAccount_safe` | 2 accounts of 2 people, 3 requests, both kinds | while `clean`, a confirmed name is the holder's and nobody is VERIFIED unconfirmed; the three readings of a row agree, but for a row that a PATCH emptied, from which nothing is sent |

Three requests are one that asks a bank, one that changes the number under it
and one that confirms. `clean` is not an assumption on the environment but the
exact list of what the code leaves open; the theorems say that nothing else can
go wrong. `Emptied` is the other such condition: a bank was submitted, and a
PATCH took the number or the bank's name away. Such a row may still say DONE and
`payoutsEnabled` while `resolveDestination` answers "review" (section 14).

Proofs (`BankAccountProofs.tla`), for any accounts, holders and requests:
`TypeCorrect`, `ConfirmedNamesTheHolder`, `VerifiedAfterConfirmed`,
`ViewsAlwaysAgree`. The invariant states what the row satisfies while `clean`
(`RowOK`) and what each request that read a row still current may rely on
(`TaskOK`).

## 9. Dashboard

`Dashboard.tla` has the sums of `dashboard.service.ts` over the payout rows of
`Books`: what is pending and what was paid out, for an entertainer and for a
venue. Each is a function of the state and of the payments made at the venue
(`here`); an overview asks several at once. `tonight` and `thisWeek` are the
windows of `time-window.ts`, as functions of an instant in milliseconds.

`Earnings.tla` has the sums over the ledger: `credits` counts the CREDIT lines
per payment and account, `TotalKobo` is what an entertainer is told to have
earned, `EarningsHere` the row of a venue's list, and `RowShown` whether the
query's WHERE leaves that row (line 153: it keeps an account without any CREDIT
entry, or with one of this venue). `bounces` counts the payouts taken back
(history), `BounceBound` bounds it.

| Run | Bounds | Shows |
|---|---|---|
| `Reconciliation_safe` | as in section 7 | pending with the payouts in review is what the ledger owes, paid out is the rest of the shares (`PendingIsOwed`) |
| `Earnings_bounced` | 2 tips, one of a performer, 2 bounces of each payout | a violation: earnings are not the entertainer's own share, as `dashboard.service.ts:33-34` and `README.md:592-593` have it, once a payout that was paid bounces |

TLC finds the violation in eight states: a tip is charged and settled, its
payout sent, paid, recorded, and returned by the bank; the reversal credits the
account once more, and both the overview and the venue's list show twice the
share.

Proofs (in `BookProofs.tla`), for any number of payments and of bounces:
`CreditsAreExplained` (each account is credited its share, and once more per
bounce), from the inductive invariant of the books and the classification of
their steps (`BookSteps`); `EarningsUntilABounce`: as long as no payout of the
entertainer was taken back, her earnings are her share, so that the violation
has this one cause; `PendingIsWhatIsOwed`, which adds the figures up over any
set of payments with the lemmas on sums of section 7; and
`NightsPartitionTime`: an instant is in tonight's window exactly when it is of
the same Lagos day, and in the week's exactly when it is of one of seven whole
days. `EarningsSpec` is the specification of the books with the histories.

## 10. Login links

`LoginLinks.tla` models how an entertainer signs in (`issueLoginLink`,
`redeem`) and what is checked on every request after that: the strategy that
looks the entertainer up again (`Validate`), the role and venue guards
(`Guard`). A request is a task of several statements; admins change the roster
in between.

| Variable | Code |
|---|---|
| `active`, `performs` | `entertainers.is_active`, the link to the venue in `venue_entertainers` |
| `link` | the rows of `entertainer_login_tokens`; "expired" is unconsumed but past its 30 minutes |
| `task` | the running requests |
| `minted`, `prior`, `seen` | histories: sessions per link, the links there were when the request that made a link began, the facts true at some time during a request |

| Run | Bounds | Shows |
|---|---|---|
| `LoginLinks_safe` | 2 entertainers, 2 links, 2 requests | a link mints one session; none from a link that a later, answered request superseded; whatever is granted rests on facts of the time of the request |

The routes are the guarded ones that name a venue or an entertainer's own data;
the administrative routes by entertainer alone (`entertainers.controller.ts:45-92`)
check the role only and are not part of the claim.

Two links are an old and a new one, two requests every pair of operations.
Proofs (`LoginLinkProofs.tla`), for any of these: `TypeCorrect`,
`LinksMintOnce`, `SupersededLinksAreDead`, `GrantsAreEntitled`. The invariant
says that a link minted at most one session and only when consumed, that the
links a request found before it are consumed once its own is created (`PriorOK`,
`BeforeOK`), and which facts a request has seen at each stage (`StageOK`).

## 11. QR codes and guests

`GuestAccess.tla` goes from the code on the table to a payment that may be
started: `create`, `deactivate` and `regenerate` of codes, `deactivate` of a
performer with her codes (one transaction, whose update finds codes before it
commits), the scan, and the checks of `initializePayment` on a session that
lasts 24 hours. `venueActive`, `active`, `performs` and `hasRule` change at any
time; `retired` and `seen` are histories as in section 10.

| Run | Bounds | Shows |
|---|---|---|
| `GuestAccess_safe` | 1 performer, 2 codes, 1 session, 2 requests | a code retired by an answered request stays off; nobody is let in or pays on a code, performer or venue retired before that request |

Two codes are one and its successor; one performer suffices as performers share
nothing but the venue. Not ensured, and not claimed: a code inserted while the
performer is being deactivated stays on, though it opens nothing as she is
inactive until she is put back.

Proofs (`GuestAccessProofs.tla`), for any performers, codes, sessions and
requests: `TypeCorrect`, `RetiredStaysOff`, `GrantsAreEntitled`, and
`CodesOnlyEnd`: no step brings a code back, moves it to somebody else or loses
it. The invariant says what a request that turns codes off knows (`CodesKnown`:
when a performer is deactivated the update finds every code there was when the
request began) and which facts a request has seen at each of its stages
(`StageOK`).

## 12. Banks

`Banks.tla` models `banks.service.ts`: `cache`, `inFlight`, the requests to the
provider that are open (`upstream`), and the requests of callers, each with the
list it was served. Lists lapse after a day, refreshes fail, the process
restarts. `Resolve` is the bank that a name, an alias or a code stands for;
names are classes of strings equal after normalisation, with the pairs of which
one is a prefix of the other.

| Run | Bounds | Shows |
|---|---|---|
| `Banks_safe` | 2 callers, 4 names, 2 lists, 5 answers of the provider | requests that miss at once make one request (`ListTypeOK`); nobody is served less than the process knew, nor a lapsed or static list unless a refresh failed while it waited; a name never resolves to one of several candidates |

The answers contain banks without flags, unusable banks, two banks of one name
and a name that begins another. Two lists tell an old from a new one.

Proofs (in `BankAccountProofs.tla`, beside those of the accounts whose bank is
resolved here; the names of `Banks` carry a prefix so that one module can extend
both), for any banks, names, answers and callers: `ListTypeCorrect`,
`NewestIsServed`, `ResolvesWithoutGuess`. The invariant is that the cache is of
the newest list, that a refresh in flight is one request, and that a waiting
caller waits for it and is served no less than what was known when it asked (`CallerOK`).

## 13. The Redis connection

`RedisConnection.tla` models `redis.service.ts` with the states of the ioredis
client: `clientStatus`, `retries` and `quitting` are the client's; `isConnected`,
`reconnectAttempts`, `timer`, `destroyed` and `attempt` (what `tryConnect` waits
for) the service's; `up` is Redis. Two loops try to reconnect, the client's
`retryStrategy` and the service's timer, each with a limit, and each event of
the client runs the service's handler in the same step.

| Run | Bounds | Shows |
|---|---|---|
| `RedisConnection_safe` | a limit of 3, 12 in the code; fair | the process stops trying only when both loops are used up since the last connection; nothing is scheduled after shutdown; a ready client ends up reported ready; if Redis comes back for good it is used again unless the service had stopped or was shut down |

Three is enough to tell the first attempt, one in between and the last.
Fairness: `WF_vars(Own)`, that is timers fire and what is outstanding is
answered or times out. Redis need never come up, go down, or stay.

Proofs (in `WebhookProofs.tla`), for every limit: `RedisTypeCorrect`,
`RedisGivesUpLast` (the process stops trying only when both loops are used up),
`RedisQuietAfterShutdown`. The invariant adds that a client which ended
without shutdown has no retry left, and that then an attempt is under way, the
timer is armed, or the service's cycles are used up too.

## 14. What the code leaves open

Where the code does not do what its comments, tests or documents say, the
properties are stated so that they hold of the code, and this is the gap:

* a transfer the provider does not know *yet* is taken for one that moved no
  money, and the next attempt pays again (`payouts.service.ts:94`; 37-40 say that
  an existing reference is verified before a new attempt starts, so that a
  timeout cannot pay twice): hence `early` in section 3. With
  `LateLanding = TRUE` TLC finds `NoDoubleTransfer` violated with one task and
  one fault;
* a reversal handled before its success is recorded is forgotten when the
  success is recorded after it (`payouts.service.ts:350`): the books stay in
  step with the row, but the row says paid;
* two rules of a venue can be active at once, when an acceptance and an override
  overlap (`split-rules.service.ts:326`; "There is never a moment with two
  active rules"): hence `overtaken` in `UnopposedDecisionLeavesOne`;
* changing the account number of an entertainer by `PATCH` keeps the
  confirmation (`entertainers.service.ts:113`): hence `clean` in section 8;
* the same `PATCH` may empty the number or the bank's name of a confirmed
  account; the payout then goes to review (`payouts.service.ts:228`), while
  `kyc.service.ts:340` still answers `payoutsEnabled`, "true when payouts will
  actually be attempted", and, for a lost name, the next step DONE: hence
  `Emptied` in `ViewsAgree`;
* two login links of one entertainer issued at once both work
  (`entertainer-auth.service.ts:69`), and two regenerations of one QR code make
  two successors (`qr-codes.service.ts:123`);
* `scheduleReconnect` at the limit arms nothing, so a process whose two loops
  are used up stays degraded until it is restarted (`redis.service.ts:220`; the
  comment at 76-77 speaks of a fresh attempt cycle later);
* a partial bank name is matched in both directions, so that the full name of a
  bank which was filtered out as unable to receive transfers may resolve to
  another bank whose name it begins with (`banks.service.ts:130`);
* the sweep takes 500 rows in no stated order before it filters the payable
  ones, so its batch may be filled by payouts that cannot be paid
  (`payouts.service.ts:397`);
* a charge of another amount is marked FAILED by a poll that learnt of an
  earlier refusal (`payment-settlement.service.ts:94`; 19-24 say "never
  silently turned into FAILED");
* an event whose job used up its tries is not run again by anything but an
  operator (`webhooks.service.ts:144`), and a payment that was FAILED when its
  guest paid is not polled: hence `Park` in `Receipt`;
* a payout that bounced counts twice as earned: the reversal is another CREDIT
  of the account (`ledger.service.ts:164-169`) and earnings are the sum of
  CREDIT entries (`dashboard.service.ts:198-206`; its rule 2 and
  `README.md:591-594` say that earnings are the entertainer's own share).
  This is the finding of `Earnings_bounced`; `CreditsExplained` states by how
  much;
* a payout in review is neither pending nor paid on any overview
  (`dashboard.service.ts:14`), hence `InReview` in `PendingIsOwed`;
* an entertainer of a venue who earned elsewhere but not there is missing from
  the venue's list (`dashboard.service.ts:153`; `test/dashboard.e2e-spec.ts:171`
  expects linked entertainers with zero earnings): hence `RowShown`;
* two proposals at once leave two consent links alive
  (`split-rules.service.ts:80`, its comment at 78-79 says they do not);
* FAILED is left without `retryPayout` when a late webhook arrives
  (`payouts.service.ts:354` and 361; 492 says "Terminal until a human calls
  retryPayout"), and `README.md:452` says that `transfer.failed` sets FAILED
  where the code sets RETRYING;
* the limit of automatic attempts is not applied to transfers that a
  verification finds failed (`payouts.service.ts:94`; 13 says re-attempts are
  bounded);
* with a job run by two workers at once a payout may be sent twice, because the
  claim compares attempts the second run read after the first one's claim
  (`payouts.service.ts:132`): the first attempt is then in `early`, too;
* the figure for payouts in flight counts PROCESSING rows whose transfer the
  provider has not debited yet (`reconciliation.service.ts:60` against line 14
  and `README.md:465`), hence the condition `Settled` of `QuietReportIsExact`, and
  the term `OnItsWay` of `Between`;
* `CANCELLED` (payouts) and `ABANDONED` (payments) are never written, nor is
  KYC `SUSPENDED`.

## 15. What is checked and what is proved

Proved for every value of the constants: type correctness of `Payout`,
`Settlement`, `Webhooks`, `SplitRules`, `Books`, `BankAccount`, `LoginLinks`,
`GuestAccess`, `Banks` and `RedisConnection`, the safety invariants and action properties of sections 3 to 13, the
safety part of the refinements of `Obligation` and `Receipt`, and the
refinements of `Books` by `Settlement` and by `Payout`. Some are not repeated in
a run because TLC would say less: `DebitOnlyWhenDelivered`,
`OnlyAReversalUndoesSuccess`, `AttemptsFollowTheDead`, `DoubleTransfersCameLate`,
`OnlyPaidIsSettled`, `SuccessIsFinal`, `CompletedIsApplied`, `TrialBalanced`,
`CodesGrow`, `ObligationsAreCovered`, `PlatformPartStays`, `DriftIsExplained`,
the refinements of `Books` and most of the types.

The proofs assume what the named assumptions of the modules state: bounds and
limits are positive, payments are finitely many, terms divide the whole.
Further hypotheses are written in the theorems: `TermsGiven` and `RowsGiven`
tie the payees and rows of `Settlement` and `Payout` to amounts and splits.
`PaysByTheBooks` and half of `EngineKeepsTheBooks` speak of behaviours up to the
first transfer that is taken for dead too early, which the code does not exclude
(section 14); no theorem assumes that it never happens. The two
refinements of `Books` are of one component each, and no module contains both:
they meet in `JustSettled`, which `HandsOverTheBooks` proves of every payment
settlement booked and `PaysByTheBooks` of the engine's initial states. That the
engine starts from that very database is what this leaves to the reader, as is
that a payment settled later joins the ones being paid: payments share no rows,
and `Books` has the actions of both.

Model-checked only: liveness (`OpenPayoutsResolve`, `ParkedTransfersAreFlagged`,
`ImplementsFairReceipt`, `EventsAreHandled`, `ReadyIsNoticed`,
`RecoversUnlessStopped`), because fairness and ENABLED are outside the prover,
and `NoDoubleTransfer` and `LiveTransferIsOnTheRow`, of the environment of
`Payout_safe`: their theorems are the ones about `early`.
There are no RECURSIVE operators.

## 16. Not modelled

Clock values and back-off delays (any delay may elapse at any time), logging,
HTTP, JSON, signatures and DTO validation, exact amounts outside sections 7 and
9, the normalisation of bank names (section 12 takes its result), the worked
example and percentages a proposal is shown with, pages of rows on the
dashboard. The admin login and the venue guard read rows no code changes;
venues, health, configuration and the Prisma client have no state of their own
that could go wrong between steps.
