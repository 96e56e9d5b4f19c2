---------------------------- MODULE PayoutProofs ----------------------------
(* What TLAPS proves of Payout and PayoutHistory, for every value of the constants. *)
EXTENDS PayoutHistory, FiniteSetTheorems, TLAPS

-----------------------------------------------------------------------------
(* Types *)

\* A task record keeps its type when its label changes.
LEMMA RecordType ==
  ASSUME NEW r \in TaskStates, NEW label \in Labels
  PROVE  [r EXCEPT !.pc = label] \in TaskStates
BY DEF TaskStates

\* Moving a task to a label leaves task in its type.
LEMMA GotoType ==
  ASSUME task \in [Payouts -> [Tasks -> TaskStates]],
         NEW p \in Payouts, NEW t \in Tasks, NEW label \in Labels, Goto(p, t, label)
  PROVE  task' \in [Payouts -> [Tasks -> TaskStates]]
<1>1. [task[p][t] EXCEPT !.pc = label] \in TaskStates
  BY RecordType
<1>2. QED
  BY <1>1 DEF Goto

\* The idle task is one.
LEMMA IdleTaskType == IdleTask \in TaskStates
BY AttemptBoundAssumption DEF IdleTask, TaskStates, Labels, Statuses, Open

\* A task that returns leaves task in its type.
LEMMA LeaveType ==
  ASSUME task \in [Payouts -> [Tasks -> TaskStates]],
         NEW p \in Payouts, NEW t \in Tasks, Leave(p, t)
  PROVE  task' \in [Payouts -> [Tasks -> TaskStates]]
BY IdleTaskType DEF Leave

\* A task that returns leaves task and job in their types.
LEMMA FinishType ==
  ASSUME TypeOK, NEW p \in Payouts, NEW t \in Tasks, Finish(p, t)
  PROVE  /\ task' \in [Payouts -> [Tasks -> TaskStates]]
         /\ job' \in [Payouts -> {"none", "waiting"} \cup Tasks]
BY LeaveType DEF Finish, EndJob, TypeOK

\* So does one that returns or moves on.
LEMMA ProceedType ==
  ASSUME TypeOK, NEW p \in Payouts, NEW t \in Tasks, NEW label \in Labels, Proceed(p, t, label)
  PROVE  /\ task' \in [Payouts -> [Tasks -> TaskStates]]
         /\ job' \in [Payouts -> {"none", "waiting"} \cup Tasks]
BY FinishType, GotoType DEF Proceed, TypeOK

\* The types of a task: a helper of the proofs.
TaskJobOK ==
  /\ task \in [Payouts -> [Tasks -> TaskStates]]
  /\ job \in [Payouts -> {"none", "waiting"} \cup Tasks]

\* A task that handles a webhook deals with an attempt that was made.
EventTasksHaveAttempts ==
  \A p \in Payouts : \A t \in Tasks : task[p][t].kind # "job" => Ref(p, t) \in Attempts

\* Every step leaves every variable in its type.
LEMMA TypeStep ==
  ASSUME TypeOK, EventTasksHaveAttempts, [Next]_vars
  PROVE  TypeOK'
<1> USE DEF TaskJobOK
<1>1. ASSUME NEW p \in Payouts, NEW t \in Tasks, Verify(p, t) PROVE TypeOK'
  <2>1. TaskJobOK'
    BY <1>1, ProceedType DEF Verify, AfterVerify, Labels
  <2>2. QED
    BY <1>1, <2>1 DEF Verify, TypeOK, row, ledger, provider
<1>2. ASSUME NEW p \in Payouts, NEW t \in Tasks, ResolveDestination(p, t) PROVE TypeOK'
  <2>1. TaskJobOK'
    BY <1>2, GotoType DEF ResolveDestination, AfterResolve, Labels, Owners, TypeOK
  <2>2. QED
    BY <1>2, <2>1 DEF ResolveDestination, TypeOK, row, ledger, provider
<1>3. ASSUME NEW p \in Payouts, NEW t \in Tasks, Hold(p, t) PROVE TypeOK'
  <2>1. TaskJobOK'
    BY <1>3, FinishType DEF Hold
  <2>2. QED
    BY <1>3, <2>1 DEF Hold, TypeOK, row, ledger, provider, Statuses, Open
<1>4. ASSUME NEW p \in Payouts, NEW t \in Tasks, LoseClaim(p, t) PROVE TypeOK'
  <2>1. TaskJobOK'
    BY <1>4, FinishType DEF LoseClaim
  <2>2. QED
    BY <1>4, <2>1 DEF LoseClaim, TypeOK, row, ledger, provider
<1>5. ASSUME NEW p \in Payouts, NEW t \in Tasks, InitiateTransfer(p, t) PROVE TypeOK'
  <2>1. TaskJobOK'
    BY <1>5, GotoType DEF InitiateTransfer, Labels, TypeOK
  <2>2. QED
    BY <1>5, <2>1 DEF InitiateTransfer, TypeOK, row, ledger, provider, TransferStates, Goto
<1>6. ASSUME NEW p \in Payouts, NEW t \in Tasks, Response(p, t) PROVE TypeOK'
  <2>1. TaskJobOK'
    BY <1>6, ProceedType DEF Response, AfterInitiate, Labels
  <2>2. QED
    BY <1>6, <2>1 DEF Response, TypeOK, row, ledger, provider
<1>7. ASSUME NEW p \in Payouts, NEW t \in Tasks, RequestFailed(p, t) PROVE TypeOK'
  <2>1. TaskJobOK'
    BY <1>7, LeaveType DEF RequestFailed, TypeOK
  <2>2. QED
    BY <1>7, <2>1 DEF RequestFailed, TypeOK, row, ledger, provider
<1>8. ASSUME NEW p \in Payouts, NEW t \in Tasks, FlagForOperator(p, t) PROVE TypeOK'
  <2>1. TaskJobOK'
    BY <1>8, FinishType DEF FlagForOperator
  <2>2. QED
    BY <1>8, <2>1 DEF FlagForOperator, TypeOK, row, ledger, provider, Reasons
<1>9. ASSUME NEW p \in Payouts, NEW t \in Tasks, InitiateBounced(p, t) PROVE TypeOK'
  <2>1. TaskJobOK'
    BY <1>9, ProceedType DEF InitiateBounced, AfterEventRead, Labels
  <2>2. QED
    BY <1>9, <2>1 DEF InitiateBounced, TypeOK, row, ledger, provider
<1>10. ASSUME NEW p \in Payouts, NEW t \in Tasks, MarkSucceeded(p, t) PROVE TypeOK'
  <2>1. TaskJobOK'
    BY <1>10, FinishType DEF MarkSucceeded
  <2>2. CASE CanSucceed(p, t)
    <3>1. debits' \in [Payouts -> Nat]
      <4>1. debits' = [debits EXCEPT ![p] = debits[p] + 1]
        BY <1>10, <2>2 DEF MarkSucceeded
      <4>2. debits \in [Payouts -> Nat] /\ debits[p] + 1 \in Nat
        BY DEF TypeOK
      <4>3. QED
        BY <4>1, <4>2
    <3>2. status' \in [Payouts -> Statuses] /\ reason' \in [Payouts -> Reasons]
      BY <1>10, <2>2 DEF MarkSucceeded, TypeOK, Statuses, Reasons
    <3>3. QED
      BY <1>10, <2>1, <3>1, <3>2 DEF MarkSucceeded, TypeOK, provider
  <2>3. CASE ~CanSucceed(p, t)
    BY <1>10, <2>1, <2>3 DEF MarkSucceeded, TypeOK, provider
  <2>4. QED
    BY <2>2, <2>3
<1>11. ASSUME NEW p \in Payouts, NEW t \in Tasks, Unpay(p, t) PROVE TypeOK'
  <2>1. TaskJobOK'
    BY <1>11, FinishType, GotoType DEF Unpay, Labels, TypeOK
  <2>2. CASE CanUnpay(p, t)
    <3>1. credits' \in [Payouts -> Nat]
      BY <1>11, <2>2 DEF Unpay, TypeOK
    <3>2. status' \in [Payouts -> Statuses] /\ reason' \in [Payouts -> Reasons]
      BY <1>11, <2>2 DEF Unpay, TypeOK, Statuses, Open, Reasons
    <3>3. QED
      BY <1>11, <2>1, <3>1, <3>2 DEF Unpay, TypeOK, provider
  <2>3. CASE ~CanUnpay(p, t)
    BY <1>11, <2>1, <2>3 DEF Unpay, TypeOK, provider
  <2>4. QED
    BY <2>2, <2>3
<1>12. ASSUME NEW p \in Payouts, NEW t \in Tasks, Reopen(p, t) PROVE TypeOK'
  <2>1. TaskJobOK'
    BY <1>12, GotoType DEF Reopen, Labels, TypeOK
  <2>2. QED
    BY <1>12, <2>1 DEF Reopen, TypeOK, row, ledger, provider, Statuses, Open, Reasons
<1>13. ASSUME NEW p \in Payouts, NEW t \in Tasks, ReopenedExhausted(p, t) PROVE TypeOK'
  <2>1. TaskJobOK'
    BY <1>13, GotoType DEF ReopenedExhausted, Labels, TypeOK
  <2>2. QED
    BY <1>13, <2>1 DEF ReopenedExhausted, TypeOK, row, ledger, provider
<1>14. ASSUME NEW p \in Payouts, NEW t \in Tasks, ReopenedRetry(p, t) PROVE TypeOK'
  <2>1. TaskJobOK'
    BY <1>14, LeaveType DEF ReopenedRetry, EndJob, AddJob, TypeOK
  <2>2. QED
    BY <1>14, <2>1 DEF ReopenedRetry, TypeOK, row, ledger, provider
<1>15. ASSUME NEW p \in Payouts, NEW t \in Tasks, MarkForReview(p, t) PROVE TypeOK'
  <2>1. TaskJobOK'
    BY <1>15, FinishType DEF MarkForReview
  <2>2. QED
    BY <1>15, <2>1 DEF MarkForReview, TypeOK, row, ledger, provider, Statuses, Reasons
<1>16. ASSUME NEW p \in Payouts, NEW t \in Tasks, StartJob(p, t) PROVE TypeOK'
  <2>1. [pc |-> IF attempts[p] = 0 THEN "resolve" ELSE "verify",
         kind |-> "job", ref |-> attempts[p], seen |-> status[p]] \in TaskStates
    BY DEF TypeOK, TaskStates, Labels
  <2>2. TaskJobOK'
    BY <1>16, <2>1 DEF StartJob, TypeOK
  <2>3. QED
    BY <1>16, <2>2 DEF StartJob, TypeOK, row, ledger, provider
<1>17. ASSUME NEW p \in Payouts, NEW t \in Tasks, Claim(p, t) PROVE TypeOK'
  <2>1. Ref(p, t) = attempts[p] /\ Ref(p, t) + 1 \in 0 .. AttemptBound
    BY <1>17, AttemptBoundAssumption DEF Claim, CanClaim, TypeOK
  <2>2. [task[p][t] EXCEPT !.pc = "send", !.ref = Ref(p, t) + 1] \in TaskStates
    <3>1. task[p][t] \in TaskStates /\ Ref(p, t) + 1 \in 0 .. AttemptBound
      BY <2>1 DEF TypeOK
    <3>2. "send" \in Labels
      BY DEF Labels
    <3>3. QED
      BY <3>1, <3>2 DEF TaskStates
  <2>3. TaskJobOK'
    <3>1. task' = [task EXCEPT ![p][t] =
            [task[p][t] EXCEPT !.pc = "send", !.ref = Ref(p, t) + 1]]
      BY <1>17 DEF Claim
    <3>2. QED
      BY <1>17, <2>2, <3>1 DEF Claim, TypeOK
  <2>4. QED
    <3>1. attempts' \in [Payouts -> 0 .. AttemptBound]
      BY <1>17, <2>1 DEF Claim, TypeOK
    <3>2. status' \in [Payouts -> Statuses] /\ reason' \in [Payouts -> Reasons]
      BY <1>17 DEF Claim, TypeOK, Statuses, Open, Reasons
    <3>3. QED
      BY <1>17, <2>3, <3>1, <3>2 DEF Claim, TypeOK, ledger, provider
<1>18. ASSUME NEW p \in Payouts, NEW t \in Tasks, StartEvent(p, t) PROVE TypeOK'
  <2>1. PICK n \in Attempts, outcome \in Outcomes :
          /\ events' = events \ {<<p, n, outcome>>}
          /\ task' = [task EXCEPT ![p][t] =
               IF AfterEventRead(p, n, outcome) = "idle" THEN IdleTask
               ELSE [pc |-> AfterEventRead(p, n, outcome), kind |-> outcome,
                     ref |-> n, seen |-> status[p]]]
    BY <1>18 DEF StartEvent
  <2>2. [pc |-> AfterEventRead(p, n, outcome), kind |-> outcome,
         ref |-> n, seen |-> status[p]] \in TaskStates
    BY AttemptBoundAssumption DEF TypeOK, TaskStates, Labels, AfterEventRead, Attempts
  <2>3. IdleTask \in TaskStates
    BY IdleTaskType
  <2>4. TaskJobOK'
    BY <1>18, <2>1, <2>2, <2>3 DEF StartEvent, TypeOK
  <2>5. QED
    BY <1>18, <2>1, <2>4 DEF StartEvent, TypeOK, row, ledger
<1>19. ASSUME NEW p \in Payouts, NEW t \in Tasks, Crash(p, t) PROVE TypeOK'
  <2>0. faults' \in 0 .. MaxFaults
    BY <1>19, FaultsAssumption DEF Crash, Fault, TypeOK
  <2>1. TaskJobOK' /\ faults' \in 0 .. MaxFaults
    <3>1. task' \in [Payouts -> [Tasks -> TaskStates]]
      BY <1>19, LeaveType DEF Crash, TypeOK
    <3>2. CASE task[p][t].kind = "job"
      <4>1. PICK j \in {"none", "waiting"} : job' = [job EXCEPT ![p] = IF @ = t THEN j ELSE @]
        BY <1>19, <3>2 DEF Crash
      <4>2. QED
        BY <2>0, <3>1, <4>1 DEF TypeOK
    <3>3. CASE task[p][t].kind # "job"
      BY <1>19, <2>0, <3>1, <3>3 DEF Crash, TypeOK
    <3>4. QED
      BY <3>2, <3>3
  <2>2. task[p][t].kind # "job" => task[p][t].kind \in Outcomes
    BY DEF TypeOK, TaskStates
  <2>3. task[p][t].kind # "job" => Ref(p, t) \in Attempts
    BY <1>19 DEF Crash, EventTasksHaveAttempts
  <2>4. events' \subseteq Payouts \X Attempts \X Outcomes
    BY <1>19, <2>2, <2>3 DEF Crash, TypeOK
  <2>5. QED
    BY <1>19, <2>1, <2>4 DEF Crash, TypeOK, row, ledger
<1>20. ASSUME NEW p \in Payouts, SkipJob(p) PROVE TypeOK'
  <2>1. TaskJobOK'
    BY <1>20 DEF SkipJob, TypeOK
  <2>2. QED
    BY <1>20, <2>1 DEF SkipJob, TypeOK, row, ledger, provider
<1>21. ASSUME NEW p \in Payouts, RetryPayout(p) PROVE TypeOK'
  <2>1. TaskJobOK'
    BY <1>21 DEF RetryPayout, AddJob, TypeOK
  <2>2. QED
    BY <1>21, <2>1 DEF RetryPayout, TypeOK, row, ledger, provider, Statuses, Open, Reasons
<1>22. ASSUME NEW p \in Payouts, StallJob(p) PROVE TypeOK'
  BY <1>22, FaultsAssumption DEF StallJob, Fault, TypeOK, row, ledger, provider
<1>23. ASSUME NEW p \in Payouts, NEW o \in Owners, SetOwner(p, o) PROVE TypeOK'
  BY <1>23 DEF SetOwner, TypeOK, row, ledger, provider
<1>24. ASSUME NEW p \in Payouts, NEW n \in Attempts, NEW s \in TransferStates, Transition(p, n, s),
           faults' \in 0 .. MaxFaults
     PROVE TypeOK'
  BY <1>24 DEF Transition, TypeOK, row, ledger
<1>25. ASSUME NEW p \in Payouts, NEW n \in Attempts, Advance(p, n) PROVE TypeOK'
  BY <1>25, <1>24 DEF Advance, Live, TransferStates, Outcomes, TypeOK
<1>26. ASSUME NEW p \in Payouts, NEW n \in Attempts, HumanAction(p, n) PROVE TypeOK'
  BY <1>26, <1>24 DEF HumanAction, TransferStates, TypeOK
<1>27. ASSUME NEW p \in Payouts, NEW n \in Attempts, Setback(p, n) PROVE TypeOK'
  BY <1>27, <1>24, FaultsAssumption DEF Setback, Fault, TransferStates, Outcomes, TypeOK
<1>28. CASE LoseEvent
  BY <1>28, FaultsAssumption DEF LoseEvent, Fault, TypeOK, row, ledger
<1>29. CASE Sweep
  BY <1>29 DEF Sweep, AddJob, TypeOK, row, ledger, provider
<1>30. CASE UNCHANGED vars
  BY <1>30 DEF vars, TypeOK, row, ledger, provider
<1>31. CASE RepeatEvent
  BY <1>31, FaultsAssumption DEF RepeatEvent, Fault, TypeOK, row, ledger
<1>32. QED
  BY <1>1, <1>2, <1>3, <1>4, <1>5, <1>6, <1>7, <1>8, <1>9, <1>10, <1>11, <1>12, <1>13,
     <1>14, <1>15, <1>16, <1>17, <1>18, <1>19, <1>20, <1>21, <1>22, <1>23, <1>24, <1>25,
     <1>26, <1>27, <1>28, <1>29, <1>30, <1>31 DEF Next, Environment, Step

-----------------------------------------------------------------------------
(* The inductive invariant *)

\* The bank delivered this transfer (it may have bounced since).
Delivered(p, n) == n \in Attempts /\ transfer[p][n] \in {"success", "reversed"}

BeforeClaim == {"verify", "resolve", "hold", "claim"}

\* What a task knows when it holds record r: the status it read was open if it is
\* a job on its way to the claim; its reference is that of an attempt made; and
\* the outcome it is about to record is one the provider announced.
TaskOK(p, r) ==
  /\ r.pc \in BeforeClaim => r.kind = "job" /\ r.seen \in Open
  /\ r.pc \in {"verify", "send", "sent"} \/ r.kind # "job" => r.ref \in Attempts
  /\ r.ref <= attempts[p]
  /\ r.pc = "succeed" \/ r.kind = "success" => Delivered(p, r.ref)
  /\ r.kind = "reversed" => transfer[p][r.ref] = "reversed"
  /\ r.pc = "unpay" => r.kind = "reversed"
  /\ r.pc = "send" => r.kind = "job"

TasksOK == \A p \in Payouts : \A t \in Tasks : TaskOK(p, task[p][t])

\* Webhooks tell the truth.
EventsOK ==
  \A p \in Payouts : \A n \in Attempts :
    /\ <<p, n, "success">> \in events => Delivered(p, n)
    /\ <<p, n, "reversed">> \in events => transfer[p][n] = "reversed"

\* No reference is at the provider before it is on the row.
ReferenceBeforeRequest ==
  \A p \in Payouts : \A n \in Attempts : n > attempts[p] => transfer[p][n] = "none"

Core == TypeOK /\ TasksOK /\ EventsOK /\ ReferenceBeforeRequest /\ OneSenderPerReference

\* Core is all that the type step needs.
LEMMA CoreTypes == ASSUME Core PROVE TypeOK /\ EventTasksHaveAttempts
BY DEF Core, TasksOK, TaskOK, EventTasksHaveAttempts, Ref

\* A task may take any record it is entitled to, as long as it does not become a sender.
LEMMA TaskMoves ==
  ASSUME Core, NEW p \in Payouts, NEW t \in Tasks, NEW r \in TaskStates,
         task' = [task EXCEPT ![p][t] = r], TaskOK(p, r), r.pc \notin {"send", "sent"},
         UNCHANGED <<attempts, transfer>>
  PROVE  TasksOK' /\ ReferenceBeforeRequest' /\ OneSenderPerReference'
<1>1. \A q \in Payouts : \A u \in Tasks : task'[q][u] = IF q = p /\ u = t THEN r ELSE task[q][u]
  BY DEF Core, TypeOK
<1>2. TasksOK'
  BY <1>1 DEF Core, TasksOK, TaskOK, Delivered
<1>3. ReferenceBeforeRequest'
  BY DEF Core, ReferenceBeforeRequest
<1>4. OneSenderPerReference'
  BY <1>1 DEF Core, OneSenderPerReference, At, Ref
<1>5. QED
  BY <1>2, <1>3, <1>4

\* In particular it may return.
LEMMA TaskLeaves ==
  ASSUME Core, NEW p \in Payouts, NEW t \in Tasks, Leave(p, t), UNCHANGED <<attempts, transfer>>
  PROVE  TasksOK' /\ ReferenceBeforeRequest' /\ OneSenderPerReference'
<1>1. IdleTask \in TaskStates
  BY IdleTaskType
<1>2. TaskOK(p, IdleTask)
  BY DEF TaskOK, IdleTask, Core, TypeOK, BeforeClaim
<1>3. IdleTask.pc \notin {"send", "sent"}
  BY DEF IdleTask
<1>4. QED
  BY <1>1, <1>2, <1>3, TaskMoves DEF Leave

\* Or go to a label that asks for nothing new.
LEMMA TaskGoes ==
  ASSUME Core, NEW p \in Payouts, NEW t \in Tasks, NEW label \in Labels, Goto(p, t, label),
         UNCHANGED <<attempts, transfer>>, label \notin {"send", "sent", "verify"},
         label \in BeforeClaim => task[p][t].kind = "job" /\ task[p][t].seen \in Open,
         label = "succeed" => Delivered(p, Ref(p, t)),
         label = "unpay" => task[p][t].kind = "reversed"
  PROVE  TasksOK' /\ ReferenceBeforeRequest' /\ OneSenderPerReference'
<1> DEFINE r == [task[p][t] EXCEPT !.pc = label]
<1>1. task[p][t] \in TaskStates /\ TaskOK(p, task[p][t])
  BY DEF Core, TypeOK, TasksOK
<1>2. r \in TaskStates
  BY <1>1, RecordType
<1>3. r.pc = label /\ r.kind = task[p][t].kind /\ r.ref = task[p][t].ref /\ r.seen = task[p][t].seen
  BY <1>1 DEF TaskStates
<1>4. TaskOK(p, r)
  BY <1>1, <1>3 DEF TaskOK, Ref, BeforeClaim
<1>5. task' = [task EXCEPT ![p][t] = r]
  BY DEF Goto
<1> HIDE DEF r
<1>6. QED
  BY <1>2, <1>3, <1>4, <1>5, TaskMoves

\* Webhooks stay true when the provider does nothing.
LEMMA EventsStay ==
  ASSUME Core, UNCHANGED transfer, events' \subseteq events
  PROVE  EventsOK'
BY DEF Core, EventsOK, Delivered

\* Steps that touch neither the row's reference, nor a task, nor a transfer.
LEMMA Frame ==
  ASSUME Core, TypeOK', UNCHANGED <<attempts, transfer, task>>, events' \subseteq events
  PROVE  Core'
<1>1. TasksOK' /\ ReferenceBeforeRequest'
  BY DEF Core, TasksOK, TaskOK, Delivered, ReferenceBeforeRequest
<1>2. OneSenderPerReference'
  BY DEF Core, OneSenderPerReference, At, Ref
<1>3. QED
  BY <1>1, <1>2, EventsStay DEF Core

\* The provider moves a transfer it has; a delivered one can only bounce.
LEMMA ProviderMoves ==
  ASSUME Core, TypeOK', NEW p \in Payouts, NEW n \in Attempts, NEW s \in TransferStates,
         Transition(p, n, s), transfer[p][n] \in {"inflight"} \cup Live,
         transfer[p][n] = "success" <=> s = "reversed"
  PROVE  Core'
<1>1. \A q \in Payouts : \A m \in Attempts :
        transfer'[q][m] = IF q = p /\ m = n THEN s ELSE transfer[q][m]
  BY DEF Transition, Core, TypeOK
<1>2. UNCHANGED <<attempts, task>>
  BY DEF Transition, row
<1>3. \A q \in Payouts : \A m \in Attempts :
        /\ Delivered(q, m) => Delivered(q, m)'
        /\ transfer[q][m] = "reversed" => transfer'[q][m] = "reversed"
  BY <1>1 DEF Delivered, Live
<1>4. TasksOK'
  <2>1. ASSUME NEW q \in Payouts, NEW u \in Tasks PROVE TaskOK(q, task[q][u])'
    <3>1. TaskOK(q, task[q][u]) /\ task'[q][u] = task[q][u] /\ attempts'[q] = attempts[q]
      BY <1>2 DEF Core, TasksOK
    <3>2. task[q][u] \in TaskStates
      BY DEF Core, TypeOK
    <3>3. task[q][u].kind = "reversed" => task[q][u].ref \in Attempts
      BY <3>1 DEF TaskOK
    <3>4. QED
      BY <1>3, <3>1, <3>3 DEF TaskOK, Delivered
  <2>2. QED
    BY <2>1 DEF TasksOK
<1>5. EventsOK'
  <2>1. ASSUME NEW q \in Payouts, NEW m \in Attempts, NEW o \in {"success", "reversed"},
               <<q, m, o>> \in events'
        PROVE  <<q, m, o>> \in events \/ (q = p /\ m = n /\ o = s)
    BY <2>1 DEF Transition
  <2>2. ASSUME NEW q \in Payouts, NEW m \in Attempts, <<q, m, "success">> \in events'
        PROVE  Delivered(q, m)'
    <3>1. CASE <<q, m, "success">> \in events
      BY <1>3, <3>1 DEF Core, EventsOK
    <3>2. CASE q = p /\ m = n /\ "success" = s
      BY <1>1, <3>2 DEF Delivered
    <3>3. QED
      BY <2>1, <2>2, <3>1, <3>2
  <2>3. ASSUME NEW q \in Payouts, NEW m \in Attempts, <<q, m, "reversed">> \in events'
        PROVE  transfer'[q][m] = "reversed"
    BY <1>1, <1>3, <2>1, <2>3 DEF Core, EventsOK
  <2>4. QED
    BY <2>2, <2>3 DEF EventsOK
<1>6. ReferenceBeforeRequest'
  BY <1>1, <1>2 DEF Core, ReferenceBeforeRequest, Live
<1>7. OneSenderPerReference'
  <2>1. ASSUME NEW q \in Payouts, NEW u \in Tasks, task[q][u].pc = "send"
        PROVE  transfer'[q][task[q][u].ref] = "none"
    <3>1. transfer[q][task[q][u].ref] = "none" /\ task[q][u].ref \in Attempts
      BY <2>1 DEF Core, OneSenderPerReference, At, Ref, TasksOK, TaskOK
    <3>2. QED
      BY <1>1, <3>1 DEF Live
  <2>2. QED
    BY <1>2, <2>1 DEF Core, OneSenderPerReference, At, Ref
<1>8. QED
  BY <1>4, <1>5, <1>6, <1>7 DEF Core

\* Every step preserves the core of the invariant.
LEMMA CoreStep == ASSUME Core, [Next]_vars PROVE Core'
<1> TypeOK'
  BY CoreTypes, TypeStep
<1>1. ASSUME NEW p \in Payouts, NEW t \in Tasks, Hold(p, t) PROVE Core'
  <2>1. Leave(p, t) /\ UNCHANGED <<attempts, transfer, events>>
    BY <1>1 DEF Hold, Finish, provider, row
  <2>2. QED
    BY <2>1, TaskLeaves, EventsStay DEF Core
<1>2. ASSUME NEW p \in Payouts, NEW t \in Tasks, LoseClaim(p, t) PROVE Core'
  <2>1. Leave(p, t) /\ UNCHANGED <<attempts, transfer, events>>
    BY <1>2 DEF LoseClaim, Finish, provider, row
  <2>2. QED
    BY <2>1, TaskLeaves, EventsStay DEF Core
<1>3. ASSUME NEW p \in Payouts, NEW t \in Tasks, RequestFailed(p, t) PROVE Core'
  <2>1. Leave(p, t) /\ UNCHANGED <<attempts, transfer, events>>
    BY <1>3 DEF RequestFailed, Finish, provider, row
  <2>2. QED
    BY <2>1, TaskLeaves, EventsStay DEF Core
<1>4. ASSUME NEW p \in Payouts, NEW t \in Tasks, FlagForOperator(p, t) PROVE Core'
  <2>1. Leave(p, t) /\ UNCHANGED <<attempts, transfer, events>>
    BY <1>4 DEF FlagForOperator, Finish, provider, row
  <2>2. QED
    BY <2>1, TaskLeaves, EventsStay DEF Core
<1>5. ASSUME NEW p \in Payouts, NEW t \in Tasks, MarkSucceeded(p, t) PROVE Core'
  <2>1. Leave(p, t) /\ UNCHANGED <<attempts, transfer, events>>
    BY <1>5 DEF MarkSucceeded, Finish, provider, row
  <2>2. QED
    BY <2>1, TaskLeaves, EventsStay DEF Core
<1>6. ASSUME NEW p \in Payouts, NEW t \in Tasks, ReopenedRetry(p, t) PROVE Core'
  <2>1. Leave(p, t) /\ UNCHANGED <<attempts, transfer, events>>
    BY <1>6 DEF ReopenedRetry, Finish, provider, row
  <2>2. QED
    BY <2>1, TaskLeaves, EventsStay DEF Core
<1>7. ASSUME NEW p \in Payouts, NEW t \in Tasks, MarkForReview(p, t) PROVE Core'
  <2>1. Leave(p, t) /\ UNCHANGED <<attempts, transfer, events>>
    BY <1>7 DEF MarkForReview, Finish, provider, row
  <2>2. QED
    BY <2>1, TaskLeaves, EventsStay DEF Core
<1>8. ASSUME NEW p \in Payouts, NEW t \in Tasks, Verify(p, t) PROVE Core'
  <2> DEFINE label == AfterVerify(transfer[p][Ref(p, t)])
  <2>1. Proceed(p, t, label) /\ UNCHANGED <<attempts, transfer, events>>
    BY <1>8 DEF Verify, provider, row
  <2>2. TaskOK(p, task[p][t])
    BY DEF Core, TasksOK
  <2>3. /\ label \in Labels \ {"send", "sent", "verify", "unpay"}
        /\ label \in BeforeClaim => task[p][t].kind = "job" /\ task[p][t].seen \in Open
        /\ label = "succeed" => Delivered(p, Ref(p, t))
    BY <1>8, <2>2 DEF Verify, TaskOK, At, Ref, Delivered, Labels, BeforeClaim, AfterVerify
  <2> HIDE DEF label
  <2>4. CASE label = "idle"
    BY <2>1, <2>4, TaskLeaves, EventsStay DEF Core, Proceed, Finish
  <2>5. CASE label # "idle"
    <3>1. Goto(p, t, label)
      BY <2>1, <2>5 DEF Proceed
    <3>2. QED
      BY <2>1, <2>3, <3>1, TaskGoes, EventsStay DEF Core
  <2>6. QED
    BY <2>4, <2>5
<1>9. ASSUME NEW p \in Payouts, NEW t \in Tasks, InitiateBounced(p, t) PROVE Core'
  <2> DEFINE label == AfterEventRead(p, Ref(p, t), "failed")
  <2>1. Proceed(p, t, label) /\ UNCHANGED <<attempts, transfer, events>>
    BY <1>9 DEF InitiateBounced, provider, row
  <2>2. TaskOK(p, task[p][t])
    BY DEF Core, TasksOK
  <2>3. /\ label \in Labels \ {"send", "sent", "verify", "unpay"}
        /\ label \in BeforeClaim => task[p][t].kind = "job" /\ task[p][t].seen \in Open
        /\ label = "succeed" => Delivered(p, Ref(p, t))
    BY <1>9, <2>2 DEF InitiateBounced, TaskOK, At, Ref, Delivered, Labels, BeforeClaim, AfterEventRead
  <2> HIDE DEF label
  <2>4. CASE label = "idle"
    BY <2>1, <2>4, TaskLeaves, EventsStay DEF Core, Proceed, Finish
  <2>5. CASE label # "idle"
    <3>1. Goto(p, t, label)
      BY <2>1, <2>5 DEF Proceed
    <3>2. QED
      BY <2>1, <2>3, <3>1, TaskGoes, EventsStay DEF Core
  <2>6. QED
    BY <2>4, <2>5
<1>10. ASSUME NEW p \in Payouts, NEW t \in Tasks, Response(p, t) PROVE Core'
  <2> DEFINE label == AfterInitiate(transfer[p][Ref(p, t)])
  <2>1. Proceed(p, t, label) /\ UNCHANGED <<attempts, transfer, events>>
    BY <1>10 DEF Response, provider, row
  <2>2. TaskOK(p, task[p][t])
    BY DEF Core, TasksOK
  <2>3. /\ label \in Labels \ ({"send", "sent", "verify", "unpay"} \cup BeforeClaim)
        /\ label = "succeed" => Delivered(p, Ref(p, t))
    BY <1>10, <2>2 DEF Response, TaskOK, At, Ref, Delivered, Labels, BeforeClaim, AfterInitiate
  <2> HIDE DEF label
  <2>4. CASE label = "idle"
    BY <2>1, <2>4, TaskLeaves, EventsStay DEF Core, Proceed, Finish
  <2>5. CASE label # "idle"
    <3>1. Goto(p, t, label)
      BY <2>1, <2>5 DEF Proceed
    <3>2. QED
      BY <2>1, <2>3, <3>1, TaskGoes, EventsStay DEF Core
  <2>6. QED
    BY <2>4, <2>5
<1>11. ASSUME NEW p \in Payouts, NEW t \in Tasks, ResolveDestination(p, t) PROVE Core'
  <2>1. task[p][t].kind = "job" /\ task[p][t].seen \in Open
    BY <1>11 DEF ResolveDestination, At, Core, TasksOK, TaskOK, BeforeClaim
  <2>2. AfterResolve(owner[p]) \in {"claim", "hold", "review"}
    BY DEF Core, TypeOK, Owners, AfterResolve
  <2>3. Goto(p, t, AfterResolve(owner[p])) /\ UNCHANGED <<attempts, transfer, events>>
    BY <1>11 DEF ResolveDestination, provider, row
  <2>4. QED
    BY <2>1, <2>2, <2>3, TaskGoes, EventsStay DEF Core, Labels, BeforeClaim
<1>12. ASSUME NEW p \in Payouts, NEW t \in Tasks, Reopen(p, t) PROVE Core'
  <2>1. Goto(p, t, "reopened") /\ UNCHANGED <<attempts, transfer, events>>
    BY <1>12 DEF Reopen, provider, row
  <2>2. QED
    BY <2>1, TaskGoes, EventsStay DEF Core, Labels, BeforeClaim
<1>13. ASSUME NEW p \in Payouts, NEW t \in Tasks, ReopenedExhausted(p, t) PROVE Core'
  <2>1. Goto(p, t, "review") /\ UNCHANGED <<attempts, transfer, events>>
    BY <1>13 DEF ReopenedExhausted, provider, row
  <2>2. QED
    BY <2>1, TaskGoes, EventsStay DEF Core, Labels, BeforeClaim
<1>14. ASSUME NEW p \in Payouts, NEW t \in Tasks, Unpay(p, t) PROVE Core'
  <2>1. UNCHANGED <<attempts, transfer, events>>
    BY <1>14 DEF Unpay, provider
  <2>2. CASE CanUnpay(p, t)
    BY <1>14, <2>1, <2>2, TaskGoes, EventsStay DEF Core, Labels, BeforeClaim, Unpay, CanUnpay, At, TasksOK, TaskOK
  <2>3. CASE ~CanUnpay(p, t)
    BY <1>14, <2>1, <2>3, TaskLeaves, EventsStay DEF Core, Unpay, Finish
  <2>4. QED
    BY <2>2, <2>3
<1>15. ASSUME NEW p \in Payouts, NEW t \in Tasks, StartJob(p, t) PROVE Core'
  <2> DEFINE r == [pc |-> IF attempts[p] = 0 THEN "resolve" ELSE "verify",
                   kind |-> "job", ref |-> attempts[p], seen |-> status[p]]
  <2>1. r \in TaskStates
    BY DEF Core, TypeOK, TaskStates, Labels
  <2>2. TaskOK(p, r)
    BY <1>15 DEF StartJob, TaskOK, Core, TypeOK, Attempts, BeforeClaim
  <2>3. /\ task' = [task EXCEPT ![p][t] = r] /\ r.pc \notin {"send", "sent"}
        /\ UNCHANGED <<attempts, transfer, events>>
    BY <1>15 DEF StartJob, provider, row
  <2> HIDE DEF r
  <2>4. QED
    BY <2>1, <2>2, <2>3, TaskMoves, EventsStay DEF Core
<1>16. ASSUME NEW p \in Payouts, NEW t \in Tasks, StartEvent(p, t) PROVE Core'
  <2>1. PICK n \in Attempts, outcome \in Outcomes :
          /\ <<p, n, outcome>> \in events
          /\ events' = events \ {<<p, n, outcome>>}
          /\ task' = [task EXCEPT ![p][t] =
               IF AfterEventRead(p, n, outcome) = "idle" THEN IdleTask
               ELSE [pc |-> AfterEventRead(p, n, outcome), kind |-> outcome,
                     ref |-> n, seen |-> status[p]]]
    BY <1>16 DEF StartEvent
  <2>2. UNCHANGED <<attempts, transfer>>
    BY <1>16 DEF StartEvent, row
  <2> DEFINE r == [pc |-> AfterEventRead(p, n, outcome), kind |-> outcome,
                   ref |-> n, seen |-> status[p]]
  <2>3. CASE AfterEventRead(p, n, outcome) = "idle"
    BY <2>1, <2>2, <2>3, TaskLeaves, EventsStay DEF Core, Leave
  <2>4. CASE AfterEventRead(p, n, outcome) # "idle"
    <3>1. attempts[p] = n /\ AfterEventRead(p, n, outcome) \in {"succeed", "unpay", "reopen"}
      BY <2>4 DEF AfterEventRead
    <3>2. /\ AfterEventRead(p, n, outcome) = "succeed" => outcome = "success"
          /\ AfterEventRead(p, n, outcome) = "unpay" => outcome = "reversed"
      BY DEF AfterEventRead
    <3>3. r \in TaskStates
      BY <3>1, AttemptBoundAssumption DEF Core, TypeOK, TaskStates, Labels, Attempts
    <3>4. /\ outcome = "success" => Delivered(p, n)
          /\ outcome = "reversed" => transfer[p][n] = "reversed"
      BY <2>1 DEF Core, EventsOK
    <3>5. TaskOK(p, r)
      BY <3>1, <3>2, <3>4 DEF TaskOK, Core, TypeOK, Attempts, Outcomes, BeforeClaim
    <3>6. task' = [task EXCEPT ![p][t] = r] /\ r.pc \notin {"send", "sent"}
      BY <2>1, <2>4, <3>1
    <3> HIDE DEF r
    <3>7. QED
      BY <2>1, <2>2, <3>3, <3>5, <3>6, TaskMoves, EventsStay DEF Core
  <2>5. QED
    BY <2>3, <2>4
<1>17. ASSUME NEW p \in Payouts, NEW t \in Tasks, Crash(p, t) PROVE Core'
  <2>1. Leave(p, t) /\ UNCHANGED <<attempts, transfer>>
    BY <1>17 DEF Crash, row
  <2>2. TaskOK(p, task[p][t])
    BY DEF Core, TasksOK
  <2>3. EventsOK'
    <3>1. CASE events' \subseteq events
      BY <2>1, <3>1, EventsStay
    <3>2. CASE /\ task[p][t].kind # "job"
               /\ events' = events \cup {<<p, Ref(p, t), task[p][t].kind>>}
      BY <2>1, <2>2, <3>2 DEF Core, EventsOK, TaskOK, Delivered, Ref
    <3>3. QED
      BY <1>17, <3>1, <3>2 DEF Crash
  <2>4. QED
    BY <2>1, <2>3, TaskLeaves DEF Core
<1>18. ASSUME NEW p \in Payouts, NEW t \in Tasks, Claim(p, t) PROVE Core'
  <2> DEFINE r == [task[p][t] EXCEPT !.pc = "send", !.ref = Ref(p, t) + 1]
  <2>1. /\ attempts' = [attempts EXCEPT ![p] = attempts[p] + 1]
        /\ Ref(p, t) = attempts[p] /\ attempts[p] + 1 \in Attempts
        /\ task' = [task EXCEPT ![p][t] = r]
        /\ UNCHANGED <<transfer, events>>
    BY <1>18, AttemptBoundAssumption DEF Claim, CanClaim, Core, TypeOK, Attempts, provider
  <2>2. task[p][t] \in TaskStates /\ TaskOK(p, task[p][t])
    BY DEF Core, TypeOK, TasksOK
  <2>3. r.pc = "send" /\ r.ref = attempts[p] + 1 /\ r.kind = task[p][t].kind
    BY <2>1, <2>2 DEF TaskStates
  <2> HIDE DEF r
  <2>4. \A q \in Payouts : \A u \in Tasks : task'[q][u] = IF q = p /\ u = t THEN r ELSE task[q][u]
    BY <2>1 DEF Core, TypeOK
  <2>5. \A q \in Payouts : attempts[q] \in Nat /\ attempts'[q] = IF q = p THEN attempts[p] + 1 ELSE attempts[q]
    BY <2>1 DEF Core, TypeOK
  <2>6. transfer[p][attempts[p] + 1] = "none"
    BY <2>1, <2>5 DEF Core, ReferenceBeforeRequest, Attempts
  <2>7. task[p][t].kind = "job"
    BY <1>18, <2>2 DEF Claim, At, TaskOK, BeforeClaim
  <2>8. TasksOK'
    <3>1. ASSUME NEW q \in Payouts, NEW u \in Tasks PROVE TaskOK(q, task[q][u])'
      <4>0. attempts[q] \in Nat /\ attempts'[q] \in Nat /\ attempts[q] <= attempts'[q]
        BY <2>5
      <4>1. TaskOK(q, task[q][u]) /\ task[q][u] \in TaskStates
        BY DEF Core, TypeOK, TasksOK
      <4>2. CASE q = p /\ u = t
        BY <2>1, <2>3, <2>4, <2>5, <2>7, <4>0, <4>2 DEF TaskOK, BeforeClaim, Delivered
      <4>3. CASE ~(q = p /\ u = t)
        <5>1. task'[q][u] = task[q][u] /\ task[q][u].ref \in Int
          BY <2>4, <4>1, <4>3 DEF TaskStates
        <5>2. task[q][u].ref <= attempts'[q]
          BY <4>0, <4>1, <5>1 DEF TaskOK
        <5>3. QED
          BY <2>1, <4>1, <5>1, <5>2 DEF TaskOK, Delivered
      <4>4. QED
        BY <4>2, <4>3
    <3>2. QED
      BY <3>1 DEF TasksOK
  <2>9. ReferenceBeforeRequest'
    BY <2>1, <2>5 DEF Core, ReferenceBeforeRequest, Attempts
  <2>10. OneSenderPerReference'
    <3>1. ASSUME NEW q \in Payouts, NEW u \in Tasks, task'[q][u].pc = "send"
          PROVE  transfer'[q][task'[q][u].ref] = "none" /\ task'[q][u].ref <= attempts'[q]
      <4>1. CASE q = p /\ u = t
        BY <2>1, <2>3, <2>4, <2>5, <2>6, <4>1
      <4>2. CASE ~(q = p /\ u = t)
        <5>1. /\ task'[q][u] = task[q][u] /\ task[q][u].pc = "send"
              /\ task[q][u].ref \in Nat /\ attempts[q] <= attempts'[q]
          BY <2>4, <2>5, <3>1, <4>2 DEF Core, TypeOK, TaskStates
        <5>2. transfer[q][task[q][u].ref] = "none" /\ task[q][u].ref <= attempts[q]
          BY <5>1 DEF Core, OneSenderPerReference, At, Ref
        <5>3. QED
          BY <2>1, <2>5, <5>1, <5>2
      <4>3. QED
        BY <4>1, <4>2
    <3>2. ASSUME NEW q \in Payouts, NEW u \in Tasks, NEW v \in Tasks \ {u},
                 task'[q][u].pc = "send", task'[q][v].pc \in {"send", "sent"}
          PROVE  task'[q][v].ref # task'[q][u].ref
      <4>1. \A w \in Tasks : task[q][w].ref \in Nat /\ task[q][w].ref <= attempts[q]
        BY DEF Core, TypeOK, TaskStates, TasksOK, TaskOK
      <4>2. QED
        BY <2>3, <2>4, <2>5, <3>2, <4>1 DEF Core, OneSenderPerReference, At, Ref
    <3>3. QED
      BY <3>1, <3>2 DEF OneSenderPerReference, At, Ref
  <2>11. QED
    BY <2>1, <2>8, <2>9, <2>10, EventsStay DEF Core
<1>19. ASSUME NEW p \in Payouts, NEW t \in Tasks, InitiateTransfer(p, t) PROVE Core'
  <2> DEFINE r == [task[p][t] EXCEPT !.pc = "sent"]
  <2>1. /\ task[p][t] \in TaskStates /\ TaskOK(p, task[p][t]) /\ task[p][t].pc = "send"
        /\ task[p][t].ref \in Attempts /\ transfer[p][task[p][t].ref] = "none"
    BY <1>19 DEF InitiateTransfer, Core, TypeOK, TasksOK, TaskOK, OneSenderPerReference, At, Ref
  <2>2. /\ task' = [task EXCEPT ![p][t] = r]
        /\ transfer' = [transfer EXCEPT ![p][task[p][t].ref] = "inflight"]
        /\ UNCHANGED <<attempts, events>>
    BY <1>19 DEF InitiateTransfer, Goto, Ref, row
  <2>3. r.pc = "sent" /\ r.ref = task[p][t].ref /\ r.kind = task[p][t].kind
    BY <2>1 DEF TaskStates
  <2> HIDE DEF r
  <2>4. \A q \in Payouts : \A u \in Tasks : task'[q][u] = IF q = p /\ u = t THEN r ELSE task[q][u]
    BY <2>2 DEF Core, TypeOK
  <2>5. \A q \in Payouts : \A m \in Attempts :
          transfer'[q][m] = IF q = p /\ m = task[p][t].ref THEN "inflight" ELSE transfer[q][m]
    BY <2>1, <2>2 DEF Core, TypeOK
  <2>6. \A q \in Payouts : \A m \in Attempts :
          /\ Delivered(q, m) => Delivered(q, m)'
          /\ transfer[q][m] = "reversed" => transfer'[q][m] = "reversed"
    BY <2>1, <2>5 DEF Delivered
  <2>7. ASSUME NEW q \in Payouts, NEW u \in Tasks PROVE TaskOK(q, task[q][u])'
    <3>1. TaskOK(q, task[q][u])
      BY DEF Core, TasksOK
    <3>2. CASE q = p /\ u = t
      BY <2>1, <2>2, <2>3, <2>4, <2>6, <3>1, <3>2 DEF TaskOK, BeforeClaim, Delivered
    <3>3. CASE ~(q = p /\ u = t)
      BY <2>2, <2>4, <2>6, <3>1, <3>3 DEF TaskOK, Delivered
    <3>4. QED
      BY <3>2, <3>3
  <2>8. EventsOK'
    BY <2>2, <2>6 DEF Core, EventsOK
  <2>9. ReferenceBeforeRequest'
    BY <2>1, <2>2, <2>5 DEF Core, ReferenceBeforeRequest, TaskOK, TypeOK, Attempts
  <2>10. OneSenderPerReference'
    <3>1. ASSUME NEW q \in Payouts, NEW u \in Tasks, task'[q][u].pc = "send"
          PROVE  transfer'[q][task'[q][u].ref] = "none" /\ task'[q][u].ref <= attempts'[q]
      <4>1. task[q][u].pc = "send" /\ task'[q][u] = task[q][u]
        BY <2>3, <2>4, <3>1
      <4>2. task[q][u].ref \in Attempts
        BY <4>1 DEF Core, TasksOK, TaskOK
      <4>3. ~(q = p /\ task[q][u].ref = task[p][t].ref)
        BY <2>1, <2>3, <2>4, <3>1, <4>1 DEF Core, OneSenderPerReference, At, Ref
      <4>4. QED
        BY <2>2, <2>5, <4>1, <4>2, <4>3 DEF Core, OneSenderPerReference, At, Ref
    <3>2. ASSUME NEW q \in Payouts, NEW u \in Tasks, NEW v \in Tasks \ {u},
                 task'[q][u].pc = "send", task'[q][v].pc \in {"send", "sent"}
          PROVE  task'[q][v].ref # task'[q][u].ref
      BY <2>1, <2>3, <2>4, <3>2 DEF Core, OneSenderPerReference, At, Ref
    <3>3. QED
      BY <3>1, <3>2 DEF OneSenderPerReference, At, Ref
  <2>11. QED
    BY <2>7, <2>8, <2>9, <2>10 DEF Core, TasksOK
<1>20. ASSUME NEW p \in Payouts, NEW n \in Attempts, Advance(p, n) PROVE Core'
  BY <1>20, ProviderMoves DEF Advance, Live, TransferStates, Outcomes
<1>21. ASSUME NEW p \in Payouts, NEW n \in Attempts, HumanAction(p, n) PROVE Core'
  BY <1>21, ProviderMoves DEF HumanAction, Live, TransferStates, Outcomes
<1>22. ASSUME NEW p \in Payouts, NEW n \in Attempts, Setback(p, n) PROVE Core'
  BY <1>22, ProviderMoves DEF Setback, Live, TransferStates, Outcomes
<1>23. ASSUME NEW p \in Payouts, SkipJob(p) PROVE Core'
  BY <1>23, Frame DEF SkipJob, row, provider
<1>24. ASSUME NEW p \in Payouts, RetryPayout(p) PROVE Core'
  BY <1>24, Frame DEF RetryPayout, provider
<1>25. ASSUME NEW p \in Payouts, StallJob(p) PROVE Core'
  BY <1>25, Frame DEF StallJob, row, provider
<1>26. ASSUME NEW p \in Payouts, NEW o \in Owners, SetOwner(p, o) PROVE Core'
  BY <1>26, Frame DEF SetOwner, row, provider
<1>27. CASE LoseEvent
  BY <1>27, Frame DEF LoseEvent, row
<1>28. CASE Sweep
  BY <1>28, Frame DEF Sweep, row, provider
<1>29. CASE UNCHANGED vars
  BY <1>29, Frame DEF vars, row, provider
<1>30. CASE RepeatEvent
  <2>1. TasksOK' /\ ReferenceBeforeRequest' /\ OneSenderPerReference'
    BY <1>30 DEF RepeatEvent, row, Core, TasksOK, TaskOK, Delivered, ReferenceBeforeRequest,
         OneSenderPerReference, At, Ref
  <2>2. EventsOK'
    BY <1>30 DEF RepeatEvent, Core, EventsOK, Delivered, Outcomes
  <2>3. QED
    BY <2>1, <2>2 DEF Core
<1>31. QED
  BY <1>1, <1>2, <1>3, <1>4, <1>5, <1>6, <1>7, <1>8, <1>9, <1>10, <1>11, <1>12, <1>13,
     <1>14, <1>15, <1>16, <1>17, <1>18, <1>19, <1>20, <1>21, <1>22, <1>23, <1>24, <1>25,
     <1>26, <1>27, <1>28, <1>29, <1>30 DEF Next, Environment, Step

-----------------------------------------------------------------------------
(* Theorems: what holds whatever the environment *)

\* The initial states satisfy the invariant.
LEMMA InitCore == Init => Core /\ LedgerMatchesStatus /\ DebitOnlyWhenDelivered
<1> SUFFICES ASSUME Init PROVE Core /\ LedgerMatchesStatus /\ DebitOnlyWhenDelivered
  OBVIOUS
<1>1. TypeOK
  BY IdleTaskType, AttemptBoundAssumption, FaultsAssumption
     DEF Init, TypeOK, Statuses, Open, Reasons, TransferStates
<1>2. TasksOK /\ OneSenderPerReference
  BY DEF Init, TasksOK, TaskOK, IdleTask, BeforeClaim, OneSenderPerReference, At, Ref
<1>3. EventsOK /\ ReferenceBeforeRequest
  BY DEF Init, EventsOK, ReferenceBeforeRequest
<1>4. LedgerMatchesStatus /\ DebitOnlyWhenDelivered
  BY DEF Init, LedgerMatchesStatus, DebitOnlyWhenDelivered
<1>5. QED
  BY <1>1, <1>2, <1>3, <1>4 DEF Core

\* The core of the invariant holds in every reachable state.
THEOREM CoreInvariant == Spec => []Core
<1>1. Init => Core
  BY InitCore
<1>2. Core /\ [Next]_vars => Core'
  BY CoreStep
<1>3. QED
  BY <1>1, <1>2, PTL DEF Spec

\* Every variable keeps its type, for any number of payouts, tasks, attempts and faults.
THEOREM TypeCorrect == Spec => []TypeOK
<1>1. Core => TypeOK
  BY DEF Core
<1>2. QED
  BY CoreInvariant, <1>1, PTL

\* The optimistic claim is enough for one sender per reference, even when the queue
\* runs a job on several workers (StalledJobs) and requests land late.
THEOREM OneSender == Spec => []OneSenderPerReference
<1>1. Core => OneSenderPerReference
  BY DEF Core
<1>2. QED
  BY CoreInvariant, <1>1, PTL

-----------------------------------------------------------------------------
(* The ledger *)

\* What a step may do to the books of one payout: nothing; write the obligation off
\* against a delivered transfer of the row's reference; or restore it after that
\* transfer bounced.
Posting(p) ==
  \/ /\ status'[p] = "SUCCESS" <=> status[p] = "SUCCESS"
     /\ debits'[p] = debits[p] /\ credits'[p] = credits[p]
     /\ status[p] = "SUCCESS" => attempts'[p] = attempts[p]
  \/ /\ status[p] # "SUCCESS" /\ status'[p] = "SUCCESS"
     /\ debits'[p] = debits[p] + 1 /\ credits'[p] = credits[p]
     /\ attempts'[p] = attempts[p] /\ Delivered(p, attempts[p])
  \/ /\ status[p] = "SUCCESS" /\ status'[p] = "RETRYING"
     /\ debits'[p] = debits[p] /\ credits'[p] = credits[p] + 1
     /\ transfer[p][attempts[p]] = "reversed"

\* Every step does one of these to each payout.
LEMMA PostingStep == ASSUME Core, [Next]_vars PROVE \A p \in Payouts : Posting(p)
<1> USE DEF Posting
<1>1. ASSUME NEW p \in Payouts, NEW t \in Tasks, StartJob(p, t) PROVE \A q \in Payouts : Posting(q)
  BY <1>1 DEF StartJob, row, ledger
<1>2. ASSUME NEW p \in Payouts, NEW t \in Tasks, Verify(p, t) PROVE \A q \in Payouts : Posting(q)
  BY <1>2 DEF Verify, row, ledger
<1>3. ASSUME NEW p \in Payouts, NEW t \in Tasks, ResolveDestination(p, t) PROVE \A q \in Payouts : Posting(q)
  BY <1>3 DEF ResolveDestination, row, ledger
<1>4. ASSUME NEW p \in Payouts, NEW t \in Tasks, LoseClaim(p, t) PROVE \A q \in Payouts : Posting(q)
  BY <1>4 DEF LoseClaim, row, ledger
<1>5. ASSUME NEW p \in Payouts, NEW t \in Tasks, InitiateTransfer(p, t) PROVE \A q \in Payouts : Posting(q)
  BY <1>5 DEF InitiateTransfer, row, ledger
<1>6. ASSUME NEW p \in Payouts, NEW t \in Tasks, Response(p, t) PROVE \A q \in Payouts : Posting(q)
  BY <1>6 DEF Response, row, ledger
<1>7. ASSUME NEW p \in Payouts, NEW t \in Tasks, RequestFailed(p, t) PROVE \A q \in Payouts : Posting(q)
  BY <1>7 DEF RequestFailed, row, ledger
<1>8. ASSUME NEW p \in Payouts, NEW t \in Tasks, StartEvent(p, t) PROVE \A q \in Payouts : Posting(q)
  BY <1>8 DEF StartEvent, row, ledger
<1>9. ASSUME NEW p \in Payouts, NEW t \in Tasks, InitiateBounced(p, t) PROVE \A q \in Payouts : Posting(q)
  BY <1>9 DEF InitiateBounced, row, ledger
<1>10. ASSUME NEW p \in Payouts, NEW t \in Tasks, ReopenedExhausted(p, t) PROVE \A q \in Payouts : Posting(q)
  BY <1>10 DEF ReopenedExhausted, row, ledger
<1>11. ASSUME NEW p \in Payouts, NEW t \in Tasks, ReopenedRetry(p, t) PROVE \A q \in Payouts : Posting(q)
  BY <1>11 DEF ReopenedRetry, row, ledger
<1>12. ASSUME NEW p \in Payouts, NEW t \in Tasks, Crash(p, t) PROVE \A q \in Payouts : Posting(q)
  BY <1>12 DEF Crash, row, ledger
<1>13. ASSUME NEW p \in Payouts, NEW t \in Tasks, FlagForOperator(p, t) PROVE \A q \in Payouts : Posting(q)
  BY <1>13 DEF FlagForOperator, ledger
<1>14. ASSUME NEW p \in Payouts, NEW t \in Tasks, Hold(p, t) PROVE \A q \in Payouts : Posting(q)
  <2>1. task[p][t].seen # "SUCCESS"
    BY <1>14 DEF Hold, At, Core, TasksOK, TaskOK, BeforeClaim, Open
  <2>2. QED
    BY <1>14, <2>1 DEF Hold, ledger, Core, TypeOK
<1>15. ASSUME NEW p \in Payouts, NEW t \in Tasks, Claim(p, t) PROVE \A q \in Payouts : Posting(q)
  BY <1>15 DEF Claim, CanClaim, Open, ledger, Core, TypeOK
<1>16. ASSUME NEW p \in Payouts, NEW t \in Tasks, Reopen(p, t) PROVE \A q \in Payouts : Posting(q)
  BY <1>16 DEF Reopen, CanSucceed, ledger, Core, TypeOK
<1>17. ASSUME NEW p \in Payouts, NEW t \in Tasks, MarkForReview(p, t) PROVE \A q \in Payouts : Posting(q)
  BY <1>17 DEF MarkForReview, ledger, Core, TypeOK
<1>18. ASSUME NEW p \in Payouts, NEW t \in Tasks, MarkSucceeded(p, t) PROVE \A q \in Payouts : Posting(q)
  <2>1. CASE CanSucceed(p, t)
    <3>1. Delivered(p, attempts[p])
      BY <1>18, <2>1 DEF MarkSucceeded, CanSucceed, At, Ref, Core, TasksOK, TaskOK
    <3>2. /\ status' = [status EXCEPT ![p] = "SUCCESS"]
          /\ debits' = [debits EXCEPT ![p] = debits[p] + 1]
          /\ UNCHANGED <<attempts, credits>>
      BY <1>18, <2>1 DEF MarkSucceeded
    <3>3. QED
      BY <2>1, <3>1, <3>2 DEF CanSucceed, Core, TypeOK
  <2>2. CASE ~CanSucceed(p, t)
    BY <1>18, <2>2 DEF MarkSucceeded
  <2>3. QED
    BY <2>1, <2>2
<1>19. ASSUME NEW p \in Payouts, NEW t \in Tasks, Unpay(p, t) PROVE \A q \in Payouts : Posting(q)
  <2>1. CASE CanUnpay(p, t)
    <3>1. transfer[p][attempts[p]] = "reversed"
      BY <1>19, <2>1 DEF Unpay, CanUnpay, At, Ref, Core, TasksOK, TaskOK
    <3>2. /\ status' = [status EXCEPT ![p] = "RETRYING"]
          /\ credits' = [credits EXCEPT ![p] = credits[p] + 1]
          /\ UNCHANGED <<attempts, debits>>
      BY <1>19, <2>1 DEF Unpay
    <3>3. QED
      BY <2>1, <3>1, <3>2 DEF CanUnpay, Core, TypeOK
  <2>2. CASE ~CanUnpay(p, t)
    BY <1>19, <2>2 DEF Unpay
  <2>3. QED
    BY <2>1, <2>2
<1>20. ASSUME NEW p \in Payouts, SkipJob(p) PROVE \A q \in Payouts : Posting(q)
  BY <1>20 DEF SkipJob, row, ledger
<1>21. ASSUME NEW p \in Payouts, RetryPayout(p) PROVE \A q \in Payouts : Posting(q)
  BY <1>21 DEF RetryPayout, ledger, Core, TypeOK
<1>22. ASSUME NEW p \in Payouts, StallJob(p) PROVE \A q \in Payouts : Posting(q)
  BY <1>22 DEF StallJob, row, ledger
<1>23. ASSUME NEW p \in Payouts, NEW o \in Owners, SetOwner(p, o) PROVE \A q \in Payouts : Posting(q)
  BY <1>23 DEF SetOwner, row, ledger
<1>24. ASSUME NEW p \in Payouts, NEW n \in Attempts, Advance(p, n) PROVE \A q \in Payouts : Posting(q)
  BY <1>24 DEF Advance, Transition, row, ledger
<1>25. ASSUME NEW p \in Payouts, NEW n \in Attempts, HumanAction(p, n) PROVE \A q \in Payouts : Posting(q)
  BY <1>25 DEF HumanAction, Transition, row, ledger
<1>26. ASSUME NEW p \in Payouts, NEW n \in Attempts, Setback(p, n) PROVE \A q \in Payouts : Posting(q)
  BY <1>26 DEF Setback, Transition, row, ledger
<1>27. ASSUME LoseEvent \/ RepeatEvent PROVE \A q \in Payouts : Posting(q)
  BY <1>27 DEF LoseEvent, RepeatEvent, row, ledger
<1>28. ASSUME Sweep PROVE \A q \in Payouts : Posting(q)
  BY <1>28 DEF Sweep, row, ledger
<1>29. ASSUME UNCHANGED vars PROVE \A q \in Payouts : Posting(q)
  BY <1>29 DEF vars, row, ledger
<1>30. QED
  <2> HIDE DEF Posting
  <2>1. QED
    BY <1>1, <1>2, <1>3, <1>4, <1>5, <1>6, <1>7, <1>8, <1>9, <1>10, <1>11, <1>12, <1>13,
       <1>14, <1>15, <1>16, <1>17, <1>18, <1>19, <1>20, <1>21, <1>22, <1>23, <1>24, <1>25,
       <1>26, <1>27, <1>28, <1>29 DEF Next, Environment, Step

\* How a step changes the transfers: not at all; one request goes out for a reference
\* never used; or the provider moves one transfer, a delivered one only to bounced.
TransferMove(p, n, s) ==
  /\ transfer' = [transfer EXCEPT ![p][n] = s]
  /\ \/ transfer[p][n] = "none" /\ s = "inflight"
     \/ transfer[p][n] = "inflight" /\ s \in {"none"} \cup Live
     \/ transfer[p][n] = "pending" /\ s \in {"success", "failed"}
     \/ transfer[p][n] = "requires_action" /\ s \in {"pending", "failed"}
     \/ transfer[p][n] = "success" /\ s = "reversed"

\* What a step does to the provider's transfers.
LEMMA TransferStep ==
  ASSUME Core, [Next]_vars
  PROVE  \/ UNCHANGED transfer
         \/ \E p \in Payouts, n \in Attempts, s \in TransferStates : TransferMove(p, n, s)
<1>1. ASSUME NEW p \in Payouts, NEW t \in Tasks, Step(p, t), ~InitiateTransfer(p, t)
      PROVE  UNCHANGED transfer
  BY <1>1 DEF Step, Verify, ResolveDestination, Hold, Claim, LoseClaim, Response, RequestFailed,
       FlagForOperator, InitiateBounced, MarkSucceeded, Unpay, Reopen, ReopenedExhausted,
       ReopenedRetry, MarkForReview, provider
<1>2. ASSUME NEW p \in Payouts, NEW t \in Tasks, InitiateTransfer(p, t)
      PROVE  TransferMove(p, Ref(p, t), "inflight") /\ Ref(p, t) \in Attempts
  BY <1>2 DEF InitiateTransfer, TransferMove, Core, OneSenderPerReference, TasksOK, TaskOK, At, Ref
<1>3. ASSUME NEW p \in Payouts, NEW t \in Tasks, StartJob(p, t) \/ StartEvent(p, t) \/ Crash(p, t)
      PROVE  UNCHANGED transfer
  BY <1>3 DEF StartJob, StartEvent, Crash, provider
<1>4. ASSUME NEW p \in Payouts, NEW n \in Attempts, Advance(p, n) \/ HumanAction(p, n) \/ Setback(p, n)
      PROVE  \E s \in TransferStates : TransferMove(p, n, s)
  <2>1. CASE Advance(p, n)
    BY <2>1 DEF Advance, Transition, TransferMove, Live, TransferStates, Outcomes
  <2>2. CASE HumanAction(p, n)
    BY <2>2 DEF HumanAction, Transition, TransferMove, TransferStates
  <2>3. CASE Setback(p, n)
    BY <2>3 DEF Setback, Transition, TransferMove, Live, TransferStates, Outcomes
  <2>4. QED
    BY <1>4, <2>1, <2>2, <2>3
<1>5. ASSUME NEW p \in Payouts,
             SkipJob(p) \/ RetryPayout(p) \/ StallJob(p) \/ \E o \in Owners : SetOwner(p, o)
      PROVE  UNCHANGED transfer
  BY <1>5 DEF SkipJob, RetryPayout, StallJob, SetOwner, provider
<1>6. LoseEvent \/ RepeatEvent \/ Sweep \/ UNCHANGED vars => UNCHANGED transfer
  BY DEF LoseEvent, RepeatEvent, Sweep, vars, provider
<1>7. "inflight" \in TransferStates
  BY DEF TransferStates
<1>8. QED
  BY <1>1, <1>2, <1>3, <1>4, <1>5, <1>6, <1>7 DEF Next, Environment

\* A delivery is never forgotten by the provider.
LEMMA DeliveredStays ==
  ASSUME Core, [Next]_vars, NEW p \in Payouts, NEW n \in Attempts, Delivered(p, n)
  PROVE  Delivered(p, n)'
<1>1. CASE UNCHANGED transfer
  BY <1>1 DEF Delivered
<1>2. ASSUME NEW q \in Payouts, NEW m \in Attempts, NEW s \in TransferStates, TransferMove(q, m, s)
      PROVE  Delivered(p, n)'
  BY <1>2 DEF Delivered, TransferMove, Core, TypeOK
<1>3. QED
  BY <1>1, <1>2, TransferStep

\* The row and the ledger stay in step.
LEMMA LedgerStep ==
  ASSUME Core, LedgerMatchesStatus, [Next]_vars
  PROVE  LedgerMatchesStatus'
<1>1. \A p \in Payouts : Posting(p)
  BY PostingStep
<1>2. \A p \in Payouts : debits[p] \in Nat /\ credits[p] \in Nat
  BY DEF Core, TypeOK
<1>3. QED
  BY <1>1, <1>2 DEF LedgerMatchesStatus, Posting

\* So every step keeps a paid row backed by a delivered transfer.
LEMMA DebitStep ==
  ASSUME Core, DebitOnlyWhenDelivered, [Next]_vars
  PROVE  DebitOnlyWhenDelivered'
<1>1. ASSUME NEW p \in Payouts, status'[p] = "SUCCESS"
      PROVE  attempts'[p] \in Attempts /\ transfer'[p][attempts'[p]] \in {"success", "reversed"}
  <2>1. Posting(p)
    BY PostingStep
  <2>2. attempts'[p] = attempts[p] /\ Delivered(p, attempts[p])
    BY <1>1, <2>1 DEF Posting, DebitOnlyWhenDelivered, Delivered
  <2>3. PICK n \in Attempts : n = attempts[p]
    BY <2>2 DEF Delivered
  <2>4. Delivered(p, n)
    BY <2>2, <2>3
  <2>5. Delivered(p, n)'
    BY <2>4, DeliveredStays
  <2>6. QED
    BY <2>2, <2>3, <2>5 DEF Delivered
<1>2. QED
  BY <1>1 DEF DebitOnlyWhenDelivered

IInv == Core /\ LedgerMatchesStatus /\ DebitOnlyWhenDelivered

\* The whole invariant is inductive.
THEOREM Invariant == Spec => []IInv
<1>1. Init => IInv
  BY InitCore DEF IInv
<1>2. IInv /\ [Next]_vars => IInv'
  BY CoreStep, LedgerStep, DebitStep DEF IInv
<1>3. QED
  BY <1>1, <1>2, PTL DEF Spec

\* The ledger holds exactly one payout posting that no reversal has undone for a
\* SUCCESS payout and none for any other, in every environment.
THEOREM LedgerCorrect == Spec => []LedgerMatchesStatus
<1>1. IInv => LedgerMatchesStatus
  BY DEF IInv
<1>2. QED
  BY Invariant, <1>1, PTL

\* No debit without a delivery, in every environment.
THEOREM DebitBacked == Spec => []DebitOnlyWhenDelivered
<1>1. IInv => DebitOnlyWhenDelivered
  BY DEF IInv
<1>2. QED
  BY Invariant, <1>1, PTL

\* SUCCESS is left only by the transaction that posts the compensating entries of a
\* bounced transfer.
THEOREM SuccessUndoneByReversalOnly == Spec => OnlyAReversalUndoesSuccess
<1>1. Core /\ [Next]_vars =>
        [\A p \in Payouts : status[p] = "SUCCESS" /\ status'[p] # "SUCCESS" =>
           /\ status'[p] = "RETRYING"
           /\ credits'[p] = credits[p] + 1
           /\ transfer[p][attempts[p]] = "reversed"]_vars
  BY PostingStep DEF Posting
<1>2. QED
  BY CoreInvariant, <1>1, PTL DEF Spec, OnlyAReversalUndoesSuccess

-----------------------------------------------------------------------------
(* The engine implements Obligation *)

\* The mapped variables.
Owed == [p \in Payouts |-> 1 - debits[p] + credits[p]]
DeliveredOf == [p \in Payouts |-> {n \in Attempts : transfer[p][n] \in {"success", "reversed"}}]
BouncedOf == [p \in Payouts |-> {n \in Attempts : transfer[p][n] = "reversed"}]

\* Initially everything is owed and nothing delivered.
LEMMA InitImplements == Init => Ledger!Init
BY DEF Init, Ledger!Init

\* The books change only in the two posting transactions.
LEMMA BooksStep ==
  ASSUME [Next]_vars
  PROVE  \/ UNCHANGED ledger
         \/ \E p \in Payouts, t \in Tasks : MarkSucceeded(p, t) \/ Unpay(p, t)
<1>1. ASSUME NEW p \in Payouts, NEW t \in Tasks, Step(p, t)
      PROVE  UNCHANGED ledger \/ MarkSucceeded(p, t) \/ Unpay(p, t)
  BY <1>1 DEF Step, Verify, ResolveDestination, Hold, Claim, LoseClaim, InitiateTransfer, Response,
       RequestFailed, FlagForOperator, InitiateBounced, Reopen, ReopenedExhausted,
       ReopenedRetry, MarkForReview, ledger
<1>2. ASSUME NEW p \in Payouts, NEW t \in Tasks, StartJob(p, t) \/ StartEvent(p, t) \/ Crash(p, t)
      PROVE  UNCHANGED ledger
  BY <1>2 DEF StartJob, StartEvent, Crash, ledger
<1>3. ASSUME NEW p \in Payouts, NEW n \in Attempts, Advance(p, n) \/ HumanAction(p, n) \/ Setback(p, n)
      PROVE  UNCHANGED ledger
  BY <1>3 DEF Advance, HumanAction, Setback, Transition, ledger
<1>4. ASSUME NEW p \in Payouts,
             SkipJob(p) \/ RetryPayout(p) \/ StallJob(p) \/ \E o \in Owners : SetOwner(p, o)
      PROVE  UNCHANGED ledger
  BY <1>4 DEF SkipJob, RetryPayout, StallJob, SetOwner, ledger
<1>5. LoseEvent \/ RepeatEvent \/ Sweep \/ UNCHANGED vars => UNCHANGED ledger
  BY DEF LoseEvent, RepeatEvent, Sweep, vars, ledger
<1>6. QED
  BY <1>1, <1>2, <1>3, <1>4, <1>5 DEF Next, Environment

\* When a transfer moves and the books do not, Obligation sees a delivery, a bounce
\* or nothing.
LEMMA TransferImplements ==
  ASSUME Core, UNCHANGED ledger, NEW p \in Payouts, NEW n \in Attempts, NEW s \in TransferStates,
         TransferMove(p, n, s)
  PROVE  [Ledger!Next]_(Ledger!vars)
<1>1. Owed' = Owed
  BY DEF Owed, ledger
<1>2. \A q \in Payouts : \A m \in Attempts :
        transfer'[q][m] = IF q = p /\ m = n THEN s ELSE transfer[q][m]
  BY DEF TransferMove, Core, TypeOK
<1>3. CASE s = "success"
  <2>1. DeliveredOf' = [DeliveredOf EXCEPT ![p] = @ \cup {n}] /\ n \notin DeliveredOf[p]
    <3>1. transfer[p][n] \notin {"success", "reversed"} /\ s \in {"success", "reversed"}
      BY <1>3 DEF TransferMove, Live
    <3>2. {m \in Attempts : transfer'[p][m] \in {"success", "reversed"}}
           = {m \in Attempts : transfer[p][m] \in {"success", "reversed"}} \cup {n}
      BY <1>2, <3>1
    <3>3. \A q \in Payouts \ {p} :
            {m \in Attempts : transfer'[q][m] \in {"success", "reversed"}}
              = {m \in Attempts : transfer[q][m] \in {"success", "reversed"}}
      BY <1>2
    <3>4. QED
      BY <3>1, <3>2, <3>3 DEF DeliveredOf
  <2>2. BouncedOf' = BouncedOf
    BY <1>2, <1>3 DEF BouncedOf, TransferMove, Live
  <2>3. Ledger!Deliver(p, n)
    BY <1>1, <2>1, <2>2 DEF Ledger!Deliver, Owed, DeliveredOf, BouncedOf
  <2>4. QED
    BY <2>3 DEF Ledger!Next
<1>4. CASE s = "reversed"
  <2>1. BouncedOf' = [BouncedOf EXCEPT ![p] = @ \cup {n}] /\ n \in DeliveredOf[p] \ BouncedOf[p]
    <3>1. transfer[p][n] = "success"
      BY <1>4 DEF TransferMove, Live
    <3>2. {m \in Attempts : transfer'[p][m] = "reversed"}
           = {m \in Attempts : transfer[p][m] = "reversed"} \cup {n}
      BY <1>2, <1>4
    <3>3. \A q \in Payouts \ {p} :
            {m \in Attempts : transfer'[q][m] = "reversed"}
              = {m \in Attempts : transfer[q][m] = "reversed"}
      BY <1>2
    <3>4. QED
      BY <3>1, <3>2, <3>3 DEF DeliveredOf, BouncedOf
  <2>2. DeliveredOf' = DeliveredOf
    BY <1>2, <1>4 DEF DeliveredOf, TransferMove, Live
  <2>3. Ledger!Bounce(p, n)
    BY <1>1, <2>1, <2>2 DEF Ledger!Bounce, Owed, DeliveredOf, BouncedOf
  <2>4. QED
    BY <2>3 DEF Ledger!Next
<1>5. CASE s \notin {"success", "reversed"}
  <2>1. DeliveredOf' = DeliveredOf /\ BouncedOf' = BouncedOf
    BY <1>2, <1>5 DEF DeliveredOf, BouncedOf, TransferMove, Live
  <2>2. QED
    BY <1>1, <2>1 DEF Ledger!vars, Owed, DeliveredOf, BouncedOf
<1>6. QED
  BY <1>3, <1>4, <1>5

\* A posting transaction is a write-off, a restoration, or (its claim lost) nothing.
LEMMA PostingImplements ==
  ASSUME Core, LedgerMatchesStatus, [Next]_vars, NEW p \in Payouts, NEW t \in Tasks,
         MarkSucceeded(p, t) \/ Unpay(p, t)
  PROVE  [Ledger!Next]_(Ledger!vars)
<1>1. UNCHANGED transfer
  BY DEF MarkSucceeded, Unpay, provider
<1>2. DeliveredOf' = DeliveredOf /\ BouncedOf' = BouncedOf
  BY <1>1 DEF DeliveredOf, BouncedOf
<1>3. \A q \in Payouts \ {p} : debits'[q] = debits[q] /\ credits'[q] = credits[q]
  BY DEF MarkSucceeded, Unpay, Core, TypeOK
<1>4. \A q \in Payouts : debits[q] \in Nat /\ credits[q] \in Nat
  BY DEF Core, TypeOK
<1>5. Posting(p)
  BY PostingStep
<1>6. CASE UNCHANGED <<debits[p], credits[p]>>
  <2>1. Owed' = Owed
    BY <1>3, <1>6 DEF Owed
  <2>2. QED
    BY <1>2, <2>1 DEF Ledger!vars, Owed, DeliveredOf, BouncedOf
<1>7. CASE status[p] # "SUCCESS" /\ debits'[p] = debits[p] + 1 /\ credits'[p] = credits[p]
           /\ Delivered(p, attempts[p])
  <2>1. debits[p] = credits[p]
    BY <1>4, <1>7 DEF LedgerMatchesStatus
  <2>2. Owed[p] = 1 /\ Owed' = [Owed EXCEPT ![p] = 0]
    <3>1. 1 - debits[p] + credits[p] = 1 /\ 1 - debits'[p] + credits'[p] = 0
      BY <1>4, <1>7, <2>1
    <3>2. \A q \in Payouts \ {p} : 1 - debits'[q] + credits'[q] = 1 - debits[q] + credits[q]
      BY <1>3
    <3>3. QED
      BY <3>1, <3>2 DEF Owed
  <2>3. DeliveredOf[p] # {}
    BY <1>7 DEF Delivered, DeliveredOf
  <2>4. Ledger!WriteOff(p)
    BY <1>2, <2>2, <2>3 DEF Ledger!WriteOff, Owed, DeliveredOf, BouncedOf
  <2>5. QED
    BY <2>4 DEF Ledger!Next
<1>8. CASE status[p] = "SUCCESS" /\ debits'[p] = debits[p] /\ credits'[p] = credits[p] + 1
           /\ transfer[p][attempts[p]] = "reversed" /\ attempts[p] \in Attempts
  <2>1. debits[p] = credits[p] + 1
    BY <1>8 DEF LedgerMatchesStatus
  <2>2. Owed[p] = 0 /\ Owed' = [Owed EXCEPT ![p] = 1]
    <3>1. 1 - debits[p] + credits[p] = 0 /\ 1 - debits'[p] + credits'[p] = 1
      BY <1>4, <1>8, <2>1
    <3>2. \A q \in Payouts \ {p} : 1 - debits'[q] + credits'[q] = 1 - debits[q] + credits[q]
      BY <1>3
    <3>3. QED
      BY <3>1, <3>2 DEF Owed
  <2>3. BouncedOf[p] # {}
    BY <1>8 DEF BouncedOf
  <2>4. Ledger!Restore(p)
    BY <1>2, <2>2, <2>3 DEF Ledger!Restore, Owed, DeliveredOf, BouncedOf
  <2>5. QED
    BY <2>4 DEF Ledger!Next
<1>9. CanUnpay(p, t) /\ At(p, t, "unpay") => attempts[p] \in Attempts
  BY DEF CanUnpay, At, Ref, Core, TasksOK, TaskOK
<1>10. QED
  BY <1>5, <1>6, <1>7, <1>8, <1>9 DEF Posting, MarkSucceeded, Unpay

\* The payout engine, whatever its queue, its tasks and the provider do, keeps the
\* promise of Obligation.
THEOREM Implementation == Spec => ImplementsObligation
<1>1. Init => Ledger!Init
  BY InitImplements
<1>2. IInv /\ [Next]_vars => [Ledger!Next]_(Ledger!vars)
  <2>1. SUFFICES ASSUME IInv, [Next]_vars PROVE [Ledger!Next]_(Ledger!vars)
    OBVIOUS
  <2>2. CASE UNCHANGED ledger /\ UNCHANGED transfer
    BY <2>2 DEF ledger, Ledger!vars
  <2>3. CASE UNCHANGED ledger /\ ~UNCHANGED transfer
    BY <2>1, <2>3, TransferStep, TransferImplements DEF IInv
  <2>4. CASE ~UNCHANGED ledger
    BY <2>1, <2>4, BooksStep, PostingImplements DEF IInv
  <2>5. QED
    BY <2>2, <2>3, <2>4
<1>3. QED
  BY <1>1, <1>2, Invariant, PTL DEF Spec, ImplementsObligation, Ledger!Spec

-----------------------------------------------------------------------------
(* One transfer at a time *)

\* Attempt n of the payout came late, or it moves no money and nobody is about to ask for it.
Over(p, n) ==
  \/ <<p, n>> \in early
  \/ /\ transfer[p][n] \in {"none", "failed", "reversed"}
     /\ \A u \in Tasks : At(p, u, "send") => Ref(p, u) # n

\* The attempts before the row's are over, and so is the one a job means to follow.
History ==
  /\ \A p \in Payouts : \A n \in Attempts : n < attempts[p] => Over(p, n)
  /\ \A p \in Payouts : \A t \in Tasks : \A n \in Attempts :
       At(p, t, "resolve") \/ At(p, t, "claim") => (Ref(p, t) = n => Over(p, n))

\* How a task's record may change: to a sender by a claim only; towards a claim only from
\* a row without a reference, or after the provider was asked about it.
Becomes(p, t, r) ==
  /\ r.pc = "send" => Claim(p, t) /\ r.ref = attempts[p] + 1
  /\ r.pc \in {"resolve", "claim"} =>
       \/ r.ref = 0
       \/ At(p, t, "resolve") /\ r.ref = Ref(p, t)
       \/ At(p, t, "verify") /\ r.pc = "resolve" /\ r.ref = Ref(p, t) /\ transfer[p][r.ref] \notin Live

\* A record on its way neither to a claim nor to a request.
Elsewhere(r) == r.pc \notin {"send", "resolve", "claim"}

\* A task that goes to another label, or returns.
LEMMA GoesElsewhere ==
  ASSUME Core, NEW p \in Payouts, NEW t \in Tasks, NEW label \in Labels,
         label \notin {"send", "resolve", "claim"}, Goto(p, t, label) \/ Leave(p, t)
  PROVE  \E r : task' = [task EXCEPT ![p][t] = r] /\ Elsewhere(r)
<1>1. CASE Goto(p, t, label)
  <2> DEFINE r == [task[p][t] EXCEPT !.pc = label]
  <2>1. r.pc = label
    BY DEF Core, TypeOK, TaskStates
  <2>2. task' = [task EXCEPT ![p][t] = r]
    BY <1>1 DEF Goto
  <2> HIDE DEF r
  <2>3. QED
    BY <2>1, <2>2 DEF Elsewhere
<1>2. CASE Leave(p, t)
  <2>1. task' = [task EXCEPT ![p][t] = IdleTask]
    BY <1>2 DEF Leave
  <2>2. Elsewhere(IdleTask)
    BY DEF IdleTask, Elsewhere
  <2>3. QED
    BY <2>1, <2>2
<1>3. QED
  BY <1>1, <1>2

\* A step of a task that is not one of the three that matter.
LEMMA OtherSteps ==
  ASSUME Core, NEW p \in Payouts, NEW t \in Tasks, Step(p, t) \/ Crash(p, t) \/ StartEvent(p, t),
         ~Verify(p, t), ~ResolveDestination(p, t), ~Claim(p, t)
  PROVE  \E r : task' = [task EXCEPT ![p][t] = r] /\ Elsewhere(r)
<1>1. CASE \/ Hold(p, t) \/ LoseClaim(p, t) \/ RequestFailed(p, t) \/ FlagForOperator(p, t)
           \/ MarkSucceeded(p, t) \/ ReopenedRetry(p, t) \/ MarkForReview(p, t) \/ Crash(p, t)
  <2>1. Leave(p, t)
    BY <1>1 DEF Hold, LoseClaim, RequestFailed, FlagForOperator, MarkSucceeded,
       ReopenedRetry, MarkForReview, Crash, Finish
  <2>2. "idle" \in Labels
    BY DEF Labels
  <2>3. QED
    BY <2>1, <2>2, GoesElsewhere
<1>2. CASE Reopen(p, t) \/ ReopenedExhausted(p, t) \/ Unpay(p, t) \/ InitiateTransfer(p, t)
  <2>1. \E label \in {"reopened", "review", "sent", "idle"} : Goto(p, t, label) \/ Leave(p, t)
    BY <1>2 DEF Reopen, ReopenedExhausted, Unpay, InitiateTransfer, Finish
  <2>2. QED
    BY <2>1, GoesElsewhere DEF Labels
<1>3. CASE Response(p, t) \/ InitiateBounced(p, t)
  <2>1. \E label \in {"succeed", "bounced", "flag", "unpay", "reopen", "idle"} :
          Goto(p, t, label) \/ Leave(p, t)
    <3>1. AfterInitiate(transfer[p][Ref(p, t)]) \in {"succeed", "bounced", "flag", "idle"}
      BY DEF AfterInitiate
    <3>2. AfterEventRead(p, Ref(p, t), "failed") \in {"succeed", "unpay", "reopen", "idle"}
      BY DEF AfterEventRead
    <3>3. QED
      BY <1>3, <3>1, <3>2 DEF Response, InitiateBounced, Proceed, Finish
  <2>2. QED
    BY <2>1, GoesElsewhere DEF Labels
<1>4. CASE StartEvent(p, t)
  <2>1. PICK n \in Attempts, outcome \in Outcomes :
          task' = [task EXCEPT ![p][t] =
            IF AfterEventRead(p, n, outcome) = "idle" THEN IdleTask
            ELSE [pc |-> AfterEventRead(p, n, outcome), kind |-> outcome,
                  ref |-> n, seen |-> status[p]]]
    BY <1>4 DEF StartEvent
  <2> DEFINE r == IF AfterEventRead(p, n, outcome) = "idle" THEN IdleTask
                  ELSE [pc |-> AfterEventRead(p, n, outcome), kind |-> outcome,
                        ref |-> n, seen |-> status[p]]
  <2>2. Elsewhere(r)
    BY DEF AfterEventRead, IdleTask, Elsewhere
  <2>3. task' = [task EXCEPT ![p][t] = r]
    BY <2>1
  <2> HIDE DEF r
  <2>4. QED
    BY <2>2, <2>3
<1>5. QED
  BY <1>1, <1>2, <1>3, <1>4 DEF Step

\* Every step changes one task's record so, or none.
LEMMA RecordStep ==
  ASSUME Core, [Next]_vars
  PROVE  \/ UNCHANGED task
         \/ \E p \in Payouts, t \in Tasks : \E r :
              task' = [task EXCEPT ![p][t] = r] /\ Becomes(p, t, r)
<1> DEFINE Moves(p, t) == \E r : task' = [task EXCEPT ![p][t] = r] /\ Becomes(p, t, r)
<1>1. ASSUME NEW p \in Payouts, NEW t \in Tasks, Claim(p, t) PROVE Moves(p, t)
  <2> DEFINE r == [task[p][t] EXCEPT !.pc = "send", !.ref = Ref(p, t) + 1]
  <2>1. r.pc = "send" /\ r.ref = Ref(p, t) + 1
    BY DEF Core, TypeOK, TaskStates
  <2>2. task' = [task EXCEPT ![p][t] = r] /\ Ref(p, t) = attempts[p]
    BY <1>1 DEF Claim, CanClaim
  <2> HIDE DEF r
  <2>3. QED
    BY <1>1, <2>1, <2>2 DEF Becomes
<1>2. ASSUME NEW p \in Payouts, NEW t \in Tasks, NEW label, Goto(p, t, label)
      PROVE  \E r : /\ task' = [task EXCEPT ![p][t] = r]
                    /\ r.pc = label /\ r.ref = Ref(p, t)
  <2> DEFINE r == [task[p][t] EXCEPT !.pc = label]
  <2>1. r.pc = label /\ r.ref = Ref(p, t)
    BY DEF Core, TypeOK, TaskStates, Ref
  <2>2. task' = [task EXCEPT ![p][t] = r]
    BY <1>2 DEF Goto
  <2> HIDE DEF r
  <2>3. QED
    BY <2>1, <2>2
<1>3. ASSUME NEW p \in Payouts, NEW t \in Tasks, ResolveDestination(p, t) PROVE Moves(p, t)
  <2>1. PICK r : /\ task' = [task EXCEPT ![p][t] = r]
                 /\ r.pc = AfterResolve(owner[p]) /\ r.ref = Ref(p, t)
    BY <1>2, <1>3 DEF ResolveDestination
  <2>2. AfterResolve(owner[p]) # "send"
    BY DEF AfterResolve
  <2>3. QED
    BY <1>3, <2>1, <2>2 DEF ResolveDestination, Becomes
<1>4. ASSUME NEW p \in Payouts, NEW t \in Tasks, Verify(p, t) PROVE Moves(p, t)
  <2> DEFINE s == transfer[p][Ref(p, t)]
  <2>1. AfterVerify(s) \in {"succeed", "flag", "idle", "resolve"}
    BY DEF AfterVerify
  <2>2. CASE AfterVerify(s) = "resolve"
    <3>1. s \notin Live
      BY <2>2 DEF AfterVerify, Live
    <3>2. Goto(p, t, "resolve")
      BY <1>4, <2>2 DEF Verify, Proceed
    <3>3. PICK r : task' = [task EXCEPT ![p][t] = r] /\ r.pc = "resolve" /\ r.ref = Ref(p, t)
      BY <1>2, <3>2
    <3>4. QED
      BY <1>4, <3>1, <3>3 DEF Verify, Becomes
  <2>3. CASE AfterVerify(s) # "resolve"
    <3>1. \E label \in {"succeed", "flag", "idle"} : Goto(p, t, label) \/ Leave(p, t)
      BY <1>4, <2>1, <2>3 DEF Verify, Proceed, Finish
    <3>2. QED
      BY <3>1, GoesElsewhere DEF Labels, Elsewhere, Becomes
  <2>4. QED
    BY <2>2, <2>3
<1>5. ASSUME NEW p \in Payouts, NEW t \in Tasks, StartJob(p, t) PROVE Moves(p, t)
  <2> DEFINE r == [pc |-> IF attempts[p] = 0 THEN "resolve" ELSE "verify",
                   kind |-> "job", ref |-> attempts[p], seen |-> status[p]]
  <2>1. task' = [task EXCEPT ![p][t] = r]
    BY <1>5 DEF StartJob
  <2>2. Becomes(p, t, r)
    BY DEF Becomes
  <2> HIDE DEF r
  <2>3. QED
    BY <2>1, <2>2
<1>6. ASSUME NEW p \in Payouts, NEW t \in Tasks, Step(p, t) \/ Crash(p, t) \/ StartEvent(p, t)
      PROVE  Moves(p, t)
  <2>1. CASE Verify(p, t) \/ ResolveDestination(p, t) \/ Claim(p, t)
    BY <1>1, <1>3, <1>4, <2>1
  <2>2. CASE ~(Verify(p, t) \/ ResolveDestination(p, t) \/ Claim(p, t))
    BY <1>6, <2>2, OtherSteps DEF Elsewhere, Becomes
  <2>3. QED
    BY <2>1, <2>2
<1>7. ASSUME NEW p \in Payouts, NEW n \in Attempts, Advance(p, n) \/ HumanAction(p, n) \/ Setback(p, n)
      PROVE  UNCHANGED task
  BY <1>7 DEF Advance, HumanAction, Setback, Transition
<1>8. ASSUME NEW p \in Payouts,
             SkipJob(p) \/ RetryPayout(p) \/ StallJob(p) \/ \E o \in Owners : SetOwner(p, o)
      PROVE  UNCHANGED task
  BY <1>8 DEF SkipJob, RetryPayout, StallJob, SetOwner
<1>9. LoseEvent \/ RepeatEvent \/ Sweep \/ UNCHANGED vars => UNCHANGED task
  BY DEF LoseEvent, RepeatEvent, Sweep, vars
<1> HIDE DEF Moves
<1>10. UNCHANGED task \/ \E p \in Payouts, t \in Tasks : Moves(p, t)
  BY <1>5, <1>6, <1>7, <1>8, <1>9 DEF Next, Environment
<1>11. QED
  BY <1>10 DEF Moves

\* A transfer is asked for by a task that was about to, and a dead one stays dead.
LEMMA DeadStays ==
  ASSUME Core, [Next]_vars, NEW p \in Payouts, NEW n \in Attempts,
         transfer[p][n] \in {"none", "failed", "reversed"},
         \A u \in Tasks : At(p, u, "send") => Ref(p, u) # n
  PROVE  transfer'[p][n] = transfer[p][n]
<1>1. ASSUME NEW q \in Payouts, NEW t \in Tasks, InitiateTransfer(q, t)
      PROVE  transfer'[p][n] = transfer[p][n]
  BY <1>1 DEF InitiateTransfer, Core, TypeOK
<1>2. ASSUME NEW q \in Payouts, NEW m \in Attempts, Advance(q, m) \/ HumanAction(q, m) \/ Setback(q, m)
      PROVE  transfer'[p][n] = transfer[p][n]
  <2>1. \E s : transfer' = [transfer EXCEPT ![q][m] = s]
    BY <1>2 DEF Advance, HumanAction, Setback, Transition
  <2>2. transfer[q][m] \notin {"none", "failed", "reversed"}
    BY <1>2 DEF Advance, HumanAction, Setback, Live
  <2>3. QED
    BY <2>1, <2>2 DEF Core, TypeOK
<1>3. ASSUME NEW q \in Payouts, NEW t \in Tasks, Step(q, t), ~InitiateTransfer(q, t)
      PROVE  UNCHANGED transfer
  BY <1>3 DEF Step, Verify, ResolveDestination, Hold, Claim, LoseClaim, Response, RequestFailed,
       FlagForOperator, InitiateBounced, MarkSucceeded, Unpay, Reopen, ReopenedExhausted,
       ReopenedRetry, MarkForReview, provider
<1>4. ASSUME NEW q \in Payouts, NEW t \in Tasks, StartJob(q, t) \/ StartEvent(q, t) \/ Crash(q, t)
      PROVE  UNCHANGED transfer
  BY <1>4 DEF StartJob, StartEvent, Crash, provider
<1>5. ASSUME NEW q \in Payouts,
             SkipJob(q) \/ RetryPayout(q) \/ StallJob(q) \/ \E o \in Owners : SetOwner(q, o)
      PROVE  UNCHANGED transfer
  BY <1>5 DEF SkipJob, RetryPayout, StallJob, SetOwner, provider
<1>6. LoseEvent \/ RepeatEvent \/ Sweep \/ UNCHANGED vars => UNCHANGED transfer
  BY DEF LoseEvent, RepeatEvent, Sweep, vars, provider
<1>7. QED
  BY <1>1, <1>2, <1>3, <1>4, <1>5, <1>6 DEF Next, Environment

\* What is over stays over.
LEMMA OverStays ==
  ASSUME Core, [HistoryNext]_historyVars, NEW p \in Payouts, NEW n \in Attempts,
         n <= attempts[p], Over(p, n)
  PROVE  Over(p, n)'
<1>1. [Next]_vars /\ early \subseteq early'
  BY DEF HistoryNext, historyVars
<1>2. CASE <<p, n>> \in early
  BY <1>1, <1>2 DEF Over
<1>3. CASE <<p, n>> \notin early
  <2>1. transfer'[p][n] = transfer[p][n] /\ transfer[p][n] \in {"none", "failed", "reversed"}
    BY <1>1, <1>3, DeadStays DEF Over
  <2>2. ASSUME NEW u \in Tasks, task'[p][u].pc = "send" PROVE task'[p][u].ref # n
    <3>1. CASE UNCHANGED task
      BY <1>3, <2>2, <3>1 DEF Over, At, Ref
    <3>2. ASSUME NEW q \in Payouts, NEW t \in Tasks, NEW r,
                 task' = [task EXCEPT ![q][t] = r], Becomes(q, t, r)
          PROVE  task'[p][u].ref # n
      <4>1. CASE q = p /\ t = u
        <5>1. task'[p][u] = r
          BY <3>2, <4>1 DEF Core, TypeOK
        <5>2. r.ref = attempts[p] + 1
          BY <2>2, <3>2, <4>1, <5>1 DEF Becomes
        <5>3. attempts[p] \in Nat /\ n \in Nat
          BY DEF Core, TypeOK, Attempts
        <5>4. QED
          BY <5>1, <5>2, <5>3
      <4>2. CASE ~(q = p /\ t = u)
        <5>1. task'[p][u] = task[p][u]
          BY <3>2, <4>2 DEF Core, TypeOK
        <5>2. QED
          BY <1>3, <2>2, <5>1 DEF Over, At, Ref
      <4>3. QED
        BY <4>1, <4>2
    <3>3. QED
      BY <1>1, <3>1, <3>2, RecordStep
  <2>3. QED
    BY <2>1, <2>2 DEF Over, At, Ref
<1>4. QED
  BY <1>2, <1>3

\* A job that asked about an attempt and goes on has found it over, or takes it for dead early.
LEMMA AskedIsOver ==
  ASSUME Core, [HistoryNext]_historyVars, NEW p \in Payouts, NEW t \in Tasks, NEW n \in Attempts,
         At(p, t, "verify"), Ref(p, t) = n, task'[p][t].pc = "resolve", transfer[p][n] \notin Live,
         n <= attempts[p]
  PROVE  Over(p, n)'
<1>1. task'[p][t] # task[p][t]
  BY DEF At
<1>2. HistoryNext /\ TakenForDead(p, n)
  BY <1>1 DEF HistoryNext, historyVars, vars, TakenForDead
<1>3. CASE RequestToCome(p, n)
  <2>1. <<p, n>> \in early'
    BY <1>2, <1>3 DEF HistoryNext
  <2>2. QED
    BY <2>1 DEF Over
<1>4. CASE ~RequestToCome(p, n)
  <2>1. transfer[p][n] \in {"none", "failed", "reversed"}
    BY <1>4 DEF RequestToCome, Core, TypeOK, TransferStates, Outcomes, Live
  <2>2. Over(p, n)
    BY <1>4, <2>1 DEF RequestToCome, Over
  <2>3. QED
    BY <2>2, OverStays
<1>5. QED
  BY <1>3, <1>4

\* Only a claim changes the attempts.
LEMMA AttemptsStep ==
  ASSUME [Next]_vars, attempts' # attempts
  PROVE  \E p \in Payouts : \E t \in Tasks : Claim(p, t)
<1>1. ASSUME NEW p \in Payouts, NEW t \in Tasks, Step(p, t), ~Claim(p, t)
      PROVE  attempts' = attempts
  BY <1>1 DEF Step, row, provider, Verify, ResolveDestination, Hold, LoseClaim,
       InitiateTransfer, Response, RequestFailed, FlagForOperator, InitiateBounced, MarkSucceeded,
       Unpay, Reopen, ReopenedExhausted, ReopenedRetry, MarkForReview, Transition
<1>2. Environment => attempts' = attempts
  <2>1. \A p \in Payouts, n \in Attempts :
          Advance(p, n) \/ HumanAction(p, n) \/ Setback(p, n) => attempts' = attempts
    BY DEF Advance, HumanAction, Setback, Transition, row
  <2>2. \A p \in Payouts, o \in Owners : SetOwner(p, o) => attempts' = attempts
    BY DEF SetOwner, row
  <2>3. \A p \in Payouts : StallJob(p) \/ (\E t \in Tasks : Crash(p, t)) => attempts' = attempts
    BY DEF StallJob, Crash, row
  <2>4. LoseEvent \/ RepeatEvent => attempts' = attempts
    BY DEF LoseEvent, RepeatEvent, row
  <2>5. QED
    BY <2>1, <2>2, <2>3, <2>4 DEF Environment
<1>3. Sweep => attempts' = attempts
  BY DEF Sweep, row, provider
<1>4. \A p \in Payouts : SkipJob(p) \/ RetryPayout(p) => attempts' = attempts
  BY DEF SkipJob, RetryPayout, Transition, row, provider
<1>5. \A p \in Payouts, t \in Tasks : StartJob(p, t) \/ StartEvent(p, t) => attempts' = attempts
  BY DEF StartJob, StartEvent, row, provider
<1>6. QED
  BY <1>1, <1>2, <1>3, <1>4, <1>5 DEF Next, vars, row

\* Every step preserves it, in every environment.
LEMMA HistoryStep ==
  ASSUME Core, History, [HistoryNext]_historyVars
  PROVE  History'
<1>1. [Next]_vars
  BY DEF HistoryNext, historyVars
<1>2. ASSUME NEW p \in Payouts, NEW n \in Attempts, n < attempts'[p] PROVE Over(p, n)'
  <2>1. attempts[p] \in Nat /\ n \in Nat /\ n # 0
    BY DEF Core, TypeOK, Attempts
  <2>2. CASE n < attempts[p]
    BY <2>1, <2>2, OverStays DEF History
  <2>3. CASE ~(n < attempts[p])
    <3>1. PICK q \in Payouts, t \in Tasks : Claim(q, t)
      BY <1>1, <1>2, <2>3, AttemptsStep
    <3>2. q = p /\ attempts'[p] = attempts[p] + 1 /\ Ref(p, t) = attempts[p] /\ At(p, t, "claim")
      BY <1>2, <2>3, <3>1 DEF Claim, CanClaim, Core, TypeOK
    <3>3. n = attempts[p]
      BY <1>2, <2>1, <2>3, <3>2
    <3>4. Over(p, n)
      BY <3>2, <3>3 DEF History
    <3>5. QED
      BY <2>1, <3>3, <3>4, OverStays
  <2>4. QED
    BY <2>2, <2>3
<1>3. ASSUME NEW p \in Payouts, NEW t \in Tasks, NEW n \in Attempts,
             task'[p][t].pc \in {"resolve", "claim"}, task'[p][t].ref = n
      PROVE  Over(p, n)'
  <2>1. ASSUME task'[p][t] = task[p][t] PROVE Over(p, n)'
    <3>1. Over(p, n)
      BY <1>3, <2>1 DEF History, At, Ref
    <3>2. n <= attempts[p]
      BY <1>3, <2>1 DEF Core, TasksOK, TaskOK
    <3>3. QED
      BY <3>1, <3>2, OverStays
  <2>2. ASSUME NEW q \in Payouts, NEW u \in Tasks, NEW r,
               task' = [task EXCEPT ![q][u] = r], Becomes(q, u, r)
        PROVE  Over(p, n)'
    <3>1. CASE q = p /\ u = t
      <4>1. task'[p][t] = r
        BY <2>2, <3>1 DEF Core, TypeOK
      <4>2. r.ref # 0
        BY <1>3, <4>1 DEF Attempts
      <4>3. Ref(p, t) = n /\ n <= attempts[p]
        BY <1>3, <2>2, <3>1, <4>1, <4>2 DEF Becomes, Ref, Core, TasksOK, TaskOK
      <4>4. CASE At(p, t, "resolve")
        <5>1. Over(p, n)
          BY <4>3, <4>4 DEF History
        <5>2. QED
          BY <4>3, <5>1, OverStays
      <4>5. CASE At(p, t, "verify") /\ r.pc = "resolve" /\ transfer[p][r.ref] \notin Live
        BY <1>3, <4>1, <4>3, <4>5, AskedIsOver
      <4>6. QED
        BY <1>3, <2>2, <3>1, <4>1, <4>2, <4>4, <4>5 DEF Becomes
    <3>2. CASE ~(q = p /\ u = t)
      <4>1. task'[p][t] = task[p][t]
        BY <2>2, <3>2 DEF Core, TypeOK
      <4>2. QED
        BY <2>1, <4>1
    <3>3. QED
      BY <3>1, <3>2
  <2>3. QED
    BY <1>1, <2>1, <2>2, RecordStep
<1>4. QED
  BY <1>2, <1>3 DEF History, At, Ref

\* The history variable adds nothing to the engine's behaviours.
LEMMA HistoryIsPayout == HistorySpec => Spec
<1>1. [HistoryNext]_historyVars => [Next]_vars
  BY DEF HistoryNext, historyVars
<1>2. QED
  BY <1>1, PTL DEF HistorySpec, HistoryInit, Spec

\* What the steps of the engine with its memory preserve.
THEOREM HistoryKept == HistorySpec => [](Core /\ History)
<1>1. Init => History
  BY DEF Init, History, IdleTask, At, Attempts
<1>2. Core /\ History /\ [HistoryNext]_historyVars => History'
  BY HistoryStep
<1>3. QED
  BY <1>1, <1>2, HistoryIsPayout, CoreInvariant, PTL DEF HistorySpec, HistoryInit

\* The attempts that moved money, or may yet, are the row's, or came late.
LEMMA StraysCameLate == ASSUME Core, History PROVE StrayTransfersCameLate
<1>1. ASSUME NEW p \in Payouts, NEW n \in Attempts, transfer[p][n] \in Live \cup {"inflight"},
             <<p, n>> \notin early
      PROVE  n = attempts[p]
  <2>1. transfer[p][n] \notin {"none", "failed", "reversed"}
    BY <1>1 DEF Live
  <2>2. ~(n < attempts[p])
    BY <1>1, <2>1 DEF History, Over
  <2>3. ~(n > attempts[p])
    BY <2>1 DEF Core, ReferenceBeforeRequest
  <2>4. n \in Int /\ attempts[p] \in Int
    BY DEF Core, TypeOK, Attempts
  <2>5. QED
    BY <2>2, <2>3, <2>4
<1>2. QED
  BY <1>1 DEF StrayTransfersCameLate

\* In every environment, with requests that land late and jobs that run twice: a transfer
\* that moves money, or may yet, is the one the row names, unless the attempt was taken for
\* dead before its request had landed (processPayout asks the provider, who does not know
\* the reference yet).
THEOREM LiveTransferOnTheRow == HistorySpec => []StrayTransfersCameLate
BY HistoryKept, StraysCameLate, PTL

\* So a payout is transferred twice in that one way only: of two of its transfers that both
\* move money, one was asked about too early.
THEOREM NoDoublePayment == HistorySpec => []DoubleTransfersCameLate
<1>1. StrayTransfersCameLate => DoubleTransfersCameLate
  BY DEF StrayTransfersCameLate, DoubleTransfersCameLate
<1>2. QED
  BY <1>1, LiveTransferOnTheRow, PTL

\* And a new attempt is claimed only when every earlier one is over, or came late.
THEOREM NewAttemptsFollowDeadTransfers == HistorySpec => AttemptsFollowTheDead
<1> DEFINE Fresh(p) == attempts'[p] # attempts[p] =>
             /\ attempts'[p] = attempts[p] + 1
             /\ \A n \in Attempts : <<p, n>> \in early \/
                  /\ transfer[p][n] \in {"none", "failed", "reversed"}
                  /\ \A t \in Tasks : At(p, t, "send") => Ref(p, t) # n
<1>1. ASSUME Core, History, [HistoryNext]_historyVars PROVE \A p \in Payouts : Fresh(p)
  <2>1. CASE attempts' = attempts
    BY <2>1
  <2>2. CASE attempts' # attempts
    <3>1. [Next]_vars
      BY <1>1 DEF HistoryNext, historyVars
    <3>2. PICK p \in Payouts, t \in Tasks : Claim(p, t)
      BY <2>2, <3>1, AttemptsStep
    <3>3. At(p, t, "claim") /\ Ref(p, t) = attempts[p]
      BY <3>2 DEF Claim, CanClaim
    <3>4. ASSUME NEW n \in Attempts PROVE Over(p, n)
      <4>1. CASE n < attempts[p]
        BY <1>1, <4>1 DEF History
      <4>2. CASE n = attempts[p]
        BY <1>1, <3>3, <4>2 DEF History
      <4>3. CASE n > attempts[p]
        <5>1. transfer[p][n] = "none"
          BY <1>1, <4>3 DEF Core, ReferenceBeforeRequest
        <5>2. ASSUME NEW u \in Tasks PROVE Ref(p, u) # n
          BY <1>1, <4>3 DEF Core, TypeOK, TaskStates, TasksOK, TaskOK, Ref, Attempts
        <5>3. QED
          BY <5>1, <5>2 DEF Over
      <4>4. n \in Int /\ attempts[p] \in Int
        BY <1>1 DEF Core, TypeOK, Attempts
      <4>5. QED
        BY <4>1, <4>2, <4>3, <4>4
    <3>5. \A q \in Payouts : attempts'[q] = IF q = p THEN attempts[p] + 1 ELSE attempts[q]
      BY <1>1, <3>2 DEF Claim, CanClaim, Core, TypeOK
    <3>6. QED
      BY <3>4, <3>5 DEF Over
  <2>3. QED
    BY <2>1, <2>2
<1>2. QED
  BY <1>1, HistoryKept, PTL DEF HistorySpec, HistoryInit, AttemptsFollowTheDead

-----------------------------------------------------------------------------
(* What the handler of a refusal knows *)

\* A task that takes an attempt back, or is about to, was told so of a transfer that did
\* fail or bounce.
TaskTold(p, r) ==
  /\ r.kind = "failed" => transfer[p][r.ref] = "failed"
  /\ r.pc \in {"bounced", "reopen"} =>
       r.ref \in Attempts /\ transfer[p][r.ref] \in {"failed", "reversed"}

\* A webhook of a failure tells the truth.
FailuresTold ==
  \A p \in Payouts : \A n \in Attempts :
    <<p, n, "failed">> \in events => transfer[p][n] = "failed"

Told == FailuresTold /\ \A p \in Payouts : \A t \in Tasks : TaskTold(p, task[p][t])

\* A transfer that failed or came back stays so.
LEMMA RefusedStays ==
  ASSUME Core, [Next]_vars, NEW p \in Payouts, NEW n \in Attempts,
         transfer[p][n] \in {"failed", "reversed"}
  PROVE  transfer'[p][n] = transfer[p][n]
<1>1. CASE UNCHANGED transfer
  BY <1>1
<1>2. ASSUME NEW q \in Payouts, NEW m \in Attempts, NEW s \in TransferStates, TransferMove(q, m, s)
      PROVE  transfer'[p][n] = transfer[p][n]
  BY <1>2 DEF TransferMove, Core, TypeOK
<1>3. QED
  BY <1>1, <1>2, TransferStep

\* What a task that does not move was told stays true.
LEMMA ToldRests ==
  ASSUME Core, Told, [Next]_vars, NEW p \in Payouts, NEW t \in Tasks, task'[p][t] = task[p][t]
  PROVE  TaskTold(p, task[p][t])'
<1>1. TaskOK(p, task[p][t]) /\ TaskTold(p, task[p][t])
  BY DEF Core, TasksOK, Told
<1>2. task[p][t].kind = "failed" => task[p][t].ref \in Attempts
  BY <1>1 DEF TaskOK
<1>3. QED
  BY <1>1, <1>2, RefusedStays DEF TaskTold

\* One task takes a record it is entitled to; the webhooks are no more than before.
LEMMA ToldMoves ==
  ASSUME Core, Told, [Next]_vars, NEW p \in Payouts, NEW t \in Tasks, NEW r,
         task' = [task EXCEPT ![p][t] = r], TaskTold(p, r),
         r.kind = "failed" => r.ref \in Attempts, FailuresTold'
  PROVE  Told'
<1>1. \A q \in Payouts : \A u \in Tasks : task'[q][u] = IF q = p /\ u = t THEN r ELSE task[q][u]
  BY DEF Core, TypeOK
<1>2. TaskTold(p, r)'
  BY RefusedStays DEF TaskTold
<1>3. ASSUME NEW q \in Payouts, NEW u \in Tasks PROVE TaskTold(q, task[q][u])'
  <2>1. CASE q = p /\ u = t
    BY <1>1, <1>2, <2>1
  <2>2. CASE ~(q = p /\ u = t)
    BY <1>1, <2>2, ToldRests
  <2>3. QED
    BY <2>1, <2>2
<1>4. QED
  BY <1>3 DEF Told

\* It may return,
LEMMA ToldLeaves ==
  ASSUME Core, Told, [Next]_vars, NEW p \in Payouts, NEW t \in Tasks, Leave(p, t), FailuresTold'
  PROVE  Told'
<1>1. TaskTold(p, IdleTask) /\ IdleTask.kind # "failed"
  BY DEF TaskTold, IdleTask
<1>2. QED
  BY <1>1, ToldMoves DEF Leave

\* or go on, to taking the attempt back only if that attempt failed or bounced.
LEMMA ToldGoes ==
  ASSUME Core, Told, [Next]_vars, NEW p \in Payouts, NEW t \in Tasks, NEW label,
         Goto(p, t, label), FailuresTold',
         label \in {"bounced", "reopen"} =>
           Ref(p, t) \in Attempts /\ transfer[p][Ref(p, t)] \in {"failed", "reversed"}
  PROVE  Told'
<1> DEFINE r == [task[p][t] EXCEPT !.pc = label]
<1>1. task[p][t] \in TaskStates /\ TaskOK(p, task[p][t]) /\ TaskTold(p, task[p][t])
  BY DEF Core, TypeOK, TasksOK, Told
<1>2. r.pc = label /\ r.kind = task[p][t].kind /\ r.ref = task[p][t].ref
  BY <1>1 DEF TaskStates
<1>3. TaskTold(p, r) /\ (r.kind = "failed" => r.ref \in Attempts)
  BY <1>1, <1>2 DEF TaskTold, TaskOK, Ref
<1>4. task' = [task EXCEPT ![p][t] = r]
  BY DEF Goto
<1> HIDE DEF r
<1>5. QED
  BY <1>3, <1>4, ToldMoves

\* Webhooks that were there stay true.
LEMMA FailuresStay ==
  ASSUME Core, Told, [Next]_vars, events' \subseteq events
  PROVE  FailuresTold'
BY RefusedStays DEF Told, FailuresTold

\* So do those of a provider that announces what it does.
LEMMA FailuresAnnounced ==
  ASSUME Core, Told, [Next]_vars, NEW p \in Payouts, NEW n \in Attempts, NEW s,
         Transition(p, n, s)
  PROVE  FailuresTold'
<1>1. ASSUME NEW q \in Payouts, NEW m \in Attempts, <<q, m, "failed">> \in events'
      PROVE  transfer'[q][m] = "failed"
  <2>1. CASE <<q, m, "failed">> \in events
    BY <2>1, RefusedStays DEF Told, FailuresTold
  <2>2. CASE <<q, m, "failed">> = <<p, n, s>>
    BY <2>2 DEF Transition, Core, TypeOK
  <2>3. QED
    BY <1>1, <2>1, <2>2 DEF Transition
<1>2. QED
  BY <1>1 DEF FailuresTold

\* Every step of the engine and of its environment keeps this.
LEMMA ToldStep ==
  ASSUME Core, Told, [Next]_vars
  PROVE  Told'
<1>1. ASSUME NEW p \in Payouts, NEW t \in Tasks, NEW label, Proceed(p, t, label), FailuresTold',
             label \in {"bounced", "reopen"} =>
               Ref(p, t) \in Attempts /\ transfer[p][Ref(p, t)] \in {"failed", "reversed"}
      PROVE  Told'
  BY <1>1, ToldGoes, ToldLeaves DEF Proceed, Finish
<1>2. ASSUME NEW p \in Payouts, NEW t \in Tasks, Step(p, t)
      PROVE  Told'
  <2>1. FailuresTold'
    <3>1. events' \subseteq events
      BY <1>2 DEF Step, Verify, ResolveDestination, Hold, Claim, LoseClaim, InitiateTransfer,
         Response, RequestFailed, FlagForOperator, InitiateBounced, MarkSucceeded, Unpay, Reopen,
         ReopenedExhausted, ReopenedRetry, MarkForReview, provider
    <3>2. QED
      BY <3>1, FailuresStay
  <2>2. CASE Verify(p, t)
    <3>1. AfterVerify(transfer[p][Ref(p, t)]) \notin {"bounced", "reopen"}
      BY DEF AfterVerify
    <3>2. QED
      BY <1>1, <2>1, <2>2, <3>1 DEF Verify
  <2>3. CASE ResolveDestination(p, t)
    <3>1. AfterResolve(owner[p]) \notin {"bounced", "reopen"}
      BY DEF AfterResolve, Core, TypeOK, Owners
    <3>2. QED
      BY <2>1, <2>3, <3>1, ToldGoes DEF ResolveDestination
  <2>4. CASE Hold(p, t) \/ LoseClaim(p, t) \/ RequestFailed(p, t) \/ FlagForOperator(p, t)
             \/ MarkSucceeded(p, t) \/ ReopenedRetry(p, t) \/ MarkForReview(p, t)
    BY <2>1, <2>4, ToldLeaves DEF Hold, LoseClaim, RequestFailed, FlagForOperator, MarkSucceeded,
       ReopenedRetry, MarkForReview, Finish
  <2>5. CASE Claim(p, t)
    <3> DEFINE r == [task[p][t] EXCEPT !.pc = "send", !.ref = Ref(p, t) + 1]
    <3>1. task[p][t] \in TaskStates /\ TaskOK(p, task[p][t]) /\ task[p][t].pc = "claim"
      BY <2>5 DEF Core, TypeOK, TasksOK, Claim, At
    <3>2. r.kind = "job" /\ r.pc = "send"
      BY <3>1 DEF TaskStates, TaskOK, BeforeClaim
    <3>3. task' = [task EXCEPT ![p][t] = r]
      BY <2>5 DEF Claim
    <3>4. TaskTold(p, r)
      BY <3>2 DEF TaskTold
    <3> HIDE DEF r
    <3>5. QED
      BY <2>1, <3>2, <3>3, <3>4, ToldMoves
  <2>6. CASE InitiateTransfer(p, t) \/ Reopen(p, t) \/ ReopenedExhausted(p, t)
    <3>1. PICK label \in {"sent", "reopened", "review"} : Goto(p, t, label)
      BY <2>6 DEF InitiateTransfer, Reopen, ReopenedExhausted
    <3>2. QED
      BY <2>1, <3>1, ToldGoes
  <2>7. CASE Response(p, t)
    <3> DEFINE s == transfer[p][Ref(p, t)]
    <3>1. AfterInitiate(s) \in {"bounced", "reopen"} => s \in {"failed", "reversed"}
      BY DEF AfterInitiate
    <3>2. Ref(p, t) \in Attempts
      BY <2>7 DEF Response, At, Ref, Core, TasksOK, TaskOK
    <3>3. QED
      BY <1>1, <2>1, <2>7, <3>1, <3>2 DEF Response
  <2>8. CASE InitiateBounced(p, t)
    <3>1. Ref(p, t) \in Attempts /\ transfer[p][Ref(p, t)] \in {"failed", "reversed"}
      BY <2>8 DEF InitiateBounced, At, Ref, Told, TaskTold
    <3>2. QED
      BY <1>1, <2>1, <2>8, <3>1 DEF InitiateBounced
  <2>9. CASE Unpay(p, t)
    BY <2>1, <2>9, ToldGoes, ToldLeaves DEF Unpay, Finish
  <2>10. QED
    BY <1>2, <2>2, <2>3, <2>4, <2>5, <2>6, <2>7, <2>8, <2>9 DEF Step
<1>3. ASSUME NEW p \in Payouts, NEW t \in Tasks, StartJob(p, t) PROVE Told'
  <2> DEFINE r == [pc |-> IF attempts[p] = 0 THEN "resolve" ELSE "verify",
                   kind |-> "job", ref |-> attempts[p], seen |-> status[p]]
  <2>1. task' = [task EXCEPT ![p][t] = r] /\ UNCHANGED events
    BY <1>3 DEF StartJob, provider
  <2>2. TaskTold(p, r) /\ r.kind # "failed"
    BY DEF TaskTold
  <2>3. FailuresTold'
    BY <2>1, FailuresStay
  <2> HIDE DEF r
  <2>4. QED
    BY <2>1, <2>2, <2>3, ToldMoves
<1>4. ASSUME NEW p \in Payouts, NEW t \in Tasks, StartEvent(p, t) PROVE Told'
  <2>1. PICK n \in Attempts, outcome \in Outcomes :
          /\ <<p, n, outcome>> \in events
          /\ events' = events \ {<<p, n, outcome>>}
          /\ task' = [task EXCEPT ![p][t] =
               IF AfterEventRead(p, n, outcome) = "idle" THEN IdleTask
               ELSE [pc |-> AfterEventRead(p, n, outcome), kind |-> outcome,
                     ref |-> n, seen |-> status[p]]]
    BY <1>4 DEF StartEvent
  <2> DEFINE label == AfterEventRead(p, n, outcome)
             r == [pc |-> label, kind |-> outcome, ref |-> n, seen |-> status[p]]
  <2>2. FailuresTold'
    BY <2>1, FailuresStay
  <2>3. CASE label = "idle"
    BY <2>1, <2>2, <2>3, ToldLeaves DEF Leave
  <2>4. CASE label # "idle"
    <3>1. /\ outcome = "failed" => transfer[p][n] = "failed"
          /\ outcome = "reversed" => transfer[p][n] = "reversed"
      BY <2>1 DEF Told, FailuresTold, Core, EventsOK
    <3>2. label \in {"bounced", "reopen"} => outcome # "success"
      BY DEF AfterEventRead
    <3>3. TaskTold(p, r)
      BY <3>1, <3>2 DEF TaskTold, Outcomes
    <3>4. task' = [task EXCEPT ![p][t] = r] /\ r.ref \in Attempts
      BY <2>1, <2>4
    <3> HIDE DEF r
    <3>5. QED
      BY <2>2, <3>3, <3>4, ToldMoves
  <2>5. QED
    BY <2>3, <2>4
<1>5. ASSUME NEW p \in Payouts, NEW t \in Tasks, Crash(p, t) PROVE Told'
  <2>1. TaskOK(p, task[p][t]) /\ TaskTold(p, task[p][t]) /\ Leave(p, t) /\ UNCHANGED transfer
    BY <1>5 DEF Core, TasksOK, Told, Crash
  <2>2. events' \subseteq events \cup {<<p, Ref(p, t), task[p][t].kind>>}
    BY <1>5 DEF Crash
  <2>3. FailuresTold'
    BY <2>1, <2>2 DEF Told, FailuresTold, TaskTold, Ref
  <2>4. QED
    BY <2>1, <2>3, ToldLeaves
<1>6. ASSUME UNCHANGED task, FailuresTold' PROVE Told'
  BY <1>6, ToldRests DEF Told
<1>7. ASSUME NEW p \in Payouts, SkipJob(p) \/ RetryPayout(p) \/ StallJob(p) \/ \E o \in Owners : SetOwner(p, o)
      PROVE  Told'
  BY <1>6, <1>7, FailuresStay DEF SkipJob, RetryPayout, StallJob, SetOwner, provider
<1>8. ASSUME NEW p \in Payouts, NEW n \in Attempts, Advance(p, n) \/ HumanAction(p, n) \/ Setback(p, n)
      PROVE  Told'
  <2>1. PICK s : Transition(p, n, s)
    BY <1>8 DEF Advance, HumanAction, Setback
  <2>2. UNCHANGED task
    BY <2>1 DEF Transition
  <2>3. QED
    BY <1>6, <2>1, <2>2, FailuresAnnounced
<1>9. CASE RepeatEvent
  <2>1. UNCHANGED <<task, transfer>>
    BY <1>9 DEF RepeatEvent
  <2>2. FailuresTold'
    BY <1>9, <2>1 DEF RepeatEvent, Told, FailuresTold
  <2>3. QED
    BY <1>6, <2>1, <2>2
<1>10. CASE LoseEvent \/ Sweep \/ UNCHANGED vars
  BY <1>6, <1>10, FailuresStay DEF LoseEvent, Sweep, vars, provider
<1>11. QED
  BY <1>2, <1>3, <1>4, <1>5, <1>7, <1>8, <1>9, <1>10 DEF Next, Environment
-----------------------------------------------------------------------------
(* What a step does to a row and to the transfer it waits for *)

\* The transfer of the row's latest attempt, as Books tells them apart: "requested" from
\* the claim until the request has landed or is lost.
Current(p) == IF attempts[p] = 0 THEN "none" ELSE transfer[p][attempts[p]]
Sending(p) == \E t \in Tasks : At(p, t, "send")

LastTransfer(p) ==
  IF Current(p) = "none" THEN IF Sending(p) THEN "requested" ELSE "none"
  ELSE IF Current(p) = "inflight" THEN "requested"
  ELSE IF Current(p) \in {"pending", "requires_action"} THEN "out"
  ELSE IF Current(p) = "success" THEN "delivered"
  ELSE IF Current(p) = "failed" THEN "failed"
  ELSE "bounced"

Gone == {"out", "delivered"}
Dead == {"none", "failed", "bounced"}

\* A step changes the status of one row, for one of these reasons,
StatusMoves(s, l, s2) ==
  \/ s \in Open /\ s2 = "QUEUED"
  \/ s # "SUCCESS" /\ l \in {"delivered", "bounced"} /\ s2 = "SUCCESS"
  \/ s = "SUCCESS" /\ l = "bounced" /\ s2 = "RETRYING"
  \/ s # "SUCCESS" /\ l \in {"failed", "bounced"} /\ s2 = "RETRYING"
  \/ s # "SUCCESS" /\ s2 = "FAILED"
  \/ s = "FAILED" /\ s2 = "RETRYING"

\* or what became of its transfer,
TransferMoves(l, l2) ==
  \/ l = "requested" /\ l2 \in {"out", "delivered", "none"}
  \/ l = "out" /\ l2 \in {"delivered", "failed"}
  \/ l = "delivered" /\ l2 = "bounced"

\* or both when a new attempt is claimed.
RowMoves(p) ==
  \/ StatusMoves(status[p], LastTransfer(p), status'[p]) /\ LastTransfer(p)' = LastTransfer(p)
  \/ TransferMoves(LastTransfer(p), LastTransfer(p)') /\ status'[p] = status[p]
  \/ /\ status[p] \in Open /\ LastTransfer(p) \in Dead
     /\ status'[p] = "PROCESSING" /\ LastTransfer(p)' = "requested"

RowRests(p) == status'[p] = status[p] /\ LastTransfer(p)' = LastTransfer(p)

\* What the transfer a row waits for depends on.
LEMMA TransferRests ==
  ASSUME NEW p \in Payouts, Current(p)' = Current(p),
         Current(p) = "none" => (Sending(p)' <=> Sending(p))
  PROVE  LastTransfer(p)' = LastTransfer(p)
BY DEF LastTransfer

\* A task that does not begin or end sending leaves it alone.
LEMMA TaskRests ==
  ASSUME Core, NEW p \in Payouts, NEW t \in Tasks, NEW r,
         task' = [task EXCEPT ![p][t] = r], (r.pc = "send") <=> At(p, t, "send"),
         UNCHANGED <<attempts, transfer>>
  PROVE  \A q \in Payouts : LastTransfer(q)' = LastTransfer(q)
<1>1. \A q \in Payouts : \A u \in Tasks : task'[q][u] = IF q = p /\ u = t THEN r ELSE task[q][u]
  BY DEF Core, TypeOK
<1>2. ASSUME NEW q \in Payouts PROVE Sending(q)' <=> Sending(q)
  BY <1>1 DEF Sending, At
<1>3. \A q \in Payouts : Current(q)' = Current(q)
  BY DEF Current
<1>4. QED
  BY <1>2, <1>3, TransferRests

\* Nothing was taken for dead too early so far.
OnTime == early = {}

\* Then whoever sends asks for the row's transfer,
LEMMA SendersAreCurrent ==
  ASSUME Core, History, OnTime, NEW p \in Payouts, NEW u \in Tasks, At(p, u, "send")
  PROVE  Ref(p, u) = attempts[p] /\ attempts[p] \in Attempts /\ transfer[p][attempts[p]] = "none"
<1>1. Ref(p, u) \in Attempts /\ Ref(p, u) <= attempts[p] /\ transfer[p][Ref(p, u)] = "none"
  BY DEF At, Ref, Core, TasksOK, TaskOK, OneSenderPerReference
<1>2. ~(Ref(p, u) < attempts[p])
  BY <1>1 DEF History, Over, OnTime
<1>3. Ref(p, u) \in Int /\ attempts[p] \in Int
  BY <1>1 DEF Core, TypeOK, Attempts
<1>4. QED
  BY <1>1, <1>2, <1>3

\* and is alone in that.
LEMMA OneSenderNow ==
  ASSUME Core, History, OnTime, NEW p \in Payouts, NEW t \in Tasks, NEW u \in Tasks,
         At(p, t, "send"), At(p, u, "send")
  PROVE  u = t
<1>1. Ref(p, u) = Ref(p, t)
  BY SendersAreCurrent
<1>2. QED
  BY <1>1 DEF Core, OneSenderPerReference

\* A claim that succeeds finds the row's transfer dead, and nobody sending.
LEMMA DeadNow ==
  ASSUME Core, History, OnTime, NEW p \in Payouts, NEW t \in Tasks, Claim(p, t)
  PROVE  LastTransfer(p) \in Dead /\ ~Sending(p)
<1>1. At(p, t, "claim") /\ Ref(p, t) = attempts[p]
  BY DEF Claim, CanClaim
<1>2. attempts[p] \in Attempts =>
        /\ transfer[p][attempts[p]] \in {"none", "failed", "reversed"}
        /\ \A u \in Tasks : At(p, u, "send") => Ref(p, u) # attempts[p]
  BY <1>1 DEF History, Over, OnTime
<1>3. ~Sending(p)
  BY <1>2, SendersAreCurrent DEF Sending
<1>4. Current(p) \in {"none", "failed", "reversed"}
  BY <1>2, AttemptBoundAssumption DEF Core, TypeOK, Attempts, Current
<1>5. QED
  BY <1>3, <1>4 DEF LastTransfer, Dead

\* A step of a task changes at most its own row, and not otherwise than above.
OnlyRow(p) == (RowRests(p) \/ RowMoves(p)) /\ \A q \in Payouts \ {p} : RowRests(q)

\* When only the status changes.
LEMMA StatusStep ==
  ASSUME Core, NEW p \in Payouts, NEW s2, StatusMoves(status[p], LastTransfer(p), s2),
         status' = [status EXCEPT ![p] = s2], \A q \in Payouts : LastTransfer(q)' = LastTransfer(q)
  PROVE  OnlyRow(p)
BY DEF Core, TypeOK, OnlyRow, RowRests, RowMoves

\* The steps of tasks that send.
LEMMA SenderStep ==
  ASSUME Core, History, OnTime, NEW p \in Payouts, NEW t \in Tasks,
         Claim(p, t) \/ InitiateTransfer(p, t) \/ (Crash(p, t) /\ At(p, t, "send"))
  PROVE  OnlyRow(p)
<1>1. PICK r : task' = [task EXCEPT ![p][t] = r] /\ (r.pc = "send" <=> Claim(p, t))
  <2>1. CASE Claim(p, t)
    <3> DEFINE r == [task[p][t] EXCEPT !.pc = "send", !.ref = Ref(p, t) + 1]
    <3>1. r.pc = "send"
      BY DEF Core, TypeOK, TaskStates
    <3>2. task' = [task EXCEPT ![p][t] = r]
      BY <2>1 DEF Claim
    <3> HIDE DEF r
    <3>3. QED
      BY <2>1, <3>1, <3>2
  <2>2. CASE InitiateTransfer(p, t)
    <3> DEFINE r == [task[p][t] EXCEPT !.pc = "sent"]
    <3>1. r.pc = "sent"
      BY DEF Core, TypeOK, TaskStates
    <3>2. task' = [task EXCEPT ![p][t] = r] /\ ~Claim(p, t)
      BY <2>2 DEF InitiateTransfer, Goto, Claim, At
    <3> HIDE DEF r
    <3>3. QED
      BY <3>1, <3>2
  <2>3. CASE Crash(p, t) /\ At(p, t, "send")
    <3>1. IdleTask.pc # "send" /\ ~Claim(p, t)
      BY <2>3 DEF IdleTask, Claim, At
    <3>2. task' = [task EXCEPT ![p][t] = IdleTask]
      BY <2>3 DEF Crash, Leave
    <3>3. QED
      BY <3>1, <3>2
  <2>4. QED
    BY <2>1, <2>2, <2>3
<1>2. \A q \in Payouts : \A u \in Tasks : task'[q][u] = IF q = p /\ u = t THEN r ELSE task[q][u]
  BY <1>1 DEF Core, TypeOK
<1>3. \A q \in Payouts \ {p} : RowRests(q)
  <2>1. ASSUME NEW q \in Payouts \ {p}
        PROVE  status'[q] = status[q] /\ attempts'[q] = attempts[q] /\ transfer'[q] = transfer[q]
    BY <2>1 DEF Claim, InitiateTransfer, Crash, row, provider, Core, TypeOK
  <2>2. ASSUME NEW q \in Payouts \ {p} PROVE Current(q)' = Current(q) /\ (Sending(q)' <=> Sending(q))
    BY <1>2, <2>1 DEF Current, Sending, At
  <2>3. QED
    BY <2>1, <2>2, TransferRests DEF RowRests
<1>4. CASE Claim(p, t)
  <2>1. LastTransfer(p) \in Dead /\ status[p] \in Open
    BY <1>4, DeadNow DEF Claim, CanClaim
  <2>2. /\ attempts'[p] = attempts[p] + 1 /\ attempts'[p] \in Attempts /\ attempts'[p] # 0
        /\ attempts'[p] > attempts[p] /\ transfer'[p][attempts'[p]] = transfer[p][attempts'[p]]
    BY <1>4, AttemptBoundAssumption DEF Claim, CanClaim, provider, Attempts, Core, TypeOK
  <2>3. Current(p)' = "none"
    BY <2>2 DEF Current, Core, ReferenceBeforeRequest
  <2>4. Sending(p)'
    BY <1>1, <1>2, <1>4 DEF Sending, At
  <2>5. status'[p] = "PROCESSING"
    BY <1>4 DEF Claim, Core, TypeOK
  <2>6. QED
    BY <1>3, <2>1, <2>3, <2>4, <2>5 DEF OnlyRow, RowMoves, LastTransfer
<1>5. CASE At(p, t, "send")
  <2>1. /\ Ref(p, t) = attempts[p] /\ attempts[p] \in Attempts /\ attempts[p] # 0
        /\ transfer[p][attempts[p]] = "none"
    BY <1>5, SendersAreCurrent DEF Attempts
  <2>2. LastTransfer(p) = "requested"
    BY <1>5, <2>1 DEF LastTransfer, Current, Sending
  <2>3. status'[p] = status[p] /\ attempts'[p] = attempts[p]
    BY <1>5 DEF Claim, At, InitiateTransfer, Crash, row
  <2>4. CASE InitiateTransfer(p, t)
    <3>1. transfer'[p][attempts[p]] = "inflight"
      BY <2>1, <2>4 DEF InitiateTransfer, Core, TypeOK
    <3>2. LastTransfer(p)' = "requested"
      BY <2>1, <2>3, <3>1 DEF LastTransfer, Current
    <3>3. QED
      BY <1>3, <2>2, <2>3, <3>2 DEF OnlyRow, RowRests
  <2>5. CASE Crash(p, t)
    <3>1. transfer' = transfer
      BY <2>5 DEF Crash
    <3>2. ~Sending(p)'
      <4>1. ASSUME NEW u \in Tasks \ {t} PROVE task[p][u].pc # "send"
        BY <1>5, OneSenderNow DEF At
      <4>2. r.pc # "send"
        BY <1>1, <1>5 DEF Claim, At
      <4>3. QED
        BY <1>2, <4>1, <4>2 DEF Sending, At
    <3>3. LastTransfer(p)' = "none"
      BY <2>1, <2>3, <3>1, <3>2 DEF LastTransfer, Current
    <3>4. QED
      BY <1>3, <2>2, <2>3, <3>3 DEF OnlyRow, RowMoves, TransferMoves
  <2>6. QED
    BY <1>5, <2>4, <2>5 DEF Claim, At
<1>6. QED
  BY <1>4, <1>5 DEF InitiateTransfer

\* The other steps of tasks.
LEMMA WorkerStep ==
  ASSUME Core, Told, NEW p \in Payouts, NEW t \in Tasks,
         Step(p, t) \/ (Crash(p, t) /\ ~At(p, t, "send")) \/ StartJob(p, t) \/ StartEvent(p, t),
         ~Claim(p, t), ~InitiateTransfer(p, t)
  PROVE  OnlyRow(p)
<1>1. UNCHANGED <<attempts, transfer>>
  BY DEF Step, Verify, ResolveDestination, Hold, LoseClaim, Response, RequestFailed,
     FlagForOperator, InitiateBounced, MarkSucceeded, Unpay, Reopen, ReopenedExhausted,
     ReopenedRetry, MarkForReview, Crash, StartJob, StartEvent, provider, row
<1>2. PICK r : task' = [task EXCEPT ![p][t] = r] /\ r.pc # "send"
  <2>1. ASSUME NEW label, Goto(p, t, label), label # "send"
        PROVE  \E r : task' = [task EXCEPT ![p][t] = r] /\ r.pc # "send"
    <3> DEFINE r == [task[p][t] EXCEPT !.pc = label]
    <3>1. r.pc = label
      BY DEF Core, TypeOK, TaskStates
    <3>2. task' = [task EXCEPT ![p][t] = r]
      BY <2>1 DEF Goto
    <3> HIDE DEF r
    <3>3. QED
      BY <2>1, <3>1, <3>2
  <2>2. ASSUME Leave(p, t)
        PROVE  \E r : task' = [task EXCEPT ![p][t] = r] /\ r.pc # "send"
    <3>1. IdleTask.pc # "send"
      BY DEF IdleTask
    <3>2. task' = [task EXCEPT ![p][t] = IdleTask]
      BY <2>2 DEF Leave
    <3>3. QED
      BY <3>1, <3>2
  <2>3. ASSUME NEW label, Proceed(p, t, label), label # "send"
        PROVE  \E r : task' = [task EXCEPT ![p][t] = r] /\ r.pc # "send"
    BY <2>1, <2>2, <2>3 DEF Proceed, Finish
  <2>4. CASE Hold(p, t) \/ LoseClaim(p, t) \/ RequestFailed(p, t) \/ FlagForOperator(p, t)
             \/ MarkSucceeded(p, t) \/ ReopenedRetry(p, t) \/ MarkForReview(p, t) \/ Crash(p, t)
    BY <2>2, <2>4 DEF Hold, LoseClaim, RequestFailed, FlagForOperator, MarkSucceeded,
       ReopenedRetry, MarkForReview, Crash, Finish
  <2>5. CASE Reopen(p, t) \/ ReopenedExhausted(p, t)
    BY <2>1, <2>5 DEF Reopen, ReopenedExhausted
  <2>6. CASE Unpay(p, t)
    BY <2>1, <2>2, <2>6 DEF Unpay, Finish
  <2>7. CASE ResolveDestination(p, t)
    <3>1. AfterResolve(owner[p]) # "send"
      BY DEF AfterResolve
    <3>2. QED
      BY <2>1, <2>7, <3>1 DEF ResolveDestination
  <2>8. CASE Verify(p, t)
    <3>1. AfterVerify(transfer[p][Ref(p, t)]) # "send"
      BY DEF AfterVerify
    <3>2. QED
      BY <2>3, <2>8, <3>1 DEF Verify
  <2>9. CASE Response(p, t)
    <3>1. AfterInitiate(transfer[p][Ref(p, t)]) # "send"
      BY DEF AfterInitiate
    <3>2. QED
      BY <2>3, <2>9, <3>1 DEF Response
  <2>10. CASE InitiateBounced(p, t)
    <3>1. AfterEventRead(p, Ref(p, t), "failed") # "send"
      BY DEF AfterEventRead
    <3>2. QED
      BY <2>3, <2>10, <3>1 DEF InitiateBounced
  <2>11. CASE StartJob(p, t)
    <3> DEFINE r == [pc |-> IF attempts[p] = 0 THEN "resolve" ELSE "verify",
                     kind |-> "job", ref |-> attempts[p], seen |-> status[p]]
    <3>1. r.pc # "send" /\ task' = [task EXCEPT ![p][t] = r]
      BY <2>11 DEF StartJob
    <3> HIDE DEF r
    <3>2. QED
      BY <3>1
  <2>12. CASE StartEvent(p, t)
    <3>1. PICK n \in Attempts, outcome \in Outcomes :
            task' = [task EXCEPT ![p][t] =
              IF AfterEventRead(p, n, outcome) = "idle" THEN IdleTask
              ELSE [pc |-> AfterEventRead(p, n, outcome), kind |-> outcome,
                    ref |-> n, seen |-> status[p]]]
      BY <2>12 DEF StartEvent
    <3> DEFINE r == IF AfterEventRead(p, n, outcome) = "idle" THEN IdleTask
                    ELSE [pc |-> AfterEventRead(p, n, outcome), kind |-> outcome,
                          ref |-> n, seen |-> status[p]]
    <3>2. r.pc # "send"
      BY DEF AfterEventRead, IdleTask
    <3>3. task' = [task EXCEPT ![p][t] = r]
      BY <3>1
    <3> HIDE DEF r
    <3>4. QED
      BY <3>2, <3>3
  <2>13. QED
    BY <2>4, <2>5, <2>6, <2>7, <2>8, <2>9, <2>10, <2>11, <2>12 DEF Step
<1>3. ~At(p, t, "send")
  BY DEF Step, Verify, ResolveDestination, Hold, LoseClaim, Response, RequestFailed,
     FlagForOperator, InitiateBounced, MarkSucceeded, Unpay, Reopen, ReopenedExhausted,
     ReopenedRetry, MarkForReview, StartJob, StartEvent, At
<1>4. \A q \in Payouts : LastTransfer(q)' = LastTransfer(q)
  BY <1>1, <1>2, <1>3, TaskRests
<1>5. CASE UNCHANGED status
  BY <1>4, <1>5 DEF OnlyRow, RowRests
<1>6. CASE Hold(p, t)
  <2>1. status' = [status EXCEPT ![p] = IF status[p] = task[p][t].seen THEN "QUEUED" ELSE status[p]]
    BY <1>6 DEF Hold
  <2>2. task[p][t].seen \in Open
    BY <1>6 DEF Hold, At, Core, TasksOK, TaskOK, BeforeClaim
  <2>3. CASE status[p] = task[p][t].seen
    BY <1>4, <2>1, <2>2, <2>3, StatusStep DEF StatusMoves
  <2>4. CASE status[p] # task[p][t].seen
    BY <1>4, <2>1, <2>4 DEF OnlyRow, RowRests, Core, TypeOK
  <2>5. QED
    BY <2>3, <2>4
<1>7. CASE MarkSucceeded(p, t) /\ CanSucceed(p, t)
  <2>1. Ref(p, t) = attempts[p] /\ Delivered(p, attempts[p])
    BY <1>7 DEF MarkSucceeded, CanSucceed, At, Ref, Core, TasksOK, TaskOK
  <2>2. LastTransfer(p) \in {"delivered", "bounced"}
    BY <2>1, AttemptBoundAssumption DEF Delivered, LastTransfer, Current, Attempts
  <2>3. QED
    BY <1>4, <1>7, <2>2, StatusStep DEF MarkSucceeded, CanSucceed, StatusMoves
<1>8. CASE Unpay(p, t) /\ CanUnpay(p, t)
  <2>1. attempts[p] \in Attempts /\ transfer[p][attempts[p]] = "reversed"
    BY <1>8 DEF Unpay, CanUnpay, At, Ref, Core, TasksOK, TaskOK
  <2>2. LastTransfer(p) = "bounced"
    BY <2>1, AttemptBoundAssumption DEF LastTransfer, Current, Attempts
  <2>3. QED
    BY <1>4, <1>8, <2>2, StatusStep DEF Unpay, CanUnpay, StatusMoves
<1>9. CASE Reopen(p, t) /\ CanSucceed(p, t)
  <2>1. attempts[p] \in Attempts /\ transfer[p][attempts[p]] \in {"failed", "reversed"}
    BY <1>9 DEF Reopen, CanSucceed, At, Ref, Told, TaskTold
  <2>2. LastTransfer(p) \in {"failed", "bounced"}
    BY <2>1, AttemptBoundAssumption DEF LastTransfer, Current, Attempts
  <2>3. QED
    BY <1>4, <1>9, <2>2, StatusStep DEF Reopen, CanSucceed, StatusMoves
<1>10. CASE MarkForReview(p, t) /\ status[p] # "SUCCESS"
  BY <1>4, <1>10, StatusStep DEF MarkForReview, StatusMoves
<1>11. QED
  BY <1>5, <1>6, <1>7, <1>8, <1>9, <1>10 DEF Step, Verify, ResolveDestination, LoseClaim, Response,
     RequestFailed, FlagForOperator, InitiateBounced, MarkSucceeded, Unpay, Reopen,
     ReopenedExhausted, ReopenedRetry, MarkForReview, Crash, StartJob, StartEvent, row

\* The provider moves the row's transfer.
LEMMA ProviderStep ==
  ASSUME Core, History, OnTime, NEW p \in Payouts, NEW n \in Attempts,
         Advance(p, n) \/ HumanAction(p, n) \/ Setback(p, n)
  PROVE  OnlyRow(p)
<1>1. PICK s \in TransferStates :
        /\ transfer' = [transfer EXCEPT ![p][n] = s]
        /\ \/ transfer[p][n] = "inflight" /\ s \in Live \cup {"none"}
           \/ transfer[p][n] = "pending" /\ s = "success"
           \/ transfer[p][n] = "requires_action" /\ s = "pending"
           \/ transfer[p][n] \in Live \ {"success"} /\ s = "failed"
           \/ transfer[p][n] = "success" /\ s = "reversed"
  BY DEF Advance, HumanAction, Setback, Transition, Live, TransferStates, Outcomes
<1>2. UNCHANGED <<status, attempts, task>>
  BY DEF Advance, HumanAction, Setback, Transition, row
<1>3. n = attempts[p] /\ attempts[p] # 0
  BY <1>1, StraysCameLate DEF StrayTransfersCameLate, OnTime, Live, Attempts
<1>4. /\ transfer'[p][n] = s
      /\ \A q \in Payouts \ {p} : transfer'[q] = transfer[q]
  BY <1>1 DEF Core, TypeOK
<1>5. \A q \in Payouts : Sending(q)' <=> Sending(q)
  BY <1>2 DEF Sending, At
<1>6. \A q \in Payouts \ {p} : RowRests(q)
  <2>1. ASSUME NEW q \in Payouts \ {p} PROVE Current(q)' = Current(q)
    BY <1>2, <1>4 DEF Current
  <2>2. QED
    BY <1>2, <1>5, <2>1, TransferRests DEF RowRests
<1>7. Current(p) = transfer[p][n] /\ Current(p)' = s
  BY <1>2, <1>3, <1>4 DEF Current
<1>8. ~Sending(p)
  <2>1. transfer[p][attempts[p]] # "none"
    BY <1>1, <1>3 DEF Live
  <2>2. QED
    BY <2>1, SendersAreCurrent DEF Sending
<1>9. RowRests(p) \/ RowMoves(p)
  <2>1. CASE transfer[p][n] = "requires_action" /\ s = "pending"
    BY <1>2, <1>7, <2>1 DEF RowRests, LastTransfer
  <2>2. CASE transfer[p][n] # "requires_action" \/ s # "pending"
    <3>1. TransferMoves(LastTransfer(p), LastTransfer(p)')
      BY <1>1, <1>5, <1>7, <1>8, <2>2 DEF LastTransfer, TransferMoves, Live
    <3>2. QED
      BY <1>2, <3>1 DEF RowMoves
  <2>3. QED
    BY <2>1, <2>2
<1>10. QED
  BY <1>6, <1>9 DEF OnlyRow

\* Whatever happens, one row moves, or none.
LEMMA RowStep ==
  ASSUME Core, Told, History, OnTime, [Next]_vars
  PROVE  (\A p \in Payouts : RowRests(p)) \/ \E p \in Payouts : OnlyRow(p)
<1>1. ASSUME UNCHANGED <<attempts, transfer, task>>
      PROVE  \A p \in Payouts : LastTransfer(p)' = LastTransfer(p)
  BY <1>1, TransferRests DEF Current, Sending, At
<1>2. CASE UNCHANGED <<status, attempts, transfer, task>>
  BY <1>1, <1>2 DEF RowRests
<1>3. ASSUME NEW p \in Payouts, RetryPayout(p) PROVE OnlyRow(p)
  BY <1>1, <1>3, StatusStep DEF RetryPayout, StatusMoves, provider
<1>4. ASSUME NEW p \in Payouts, NEW t \in Tasks, Step(p, t) \/ Crash(p, t) PROVE OnlyRow(p)
  BY <1>4, SenderStep, WorkerStep
<1>5. ASSUME NEW p \in Payouts, NEW t \in Tasks, StartJob(p, t) \/ StartEvent(p, t) PROVE OnlyRow(p)
  <2>1. ~Claim(p, t) /\ ~InitiateTransfer(p, t)
    BY <1>5 DEF StartJob, StartEvent, Claim, InitiateTransfer, At
  <2>2. QED
    BY <1>5, <2>1, WorkerStep
<1>6. ASSUME NEW p \in Payouts, SkipJob(p) \/ StallJob(p) \/ \E o \in Owners : SetOwner(p, o)
      PROVE  UNCHANGED <<status, attempts, transfer, task>>
  BY <1>6 DEF SkipJob, StallJob, SetOwner, row, provider
<1>7. LoseEvent \/ RepeatEvent \/ Sweep \/ UNCHANGED vars => UNCHANGED <<status, attempts, transfer, task>>
  BY DEF LoseEvent, RepeatEvent, Sweep, vars, row, provider
<1>8. QED
  BY <1>2, <1>3, <1>4, <1>5, <1>6, <1>7, ProviderStep DEF Next, Environment
-----------------------------------------------------------------------------
(* Payout implements the payouts of Books: the rows of settled payments, their postings, *)
(* and the money that left the provider for them.                                        *)

CONSTANTS Payments, BasisPointsTotal, Terms, PaymentTerms

Accounts == INSTANCE Ledger

\* The obligation to a payee of a payment.
Due(p, k) == Accounts!Share(PaymentTerms[p], k)

\* Each row is a payment's positive share.
RowsGiven ==
  /\ BasisPointsTotal \in Nat \ {0}
  /\ \A t \in Terms : Accounts!ValidTerms(t)
  /\ PaymentTerms \in [Payments -> Terms]
  /\ Payouts = {r \in Payments \X Accounts!Payables : Due(r[1], r[2]) > 0}

\* What the postings of a row add to an account, and what the provider sent out for it.
Posted(p, k, a) ==
  IF <<p, k>> \in Payouts
  THEN (debits[<<p, k>>] - credits[<<p, k>>]) * Accounts!computePayoutEntries(k, Due(p, k))[a]
  ELSE 0

SentOut(p, k) ==
  IF <<p, k>> \in Payouts
  THEN Cardinality({n \in Attempts : transfer[<<p, k>>][n] \in Live}) * Due(p, k)
  ELSE 0

\* The mapped variables.
PaperStatus ==
  [p \in Payments |-> [k \in Accounts!Payables |->
     IF <<p, k>> \in Payouts THEN status[<<p, k>>] ELSE "none"]]

PaperTransfer ==
  [p \in Payments |-> [k \in Accounts!Payables |->
     IF <<p, k>> \in Payouts THEN LastTransfer(<<p, k>>) ELSE "none"]]

PaperLedger ==
  [p \in Payments |-> [a \in Accounts!AccountTypes |->
     Accounts!computePaymentEntries(PaymentTerms[p])[a]
       + Posted(p, "ENTERTAINER_PAYABLE", a) + Posted(p, "VENUE_PAYABLE", a)]]

PaperHeld ==
  [p \in Payments |-> PaymentTerms[p].gross
                        - SentOut(p, "ENTERTAINER_PAYABLE") - SentOut(p, "VENUE_PAYABLE")]

AllSettled == [p \in Payments |-> "settled"]

Paper == INSTANCE Books WITH
  terms <- PaymentTerms, payment <- AllSettled, ledger <- PaperLedger,
  status <- PaperStatus, transfer <- PaperTransfer, held <- PaperHeld

\* Amounts are integers.
LEMMA WholeAmounts ==
  ASSUME RowsGiven, NEW p \in Payments
  PROVE  /\ PaymentTerms[p].gross \in Int
         /\ \A k \in Accounts!Payables : Due(p, k) \in Int
         /\ \A a \in Accounts!AccountTypes :
              /\ Accounts!computePaymentEntries(PaymentTerms[p])[a] \in Int
              /\ \A k \in Accounts!Payables : Accounts!computePayoutEntries(k, Due(p, k))[a] \in Int
<1> DEFINE t == PaymentTerms[p]
<1>1. t.gross \in Nat /\ t.entertainerBps \in Nat /\ t.venueBps \in Nat
  BY DEF RowsGiven, Accounts!ValidTerms
<1>2. ASSUME NEW k \in Accounts!Payables PROVE Accounts!Share(t, k) \in Int
  <2>1. Accounts!BpsOf(t, k) \in Nat
    BY <1>1 DEF Accounts!BpsOf
  <2>2. t.gross * Accounts!BpsOf(t, k) \in Int
    BY <1>1, <2>1
  <2>3. QED
    BY <2>2 DEF Accounts!Share, Accounts!applyBasisPoints, RowsGiven
<1>3. \A a \in Accounts!AccountTypes : Accounts!computePaymentEntries(t)[a] \in Int
  BY <1>1, <1>2 DEF Accounts!computePaymentEntries, Accounts!AccountTypes, Accounts!Payables
<1>4. \A a \in Accounts!AccountTypes : \A k \in Accounts!Payables :
        Accounts!computePayoutEntries(k, Due(p, k))[a] \in Int
  BY <1>2 DEF Accounts!computePayoutEntries, Due
<1>5. QED
  BY <1>1, <1>2, <1>3, <1>4 DEF Due

\* Books computes the same figures.
LEMMA SameFigures ==
  /\ Paper!Payables = Accounts!Payables /\ Paper!AccountTypes = Accounts!AccountTypes
  /\ \A p, k : Paper!Amount(p, k) = Due(p, k)
  /\ \A k, x : Paper!computePayoutEntries(k, x) = Accounts!computePayoutEntries(k, x)
  /\ \A k, x : Paper!computePayoutReversalEntries(k, x) =
                 [a \in Accounts!AccountTypes |-> -Accounts!computePayoutEntries(k, x)[a]]
  /\ \A t : Paper!computePaymentEntries(t) = Accounts!computePaymentEntries(t)
<1>1. Paper!Payables = Accounts!Payables /\ Paper!AccountTypes = Accounts!AccountTypes
  BY DEF Paper!Payables, Accounts!Payables, Paper!AccountTypes, Accounts!AccountTypes
<1>2. \A t, k : Paper!Share(t, k) = Accounts!Share(t, k)
  BY DEF Paper!Share, Accounts!Share, Paper!BpsOf, Accounts!BpsOf,
     Paper!applyBasisPoints, Accounts!applyBasisPoints
<1>3. \A p, k : Paper!Amount(p, k) = Due(p, k)
  BY <1>2 DEF Paper!Amount, Due
<1>4. \A k, x : Paper!computePayoutEntries(k, x) = Accounts!computePayoutEntries(k, x)
  BY <1>1 DEF Paper!computePayoutEntries, Accounts!computePayoutEntries
<1>5. \A k, x : Paper!computePayoutReversalEntries(k, x) =
                  [a \in Accounts!AccountTypes |-> -Accounts!computePayoutEntries(k, x)[a]]
  BY <1>1, <1>4 DEF Paper!computePayoutReversalEntries
<1>6. \A t : Paper!computePaymentEntries(t) = Accounts!computePaymentEntries(t)
  BY <1>1, <1>2 DEF Paper!computePaymentEntries, Accounts!computePaymentEntries
<1>7. QED
  BY <1>1, <1>3, <1>4, <1>5, <1>6

\* What the proof knows of every state,
Recorded == Core /\ Told /\ History /\ LedgerMatchesStatus

\* and of those before anything was taken for dead too early.
Known == Recorded /\ OnTime

Paid(p, k) == <<p, k>> \in Payouts /\ status[<<p, k>>] = "SUCCESS"
HasLeft(p, k) == <<p, k>> \in Payouts /\ LastTransfer(<<p, k>>) \in Gone

\* The postings of a row come to one payout where it is recorded as paid.
LEMMA PostedOnce ==
  RowsGiven /\ Recorded =>
    \A p \in Payments : \A k \in Accounts!Payables : \A a \in Accounts!AccountTypes :
      Posted(p, k, a) = IF Paid(p, k) THEN Accounts!computePayoutEntries(k, Due(p, k))[a] ELSE 0
<1> SUFFICES ASSUME RowsGiven, Recorded, NEW p \in Payments, NEW k \in Accounts!Payables,
                    NEW a \in Accounts!AccountTypes
             PROVE  Posted(p, k, a) = IF Paid(p, k)
                                      THEN Accounts!computePayoutEntries(k, Due(p, k))[a] ELSE 0
  OBVIOUS
<1> DEFINE x == Accounts!computePayoutEntries(k, Due(p, k))[a]
           r == <<p, k>>
<1>1. x \in Int
  BY WholeAmounts
<1>2. r \in Payouts => debits[r] - credits[r] = IF status[r] = "SUCCESS" THEN 1 ELSE 0
  BY DEF Recorded, Core, TypeOK, LedgerMatchesStatus
<1> HIDE DEF x, r
<1>3. 1 * x = x /\ 0 * x = 0
  BY <1>1
<1>4. QED
  BY <1>2, <1>3 DEF Posted, Paid, x, r

\* At most one transfer of a row is live: the latest.
LEMMA SentOutOnce ==
  RowsGiven /\ Known =>
    \A p \in Payments : \A k \in Accounts!Payables :
      SentOut(p, k) = IF HasLeft(p, k) THEN Due(p, k) ELSE 0
<1> SUFFICES ASSUME RowsGiven, Known, NEW p \in Payments, NEW k \in Accounts!Payables
             PROVE  SentOut(p, k) = IF HasLeft(p, k) THEN Due(p, k) ELSE 0
  OBVIOUS
<1> DEFINE r == <<p, k>>
           S == {n \in Attempts : transfer[r][n] \in Live}
<1>1. Due(p, k) \in Int
  BY WholeAmounts
<1>2. ASSUME r \in Payouts PROVE Cardinality(S) = IF LastTransfer(r) \in Gone THEN 1 ELSE 0
  <2>1. LastTransfer(r) \in Gone <=> Current(r) \in Live
    BY DEF LastTransfer, Gone, Live
  <2>2. attempts[r] = 0 \/ attempts[r] \in Attempts
    BY <1>2, AttemptBoundAssumption DEF Known, Recorded, Core, TypeOK, Attempts
  <2>3. \A n \in S : n = attempts[r]
    BY <1>2, StraysCameLate DEF Known, Recorded, OnTime, StrayTransfersCameLate
  <2>4. S = IF Current(r) \in Live THEN {attempts[r]} ELSE {}
    BY <2>2, <2>3, AttemptBoundAssumption DEF Live, Current, Attempts
  <2>5. QED
    BY <2>1, <2>4, FS_EmptySet, FS_Singleton
<1>3. 1 * Due(p, k) = Due(p, k) /\ 0 * Due(p, k) = 0
  BY <1>1
<1>4. QED
  BY <1>2, <1>3 DEF SentOut, HasLeft

\* So after a step.
LEMMA PostedOnceAfter ==
  ASSUME RowsGiven, Recorded'
  PROVE  (\A p \in Payments : \A k \in Accounts!Payables : \A a \in Accounts!AccountTypes :
           Posted(p, k, a) = IF Paid(p, k) THEN Accounts!computePayoutEntries(k, Due(p, k))[a] ELSE 0)'
BY PostedOnce, PTL

\* And the money sent out.
LEMMA SentOutOnceAfter ==
  ASSUME RowsGiven, Known'
  PROVE  (\A p \in Payments : \A k \in Accounts!Payables :
           SentOut(p, k) = IF HasLeft(p, k) THEN Due(p, k) ELSE 0)'
BY SentOutOnce, PTL

\* Every row is of a payment and one of its payees.
LEMMA RowOf ==
  ASSUME RowsGiven, NEW r \in Payouts
  PROVE  \E p \in Payments, k \in Accounts!Payables : r = <<p, k>>
BY DEF RowsGiven

\* The rows left alone.
Others(p, k) == Payouts \ {<<p, k>>}

\* The statuses of the rows, on paper.
LEMMA StatusOnPaper ==
  ASSUME NEW p \in Payments, NEW k \in Accounts!Payables, <<p, k>> \in Payouts,
         \A q \in Others(p, k) : status'[q] = status[q]
  PROVE  PaperStatus' = [PaperStatus EXCEPT ![p][k] = status'[<<p, k>>]]
<1>1. \A q \in Payments : \A j \in Accounts!Payables : <<q, j>> # <<p, k>> =>
        PaperStatus'[q][j] = PaperStatus[q][j]
  BY DEF PaperStatus, Others
<1>2. PaperStatus'[p][k] = status'[<<p, k>>]
  BY DEF PaperStatus
<1>3. PaperStatus'[p] = [PaperStatus[p] EXCEPT ![k] = status'[<<p, k>>]]
  BY <1>1, <1>2 DEF PaperStatus
<1>4. \A q \in Payments \ {p} : PaperStatus'[q] = PaperStatus[q]
  BY <1>1 DEF PaperStatus
<1>5. QED
  BY <1>3, <1>4 DEF PaperStatus

\* And the transfers.
LEMMA TransferOnPaper ==
  ASSUME NEW p \in Payments, NEW k \in Accounts!Payables, <<p, k>> \in Payouts,
         \A q \in Others(p, k) : LastTransfer(q)' = LastTransfer(q)
  PROVE  PaperTransfer' = [PaperTransfer EXCEPT ![p][k] = LastTransfer(<<p, k>>)']
<1>1. \A q \in Payments : \A j \in Accounts!Payables : <<q, j>> # <<p, k>> =>
        PaperTransfer'[q][j] = PaperTransfer[q][j]
  BY DEF PaperTransfer, Others
<1>2. PaperTransfer'[p][k] = LastTransfer(<<p, k>>)'
  BY DEF PaperTransfer
<1>3. PaperTransfer'[p] = [PaperTransfer[p] EXCEPT ![k] = LastTransfer(<<p, k>>)']
  BY <1>1, <1>2 DEF PaperTransfer
<1>4. \A q \in Payments \ {p} : PaperTransfer'[q] = PaperTransfer[q]
  BY <1>1 DEF PaperTransfer
<1>5. QED
  BY <1>3, <1>4 DEF PaperTransfer

\* The rows that are recorded as paid, and those whose money has left, decide about the
\* books and the balance.
LEMMA LedgerRests ==
  ASSUME RowsGiven, Known, Known',
         \A r \in Payouts : status'[r] = "SUCCESS" <=> status[r] = "SUCCESS"
  PROVE  PaperLedger' = PaperLedger
<1>1. \A p \in Payments : \A k \in Accounts!Payables : Paid(p, k)' <=> Paid(p, k)
  BY DEF Paid
<1>2. \A p \in Payments : \A k \in Accounts!Payables : \A a \in Accounts!AccountTypes :
        Posted(p, k, a)' = Posted(p, k, a)
  BY <1>1, PostedOnce, PostedOnceAfter DEF Known
<1>3. QED
  BY <1>2 DEF PaperLedger, Accounts!Payables

\* And the money held.
LEMMA HeldRests ==
  ASSUME RowsGiven, Known, Known',
         \A r \in Payouts : LastTransfer(r)' \in Gone <=> LastTransfer(r) \in Gone
  PROVE  PaperHeld' = PaperHeld
<1>1. \A p \in Payments : \A k \in Accounts!Payables : HasLeft(p, k)' <=> HasLeft(p, k)
  BY DEF HasLeft
<1>2. \A p \in Payments : \A k \in Accounts!Payables : SentOut(p, k)' = SentOut(p, k)
  BY <1>1, SentOutOnce, SentOutOnceAfter
<1>3. QED
  BY <1>2 DEF PaperHeld, Accounts!Payables

\* A row that is recorded as paid, or no longer, adds its entries or takes them back.
LEMMA LedgerMoves ==
  ASSUME RowsGiven, Known, Known', NEW p \in Payments, NEW k \in Accounts!Payables,
         <<p, k>> \in Payouts, \A q \in Others(p, k) : status'[q] = status[q]
  PROVE  /\ \A q \in Payments \ {p} : PaperLedger'[q] = PaperLedger[q]
         /\ \A a \in Accounts!AccountTypes :
              PaperLedger'[p][a] = PaperLedger[p][a] + Posted(p, k, a)' - Posted(p, k, a)
<1> DEFINE E == "ENTERTAINER_PAYABLE"
           V == "VENUE_PAYABLE"
<1>1. \A q \in Payments : \A j \in Accounts!Payables : \A a \in Accounts!AccountTypes :
        Posted(q, j, a)' = IF Paid(q, j)' THEN Accounts!computePayoutEntries(j, Due(q, j))[a] ELSE 0
  BY PostedOnceAfter DEF Known
<1>2. \A q \in Payments : \A j \in Accounts!Payables : <<q, j>> # <<p, k>> =>
        \A a \in Accounts!AccountTypes : Posted(q, j, a)' = Posted(q, j, a)
  <2>1. \A q \in Payments : \A j \in Accounts!Payables : <<q, j>> # <<p, k>> =>
          (Paid(q, j)' <=> Paid(q, j))
    BY DEF Paid, Others
  <2>2. QED
    BY <1>1, <2>1, PostedOnce DEF Known
<1>3. \A q \in Payments \ {p} : PaperLedger'[q] = PaperLedger[q]
  BY <1>2 DEF PaperLedger, Accounts!Payables
<1>4. ASSUME NEW a \in Accounts!AccountTypes
      PROVE  PaperLedger'[p][a] = PaperLedger[p][a] + Posted(p, k, a)' - Posted(p, k, a)
  <2>1. \A j \in Accounts!Payables : Posted(p, j, a) \in Int /\ Posted(p, j, a)' \in Int
    BY <1>1, PostedOnce, WholeAmounts DEF Known
  <2>2. Accounts!computePaymentEntries(PaymentTerms[p])[a] \in Int
    BY WholeAmounts
  <2>3. /\ PaperLedger[p][a] = Accounts!computePaymentEntries(PaymentTerms[p])[a]
                                 + Posted(p, E, a) + Posted(p, V, a)
        /\ PaperLedger'[p][a] = Accounts!computePaymentEntries(PaymentTerms[p])[a]
                                 + Posted(p, E, a)' + Posted(p, V, a)'
    BY DEF PaperLedger
  <2>4. CASE k = E
    <3>1. Posted(p, V, a)' = Posted(p, V, a)
      BY <1>2, <2>4 DEF Accounts!Payables
    <3>2. QED
      BY <2>1, <2>2, <2>3, <2>4, <3>1 DEF Accounts!Payables
  <2>5. CASE k = V
    <3>1. Posted(p, E, a)' = Posted(p, E, a)
      BY <1>2, <2>5 DEF Accounts!Payables
    <3>2. QED
      BY <2>1, <2>2, <2>3, <2>5, <3>1 DEF Accounts!Payables
  <2>6. QED
    BY <2>4, <2>5 DEF Accounts!Payables
<1>5. QED
  BY <1>3, <1>4

\* The postings of markSucceeded and of the reversal.
LEMMA PostOnPaper ==
  ASSUME RowsGiven, Known, Known', NEW p \in Payments, NEW k \in Accounts!Payables,
         <<p, k>> \in Payouts, \A q \in Others(p, k) : status'[q] = status[q]
  PROVE  /\ Paid(p, k)' /\ ~Paid(p, k) =>
              Paper!Post(p, Paper!computePayoutEntries(k, Paper!Amount(p, k)))
         /\ Paid(p, k) /\ ~Paid(p, k)' =>
              Paper!Post(p, Paper!computePayoutReversalEntries(k, Paper!Amount(p, k)))
<1> DEFINE e == Accounts!computePayoutEntries(k, Due(p, k))
<1>1. \A a \in Accounts!AccountTypes : e[a] \in Int /\ PaperLedger[p][a] \in Int
  <2>1. \A a \in Accounts!AccountTypes : \A j \in Accounts!Payables : Posted(p, j, a) \in Int
    BY PostedOnce, WholeAmounts DEF Known
  <2>2. QED
    BY <2>1, WholeAmounts DEF PaperLedger, Accounts!Payables
<1>2. \A a \in Accounts!AccountTypes :
        /\ Posted(p, k, a) = IF Paid(p, k) THEN e[a] ELSE 0
        /\ Posted(p, k, a)' = IF Paid(p, k)' THEN e[a] ELSE 0
  BY PostedOnce, PostedOnceAfter DEF Known
<1>3. PaperLedger' = [PaperLedger EXCEPT ![p] = PaperLedger'[p]]
  BY LedgerMoves DEF PaperLedger
<1>4. PaperLedger'[p] = [a \in Accounts!AccountTypes |-> PaperLedger'[p][a]]
  BY DEF PaperLedger
<1> HIDE DEF e
<1>5. ASSUME Paid(p, k)', ~Paid(p, k)
      PROVE  Paper!Post(p, Paper!computePayoutEntries(k, Paper!Amount(p, k)))
  <2>1. \A a \in Accounts!AccountTypes : PaperLedger'[p][a] = PaperLedger[p][a] + e[a]
    BY <1>1, <1>2, <1>5, LedgerMoves
  <2>2. PaperLedger'[p] = [a \in Accounts!AccountTypes |-> PaperLedger[p][a] + e[a]]
    BY <1>4, <2>1
  <2>3. Paper!computePayoutEntries(k, Paper!Amount(p, k)) = e
    BY SameFigures DEF e
  <2>4. QED
    BY <1>3, <2>2, <2>3, SameFigures DEF Paper!Post
<1>6. ASSUME Paid(p, k), ~Paid(p, k)'
      PROVE  Paper!Post(p, Paper!computePayoutReversalEntries(k, Paper!Amount(p, k)))
  <2>1. \A a \in Accounts!AccountTypes : PaperLedger'[p][a] = PaperLedger[p][a] + (-e[a])
    BY <1>1, <1>2, <1>6, LedgerMoves
  <2>2. PaperLedger'[p] = [a \in Accounts!AccountTypes |-> PaperLedger[p][a] + (-e[a])]
    BY <1>4, <2>1
  <2>3. \A a \in Accounts!AccountTypes :
          Paper!computePayoutReversalEntries(k, Paper!Amount(p, k))[a] = -e[a]
    BY SameFigures DEF e
  <2>4. PaperLedger'[p] = [a \in Accounts!AccountTypes |->
          PaperLedger[p][a] + Paper!computePayoutReversalEntries(k, Paper!Amount(p, k))[a]]
    BY <2>2, <2>3
  <2>5. QED
    BY <1>3, <2>4, SameFigures DEF Paper!Post
<1>7. QED
  BY <1>5, <1>6

\* The money of a transfer leaves the balance, or comes back.
LEMMA HeldOnPaper ==
  ASSUME RowsGiven, Known, Known', NEW p \in Payments, NEW k \in Accounts!Payables,
         <<p, k>> \in Payouts, \A q \in Others(p, k) : LastTransfer(q)' = LastTransfer(q)
  PROVE  /\ HasLeft(p, k)' /\ ~HasLeft(p, k) =>
              PaperHeld' = [PaperHeld EXCEPT ![p] = PaperHeld[p] - Paper!Amount(p, k)]
         /\ HasLeft(p, k) /\ ~HasLeft(p, k)' =>
              PaperHeld' = [PaperHeld EXCEPT ![p] = PaperHeld[p] + Paper!Amount(p, k)]
<1> DEFINE E == "ENTERTAINER_PAYABLE"
           V == "VENUE_PAYABLE"
<1>1. \A q \in Payments : \A j \in Accounts!Payables :
        SentOut(q, j)' = IF HasLeft(q, j)' THEN Due(q, j) ELSE 0
  BY SentOutOnceAfter
<1>2. \A q \in Payments : \A j \in Accounts!Payables : <<q, j>> # <<p, k>> =>
        SentOut(q, j)' = SentOut(q, j)
  <2>1. \A q \in Payments : \A j \in Accounts!Payables : <<q, j>> # <<p, k>> =>
          (HasLeft(q, j)' <=> HasLeft(q, j))
    BY DEF HasLeft, Others
  <2>2. QED
    BY <1>1, <2>1, SentOutOnce
<1>3. PaperHeld' = [PaperHeld EXCEPT ![p] = PaperHeld'[p]]
  <2>1. \A q \in Payments \ {p} : PaperHeld'[q] = PaperHeld[q]
    BY <1>2 DEF PaperHeld, Accounts!Payables
  <2>2. QED
    BY <2>1 DEF PaperHeld
<1>4. \A j \in Accounts!Payables : SentOut(p, j) \in Int /\ SentOut(p, j)' \in Int
  BY <1>1, SentOutOnce, WholeAmounts
<1>5. PaperHeld'[p] = PaperHeld[p] - SentOut(p, k)' + SentOut(p, k)
  <2>1. /\ PaperHeld[p] = PaymentTerms[p].gross - SentOut(p, E) - SentOut(p, V)
        /\ PaperHeld'[p] = PaymentTerms[p].gross - SentOut(p, E)' - SentOut(p, V)'
        /\ PaymentTerms[p].gross \in Int
    BY WholeAmounts DEF PaperHeld
  <2>2. CASE k = E
    <3>1. SentOut(p, V)' = SentOut(p, V)
      BY <1>2, <2>2 DEF Accounts!Payables
    <3>2. QED
      BY <1>4, <2>1, <2>2, <3>1 DEF Accounts!Payables
  <2>3. CASE k = V
    <3>1. SentOut(p, E)' = SentOut(p, E)
      BY <1>2, <2>3 DEF Accounts!Payables
    <3>2. QED
      BY <1>4, <2>1, <2>3, <3>1 DEF Accounts!Payables
  <2>4. QED
    BY <2>2, <2>3 DEF Accounts!Payables
<1>6. /\ SentOut(p, k) = IF HasLeft(p, k) THEN Due(p, k) ELSE 0
      /\ SentOut(p, k)' = IF HasLeft(p, k)' THEN Due(p, k) ELSE 0
  BY <1>1, SentOutOnce
<1>7. PaperHeld[p] \in Int /\ Due(p, k) \in Int /\ Paper!Amount(p, k) = Due(p, k)
  BY <1>4, WholeAmounts, SameFigures DEF PaperHeld, Accounts!Payables
<1>8. QED
  BY <1>3, <1>5, <1>6, <1>7

\* All of it holds at first.
LEMMA InitKnown == Init /\ early = {} => Known
<1> SUFFICES ASSUME Init, early = {} PROVE Known
  OBVIOUS
<1>1. Core /\ LedgerMatchesStatus
  BY InitCore
<1>2. Told
  BY DEF Init, Told, TaskTold, FailuresTold, IdleTask
<1>3. History
  BY DEF Init, History, IdleTask, At, Attempts
<1>4. QED
  BY <1>1, <1>2, <1>3 DEF Known, Recorded, OnTime

\* Rows that rest leave Books alone.
LEMMA RestsOnPaper ==
  ASSUME RowsGiven, Known, Known', \A r \in Payouts : RowRests(r)
  PROVE  UNCHANGED Paper!vars
<1>1. PaperStatus' = PaperStatus /\ PaperTransfer' = PaperTransfer
  BY DEF PaperStatus, PaperTransfer, RowRests
<1>2. PaperLedger' = PaperLedger /\ PaperHeld' = PaperHeld
  BY LedgerRests, HeldRests DEF RowRests
<1>3. QED
  BY <1>1, <1>2 DEF Paper!vars, AllSettled

\* A row that changes its status only.
LEMMA StatusMovesOnPaper ==
  ASSUME RowsGiven, Known, Known', NEW p \in Payments, NEW k \in Accounts!Payables,
         <<p, k>> \in Payouts,
         StatusMoves(status[<<p, k>>], LastTransfer(<<p, k>>), status'[<<p, k>>]),
         LastTransfer(<<p, k>>)' = LastTransfer(<<p, k>>), \A q \in Others(p, k) : RowRests(q)
  PROVE  Paper!Next
<1> DEFINE r == <<p, k>>
<1>1. /\ PaperTransfer' = PaperTransfer /\ PaperHeld' = PaperHeld /\ AllSettled' = AllSettled
      /\ PaperTransfer[p][k] = LastTransfer(r)
  <2>1. \A q \in Payouts : LastTransfer(q)' = LastTransfer(q)
    BY DEF RowRests, Others
  <2>2. QED
    BY <2>1, HeldRests DEF PaperTransfer, AllSettled
<1>2. PaperStatus' = [PaperStatus EXCEPT ![p][k] = status'[r]] /\ PaperStatus[p][k] = status[r]
  BY StatusOnPaper DEF RowRests, PaperStatus
<1>3. status[r] \in Statuses /\ k \in Paper!Payables
  BY SameFigures DEF Known, Recorded, Core, TypeOK
<1>4. \A q \in Others(p, k) : status'[q] = status[q]
  BY DEF RowRests
<1>5. PaperLedger' = PaperLedger \/ (status[r] = "SUCCESS" <=> status'[r] # "SUCCESS")
  <2>1. CASE status[r] = "SUCCESS" <=> status'[r] = "SUCCESS"
    BY <1>4, <2>1, LedgerRests DEF Others
  <2>2. QED
    BY <2>1
<1>6. CASE status[r] \in Open /\ status'[r] = "QUEUED"
  BY <1>1, <1>2, <1>3, <1>5, <1>6
  DEF Paper!Next, Paper!Hold, Paper!SetStatus, Paper!Open, Open
<1>7. CASE status[r] # "SUCCESS" /\ LastTransfer(r) \in {"delivered", "bounced"} /\ status'[r] = "SUCCESS"
  <2>1. Paper!Post(p, Paper!computePayoutEntries(k, Paper!Amount(p, k)))
    BY <1>4, <1>7, PostOnPaper DEF Paid
  <2>2. Paper!MarkSucceeded(p, k)
    BY <1>1, <1>2, <1>3, <1>7, <2>1
    DEF Paper!MarkSucceeded, Paper!SetStatus, Paper!Unpaid, Paper!Open, Statuses, Open
  <2>3. QED
    BY <1>3, <2>2 DEF Paper!Next
<1>8. CASE status[r] = "SUCCESS" /\ LastTransfer(r) = "bounced" /\ status'[r] = "RETRYING"
  <2>1. Paper!Post(p, Paper!computePayoutReversalEntries(k, Paper!Amount(p, k)))
    BY <1>4, <1>8, PostOnPaper DEF Paid
  <2>2. Paper!Reversed(p, k)
    BY <1>1, <1>2, <1>8, <2>1 DEF Paper!Reversed, Paper!SetStatus
  <2>3. QED
    BY <1>3, <2>2 DEF Paper!Next
<1>9. CASE status[r] # "SUCCESS" /\ LastTransfer(r) \in {"failed", "bounced"} /\ status'[r] = "RETRYING"
  <2>1. Paper!NotPaid(p, k)
    BY <1>1, <1>2, <1>3, <1>5, <1>9
    DEF Paper!NotPaid, Paper!SetStatus, Paper!Unpaid, Paper!Open, Statuses, Open
  <2>2. QED
    BY <1>3, <2>1 DEF Paper!Next
<1>10. CASE status[r] # "SUCCESS" /\ status'[r] = "FAILED"
  <2>1. Paper!MarkForReview(p, k)
    BY <1>1, <1>2, <1>3, <1>5, <1>10
    DEF Paper!MarkForReview, Paper!SetStatus, Paper!Unpaid, Paper!Open, Statuses, Open
  <2>2. QED
    BY <1>3, <2>1 DEF Paper!Next
<1>11. CASE status[r] = "FAILED" /\ status'[r] = "RETRYING"
  <2>1. Paper!RetryPayout(p, k)
    BY <1>1, <1>2, <1>5, <1>11 DEF Paper!RetryPayout, Paper!SetStatus
  <2>2. QED
    BY <1>3, <2>1 DEF Paper!Next
<1>12. QED
  BY <1>6, <1>7, <1>8, <1>9, <1>10, <1>11 DEF StatusMoves

\* A row whose transfer moves.
LEMMA TransferMovesOnPaper ==
  ASSUME RowsGiven, Known, Known', NEW p \in Payments, NEW k \in Accounts!Payables,
         <<p, k>> \in Payouts, status'[<<p, k>>] = status[<<p, k>>],
         TransferMoves(LastTransfer(<<p, k>>), LastTransfer(<<p, k>>)'),
         \A q \in Others(p, k) : RowRests(q)
  PROVE  Paper!Next
<1> DEFINE r == <<p, k>>
           l == LastTransfer(r)
           m == LastTransfer(r)'
<1>1. PaperStatus' = PaperStatus /\ PaperLedger' = PaperLedger /\ AllSettled' = AllSettled
  <2>1. \A q \in Payouts : status'[q] = status[q]
    BY DEF RowRests, Others
  <2>2. QED
    BY <2>1, LedgerRests DEF PaperStatus, AllSettled
<1>2. PaperTransfer' = [PaperTransfer EXCEPT ![p][k] = m] /\ PaperTransfer[p][k] = l
  BY TransferOnPaper DEF RowRests, PaperTransfer
<1>3. k \in Paper!Payables
  BY SameFigures
<1>4. \A q \in Others(p, k) : LastTransfer(q)' = LastTransfer(q)
  BY DEF RowRests
<1>5. l \notin Gone /\ m \in Gone => PaperHeld' = [PaperHeld EXCEPT ![p] = PaperHeld[p] - Paper!Amount(p, k)]
  BY <1>4, HeldOnPaper DEF HasLeft
<1>6. l \in Gone /\ m \notin Gone => PaperHeld' = [PaperHeld EXCEPT ![p] = PaperHeld[p] + Paper!Amount(p, k)]
  BY <1>4, HeldOnPaper DEF HasLeft
<1>7. (l \in Gone <=> m \in Gone) => PaperHeld' = PaperHeld
  BY <1>4, HeldRests DEF Others
<1>8. \/ l = "requested" /\ m \in {"out", "delivered", "none"}
      \/ l = "out" /\ m \in {"delivered", "failed"}
      \/ l = "delivered" /\ m = "bounced"
  BY DEF TransferMoves
<1>9. CASE l = "requested" /\ m \in {"out", "delivered", "none"}
  <2>1. Paper!Land(p, k)
    BY <1>1, <1>2, <1>5, <1>7, <1>9 DEF Paper!Land, Paper!SetTransfer, Paper!Gone, Gone
  <2>2. QED
    BY <1>3, <2>1 DEF Paper!Next
<1>10. CASE l = "out" /\ m = "delivered"
  <2>1. Paper!Deliver(p, k)
    BY <1>1, <1>2, <1>7, <1>10 DEF Paper!Deliver, Paper!SetTransfer, Gone
  <2>2. QED
    BY <1>3, <2>1 DEF Paper!Next
<1>11. CASE (l = "out" /\ m = "failed") \/ (l = "delivered" /\ m = "bounced")
  <2>1. Paper!Return(p, k)
    BY <1>1, <1>2, <1>6, <1>11 DEF Paper!Return, Paper!SetTransfer, Paper!Gone, Gone
  <2>2. QED
    BY <1>3, <2>1 DEF Paper!Next
<1>12. QED
  BY <1>8, <1>9, <1>10, <1>11

\* A row whose next attempt is claimed.
LEMMA ClaimOnPaper ==
  ASSUME RowsGiven, Known, Known', NEW p \in Payments, NEW k \in Accounts!Payables,
         <<p, k>> \in Payouts, status[<<p, k>>] \in Open, LastTransfer(<<p, k>>) \in Dead,
         status'[<<p, k>>] = "PROCESSING", LastTransfer(<<p, k>>)' = "requested",
         \A q \in Others(p, k) : RowRests(q)
  PROVE  Paper!Next
<1>1. \A q \in Others(p, k) : status'[q] = status[q] /\ LastTransfer(q)' = LastTransfer(q)
  BY DEF RowRests
<1>2. PaperLedger' = PaperLedger /\ PaperHeld' = PaperHeld /\ AllSettled' = AllSettled
  <2>1. \A q \in Payouts : status'[q] = "SUCCESS" <=> status[q] = "SUCCESS"
    BY <1>1 DEF Others, Open
  <2>2. \A q \in Payouts : LastTransfer(q)' \in Gone <=> LastTransfer(q) \in Gone
    BY <1>1 DEF Others, Gone, Dead
  <2>3. QED
    BY <2>1, <2>2, LedgerRests, HeldRests DEF AllSettled
<1>3. /\ PaperStatus' = [PaperStatus EXCEPT ![p][k] = "PROCESSING"]
      /\ PaperTransfer' = [PaperTransfer EXCEPT ![p][k] = "requested"]
  BY <1>1, StatusOnPaper, TransferOnPaper
<1>4. PaperStatus[p][k] = status[<<p, k>>] /\ PaperTransfer[p][k] = LastTransfer(<<p, k>>)
  BY DEF PaperStatus, PaperTransfer
<1>5. Paper!Claim(p, k)
  BY <1>2, <1>3, <1>4 DEF Paper!Claim, Paper!SetStatus, Paper!SetTransfer, Paper!Open, Paper!Dead, Open, Dead
<1>6. QED
  BY <1>5, SameFigures DEF Paper!Next

\* A payment the engine has not begun with has the entries of its settlement, and all of its
\* money is held.
LEMMA BeginsWithSettled ==
  ASSUME RowsGiven, Init, early = {}, NEW p \in Payments
  PROVE  Paper!JustSettled(p)
<1>1. \A r \in Payouts : LastTransfer(r) = "none"
  BY DEF Init, LastTransfer, Current, Sending, At, IdleTask
<1>2. ASSUME NEW k \in Accounts!Payables
      PROVE  SentOut(p, k) = 0 /\ \A a \in Accounts!AccountTypes : Posted(p, k, a) = 0
  <2>1. ~Paid(p, k) /\ ~HasLeft(p, k)
    BY <1>1 DEF Paid, HasLeft, Init, Gone
  <2>2. QED
    BY <2>1, InitKnown, PostedOnce, SentOutOnce DEF Known
<1>3. PaperLedger[p] = Paper!computePaymentEntries(PaymentTerms[p])
  <2>1. \A a \in Accounts!AccountTypes :
          PaperLedger[p][a] = Accounts!computePaymentEntries(PaymentTerms[p])[a]
    BY <1>2, WholeAmounts DEF PaperLedger, Accounts!Payables
  <2>2. PaperLedger[p] = Accounts!computePaymentEntries(PaymentTerms[p])
    BY <2>1 DEF PaperLedger, Accounts!computePaymentEntries
  <2>3. QED
    BY <2>2, SameFigures
<1>4. PaperStatus[p] = [k \in Paper!Payables |-> IF Paper!Amount(p, k) > 0 THEN "QUEUED" ELSE "none"]
  <2>1. \A k \in Accounts!Payables : <<p, k>> \in Payouts <=> Paper!Amount(p, k) > 0
    BY SameFigures DEF RowsGiven
  <2>2. QED
    BY <2>1, SameFigures DEF Init, PaperStatus
<1>5. PaperTransfer[p] = [k \in Paper!Payables |-> "none"]
  BY <1>1, SameFigures DEF PaperTransfer
<1>6. PaperHeld[p] = PaymentTerms[p].gross
  BY <1>2, WholeAmounts DEF PaperHeld, Accounts!Payables
<1>7. AllSettled[p] = "settled"
  BY DEF AllSettled
<1>8. QED
  BY <1>3, <1>4, <1>5, <1>6, <1>7 DEF Paper!JustSettled

\* An obligation is never negative.
LEMMA NothingNegative ==
  ASSUME RowsGiven, NEW p \in Payments, NEW k \in Accounts!Payables
  PROVE  Due(p, k) \in Nat
<1> DEFINE t == PaymentTerms[p]
<1>1. t.gross \in Nat /\ t.entertainerBps \in Nat /\ t.venueBps \in Nat
  BY DEF RowsGiven, Accounts!ValidTerms
<1>2. Accounts!BpsOf(t, k) \in Nat
  BY <1>1 DEF Accounts!BpsOf
<1>3. t.gross * Accounts!BpsOf(t, k) \in Nat
  BY <1>1, <1>2
<1>4. QED
  BY <1>3 DEF Due, Accounts!Share, Accounts!applyBasisPoints, RowsGiven

\* What the engine begins with is typed.
LEMMA BeginsTyped ==
  ASSUME RowsGiven, Init, early = {}
  PROVE  Paper!TypeOK
<1>1. PaymentTerms \in [Payments -> Terms] /\ AllSettled \in [Payments -> {"pending", "charged", "settled"}]
  BY DEF RowsGiven, AllSettled
<1>2. \A p \in Payments :
        /\ PaperLedger[p] = Accounts!computePaymentEntries(PaymentTerms[p])
        /\ PaperHeld[p] = PaymentTerms[p].gross
  BY BeginsWithSettled, SameFigures DEF Paper!JustSettled
<1>3. PaperLedger \in [Payments -> [Paper!AccountTypes -> Int]]
  <2>1. \A p \in Payments : \A a \in Accounts!AccountTypes : PaperLedger[p][a] \in Int
    BY <1>2, WholeAmounts
  <2>2. QED
    BY <2>1, SameFigures DEF PaperLedger
<1>4. PaperHeld \in [Payments -> Int]
  BY <1>2, WholeAmounts DEF PaperHeld
<1>5. /\ PaperStatus \in [Payments -> [Paper!Payables -> {"none", "SUCCESS"} \cup Paper!Unpaid]]
      /\ PaperTransfer \in [Payments -> [Paper!Payables -> {"requested"} \cup Paper!Gone \cup Paper!Dead]]
  <2>1. \A p \in Payments : \A k \in Accounts!Payables :
          PaperStatus[p][k] \in {"none", "QUEUED"} /\ PaperTransfer[p][k] = "none"
    BY BeginsWithSettled, SameFigures DEF Paper!JustSettled
  <2>2. QED
    BY <2>1, SameFigures DEF PaperStatus, PaperTransfer, Paper!Unpaid, Paper!Open, Paper!Dead
<1>6. ASSUME NEW p \in Payments, NEW k \in Accounts!Payables
      PROVE  PaperLedger[p][k] <= 0
  <2>1. PaperLedger[p][k] = -Due(p, k)
    BY <1>2 DEF Accounts!computePaymentEntries, Accounts!AccountTypes, Due
  <2>2. QED
    BY <2>1, NothingNegative
<1>7. QED
  BY <1>1, <1>3, <1>4, <1>5, <1>6, SameFigures DEF Paper!TypeOK

\* What a step keeps of what the proof knows.
LEMMA RecordedStep == ASSUME Recorded, [HistoryNext]_historyVars PROVE Recorded'
<1>1. [Next]_vars
  BY DEF HistoryNext, historyVars
<1>2. QED
  BY <1>1, CoreStep, ToldStep, HistoryStep, LedgerStep DEF Recorded

\* A step that takes nothing for dead too early is one of Books.
LEMMA StepOnPaper ==
  ASSUME RowsGiven, Recorded, [HistoryNext]_historyVars, early' = {}
  PROVE  [Paper!Next]_(Paper!vars)
<1>1. [Next]_vars /\ OnTime /\ Known /\ Known'
  <2>1. [Next]_vars /\ OnTime /\ OnTime'
    BY DEF HistoryNext, historyVars, OnTime
  <2>2. QED
    BY <2>1, RecordedStep DEF Known
<1>2. CASE \A r \in Payouts : RowRests(r)
  BY <1>1, <1>2, RestsOnPaper
<1>3. ASSUME NEW r \in Payouts, OnlyRow(r) PROVE [Paper!Next]_(Paper!vars)
  <2>1. PICK p \in Payments, k \in Accounts!Payables : r = <<p, k>>
    BY RowOf
  <2>2. \A q \in Others(p, k) : RowRests(q)
    BY <1>3, <2>1 DEF OnlyRow, Others
  <2>3. CASE RowRests(r)
    BY <1>1, <2>1, <2>2, <2>3, RestsOnPaper DEF Others
  <2>4. CASE RowMoves(r)
    BY <1>1, <2>1, <2>2, <2>4, StatusMovesOnPaper, TransferMovesOnPaper, ClaimOnPaper DEF RowMoves
  <2>5. QED
    BY <1>3, <2>3, <2>4 DEF OnlyRow
<1>4. QED
  BY <1>1, <1>2, <1>3, RowStep DEF Known, Recorded

\* Every behaviour of the payout engine, for all amounts, splits and numbers of attempts and
\* in every environment, goes on from settled books by steps of Books, for as long as no
\* attempt is taken for dead before its request has landed: what its concurrent tasks,
\* retries, crashes and webhooks post, and what the provider holds meanwhile, keeps what
\* SettledBooksAreKept (BookProofs) promises of such books.
THEOREM PaysByTheBooks ==
  ASSUME RowsGiven
  PROVE  HistorySpec => /\ Paper!TypeOK /\ \A p \in Payments : Paper!JustSettled(p)
                        /\ [][early' = {} => [Paper!Next]_(Paper!vars)]_historyVars
<1>1. ASSUME Init, early = {} PROVE Paper!TypeOK /\ \A p \in Payments : Paper!JustSettled(p)
  BY <1>1, BeginsWithSettled, BeginsTyped
<1>2. Recorded /\ [HistoryNext]_historyVars => (early' = {} => [Paper!Next]_(Paper!vars))
  BY StepOnPaper
<1>3. Recorded /\ [HistoryNext]_historyVars => Recorded'
  BY RecordedStep
<1>4. Init /\ early = {} => Recorded
  BY InitKnown DEF Known
<1>5. QED
  BY <1>1, <1>2, <1>3, <1>4, PTL DEF HistorySpec, HistoryInit

\* A posting moves an amount between a payee's line and the clearing account; the platform's
\* line it leaves alone.
LEMMA PostedLines ==
  ASSUME RowsGiven, Recorded, NEW p \in Payments, NEW k \in Accounts!Payables
  PROVE  /\ Due(p, k) \in Int
         /\ \A a \in Accounts!AccountTypes :
              Posted(p, k, a) = IF ~Paid(p, k) THEN 0
                                ELSE IF a = k THEN Due(p, k)
                                ELSE IF a = "PROCESSOR_CLEARING" THEN -Due(p, k)
                                ELSE 0
BY PostedOnce, WholeAmounts DEF Accounts!computePayoutEntries

\* The accounts of a payment, line by line.
LEMMA LedgerLines ==
  ASSUME RowsGiven, Recorded, NEW p \in Payments
  PROVE  /\ PaymentTerms[p].gross \in Int
         /\ \A k \in Accounts!Payables :
              /\ Due(p, k) \in Int /\ Posted(p, k, k) \in Int
              /\ Posted(p, k, "PROCESSOR_CLEARING") = -Posted(p, k, k)
              /\ PaperLedger[p][k] = Posted(p, k, k) - Due(p, k)
         /\ PaperLedger[p]["PROCESSOR_CLEARING"] =
              PaymentTerms[p].gross - Posted(p, "ENTERTAINER_PAYABLE", "ENTERTAINER_PAYABLE")
                                    - Posted(p, "VENUE_PAYABLE", "VENUE_PAYABLE")
         /\ PaperLedger[p]["PLATFORM_REVENUE"] =
              Due(p, "ENTERTAINER_PAYABLE") + Due(p, "VENUE_PAYABLE") - PaymentTerms[p].gross
<1> DEFINE E == "ENTERTAINER_PAYABLE"
           V == "VENUE_PAYABLE"
           C == "PROCESSOR_CLEARING"
           R == "PLATFORM_REVENUE"
<1>1. PaymentTerms[p].gross \in Int
  BY WholeAmounts
<1>2. ASSUME NEW k \in Accounts!Payables
      PROVE  /\ Due(p, k) \in Int /\ Posted(p, k, k) \in Int
             /\ Posted(p, k, C) = -Posted(p, k, k) /\ Posted(p, k, R) = 0
             /\ \A j \in Accounts!Payables : j # k => Posted(p, k, j) = 0
  <2>1. /\ Due(p, k) \in Int
        /\ \A a \in Accounts!AccountTypes :
             Posted(p, k, a) = IF ~Paid(p, k) THEN 0 ELSE IF a = k THEN Due(p, k)
                               ELSE IF a = C THEN -Due(p, k) ELSE 0
    BY PostedLines
  <2>2. QED
    BY <2>1 DEF Accounts!AccountTypes, Accounts!Payables
<1>3. \A a \in Accounts!AccountTypes :
        PaperLedger[p][a] = Accounts!computePaymentEntries(PaymentTerms[p])[a]
                              + Posted(p, E, a) + Posted(p, V, a)
  BY DEF PaperLedger
<1>4. \A a \in Accounts!AccountTypes : Accounts!computePaymentEntries(PaymentTerms[p])[a] =
        IF a \in Accounts!Payables THEN -Due(p, a)
        ELSE IF a = C THEN PaymentTerms[p].gross
        ELSE Due(p, E) + Due(p, V) - PaymentTerms[p].gross
  BY DEF Accounts!computePaymentEntries, Due
<1>5. \A k \in Accounts!Payables : PaperLedger[p][k] = Posted(p, k, k) - Due(p, k)
  <2>1. PaperLedger[p][E] = Posted(p, E, E) - Due(p, E)
    BY <1>2, <1>3, <1>4 DEF Accounts!AccountTypes, Accounts!Payables
  <2>2. PaperLedger[p][V] = Posted(p, V, V) - Due(p, V)
    BY <1>2, <1>3, <1>4 DEF Accounts!AccountTypes, Accounts!Payables
  <2>3. QED
    BY <2>1, <2>2 DEF Accounts!Payables
<1>6. PaperLedger[p][C] = PaymentTerms[p].gross - Posted(p, E, E) - Posted(p, V, V)
  BY <1>1, <1>2, <1>3, <1>4 DEF Accounts!AccountTypes, Accounts!Payables
<1>7. PaperLedger[p][R] = Due(p, E) + Due(p, V) - PaymentTerms[p].gross
  BY <1>1, <1>2, <1>3, <1>4 DEF Accounts!AccountTypes, Accounts!Payables
<1>8. QED
  BY <1>1, <1>2, <1>5, <1>6, <1>7

\* What Books reads off a row.
LEMMA RowOnPaper ==
  ASSUME RowsGiven, Recorded, NEW p \in Payments, NEW k \in Accounts!Payables
  PROVE  /\ PaperStatus[p][k] = "SUCCESS" <=> Paid(p, k)
         /\ PaperTransfer[p][k] \in Paper!Gone <=> HasLeft(p, k)
         /\ Posted(p, k, k) = IF Paid(p, k) THEN Due(p, k) ELSE 0
<1>1. PaperStatus[p][k] = "SUCCESS" <=> Paid(p, k)
  BY DEF PaperStatus, Paid
<1>2. PaperTransfer[p][k] \in Paper!Gone <=> HasLeft(p, k)
  BY DEF PaperTransfer, HasLeft, Gone, Paper!Gone
<1>3. Posted(p, k, k) = IF Paid(p, k) THEN Due(p, k) ELSE 0
  BY PostedLines DEF Accounts!AccountTypes
<1>4. QED
  BY <1>1, <1>2, <1>3

\* The obligations of a payment do not exceed it: each is rounded down.
LEMMA DueWithinGross ==
  ASSUME RowsGiven, NEW p \in Payments
  PROVE  Due(p, "ENTERTAINER_PAYABLE") + Due(p, "VENUE_PAYABLE") <= PaymentTerms[p].gross
<1> DEFINE B == BasisPointsTotal
           E == "ENTERTAINER_PAYABLE"
           V == "VENUE_PAYABLE"
<1>1. PICK t : t = PaymentTerms[p] /\ Accounts!ValidTerms(t)
  BY DEF RowsGiven
<1>2. PICK g \in Nat, e \in Nat, v \in Nat :
        /\ g = t.gross /\ e = Accounts!BpsOf(t, E) /\ v = Accounts!BpsOf(t, V) /\ e + v <= B
  BY <1>1 DEF Accounts!ValidTerms, Accounts!BpsOf, RowsGiven
<1>3. B \in Nat \ {0} /\ g * e \in Nat /\ g * v \in Nat
  BY DEF RowsGiven
<1>4. g * e + g * v <= g * B
  <2>1. PICK r \in Nat : e + v + r = B
    <3>1. \A m, n \in Nat : m <= n => n - m \in Nat /\ m + (n - m) = n
      OBVIOUS
    <3>2. e + v \in Nat /\ e + v <= B /\ B \in Nat
      BY <1>2, <1>3
    <3>3. B - (e + v) \in Nat /\ (e + v) + (B - (e + v)) = B
      BY <3>1, <3>2
    <3>4. QED
      BY <3>3
  <2>2. g * (e + v + r) = g * e + g * v + g * r /\ g * r \in Nat
    BY <2>1
  <2>3. QED
    BY <1>3, <2>1, <2>2
<1>5. PICK x \in Nat, y \in Nat :
        /\ x = (g * e) \div B /\ y = (g * v) \div B
        /\ x * B <= g * e /\ y * B <= g * v
  BY <1>3
<1>6. (x + y) * B <= g * B
  BY <1>3, <1>4, <1>5
<1>7. x + y <= g
  BY <1>3, <1>6
<1>8. Due(p, E) = x /\ Due(p, V) = y
  BY <1>1, <1>2, <1>5 DEF Due, Accounts!Share, Accounts!applyBasisPoints
<1>9. QED
  BY <1>1, <1>2, <1>7, <1>8

\* The ledger needs nothing but that its postings alternate.
LEMMA LedgerOnPaper ==
  ASSUME RowsGiven, Recorded
  PROVE  Paper!BooksBalance /\ Paper!NothingOwedIsLost
<1>1. \A p \in Payments : Paper!Imbalance(PaperLedger[p]) = 0
  BY LedgerLines DEF Paper!Imbalance, Accounts!Payables
<1>2. ASSUME NEW p \in Payments, NEW k \in Accounts!Payables
      PROVE  -PaperLedger[p][k] = IF PaperStatus[p][k] = "SUCCESS" THEN 0
                                  ELSE Paper!Share(PaymentTerms[p], k)
  <2>1. -PaperLedger[p][k] = IF Paid(p, k) THEN 0 ELSE Due(p, k)
    BY LedgerLines, RowOnPaper
  <2>2. Paper!Share(PaymentTerms[p], k) = Due(p, k)
    BY SameFigures DEF Paper!Amount
  <2>3. QED
    BY <2>1, <2>2, RowOnPaper, Zenon
<1>3. QED
  BY <1>1, <1>2, SameFigures DEF Paper!BooksBalance, Paper!NothingOwedIsLost

\* What the provider holds also needs that one transfer at a time is on its way.
LEMMA BalanceOnPaper ==
  ASSUME RowsGiven, Known
  PROVE  Paper!BooksExplainTheBalance /\ Paper!ObligationsAreCovered /\ Paper!PlatformPartStays
<1> DEFINE E == "ENTERTAINER_PAYABLE"
           V == "VENUE_PAYABLE"
<1>1. E \in Accounts!Payables /\ V \in Accounts!Payables /\ Paper!Payables = Accounts!Payables
  BY SameFigures DEF Accounts!Payables
<1>2. Recorded
  BY DEF Known
<1>3. ASSUME NEW p \in Payments, NEW k \in Accounts!Payables
      PROVE  /\ SentOut(p, k) = IF HasLeft(p, k) THEN Due(p, k) ELSE 0
             /\ Due(p, k) \in Int /\ SentOut(p, k) \in Int /\ Posted(p, k, k) \in Int
             /\ Paper!Unrecorded(p, k) = Posted(p, k, k) - SentOut(p, k)
             /\ Paper!Kept(p, k) = Due(p, k) - SentOut(p, k)
  <2>1. SentOut(p, k) = IF HasLeft(p, k) THEN Due(p, k) ELSE 0
    BY SentOutOnce
  <2>2. Due(p, k) \in Int /\ Posted(p, k, k) \in Int
    BY <1>2, LedgerLines
  <2>3. QED
    BY <1>2, <2>1, <2>2, RowOnPaper, SameFigures DEF Paper!Unrecorded, Paper!Kept
<1>4. \A p \in Payments : PaperHeld[p] = PaymentTerms[p].gross - SentOut(p, E) - SentOut(p, V)
  BY DEF PaperHeld
<1>5. ASSUME NEW p \in Payments
      PROVE  PaperHeld[p] = PaperLedger[p]["PROCESSOR_CLEARING"]
                              + Paper!Unrecorded(p, E) + Paper!Unrecorded(p, V)
  <2>1. /\ PaymentTerms[p].gross \in Int
        /\ PaperLedger[p]["PROCESSOR_CLEARING"] =
             PaymentTerms[p].gross - Posted(p, E, E) - Posted(p, V, V)
    BY <1>2, LedgerLines
  <2>2. /\ SentOut(p, E) \in Int /\ Posted(p, E, E) \in Int
        /\ Paper!Unrecorded(p, E) = Posted(p, E, E) - SentOut(p, E)
    BY <1>1, <1>3
  <2>3. /\ SentOut(p, V) \in Int /\ Posted(p, V, V) \in Int
        /\ Paper!Unrecorded(p, V) = Posted(p, V, V) - SentOut(p, V)
    BY <1>1, <1>3
  <2>4. QED
    BY <1>4, <2>1, <2>2, <2>3
<1>6. \A p \in Payments :
        PaperHeld[p] = Paper!Kept(p, E) + Paper!Kept(p, V) - PaperLedger[p]["PLATFORM_REVENUE"]
  BY <1>1, <1>2, <1>3, <1>4, LedgerLines
<1>7. ASSUME NEW p \in Payments
      PROVE  /\ 0 <= -PaperLedger[p]["PLATFORM_REVENUE"]
             /\ -PaperLedger[p]["PLATFORM_REVENUE"] <= PaperHeld[p]
  <2>1. /\ Due(p, E) \in Nat /\ Due(p, V) \in Nat
        /\ Due(p, E) + Due(p, V) <= PaymentTerms[p].gross
    BY <1>1, NothingNegative, DueWithinGross
  <2>2. SentOut(p, E) \in 0 .. Due(p, E) /\ SentOut(p, V) \in 0 .. Due(p, V)
    BY <1>1, <1>3, <2>1
  <2>3. /\ PaymentTerms[p].gross \in Int
        /\ PaperLedger[p]["PLATFORM_REVENUE"] = Due(p, E) + Due(p, V) - PaymentTerms[p].gross
    BY <1>2, LedgerLines
  <2>4. QED
    BY <1>4, <2>1, <2>2, <2>3
<1>8. QED
  BY <1>1, <1>5, <1>6, <1>7
  DEF Paper!BooksExplainTheBalance, Paper!ObligationsAreCovered, Paper!PlatformPartStays

\* The relations of Books, of the payout engine itself.  In every environment no posting of
\* its tasks unbalances a payment's entries, and a payee is owed its share until the payout
\* is recorded as paid.  And until an attempt is taken for dead before its request has
\* landed, the provider holds what the clearing account says but for transfers not recorded
\* yet, and it holds the platform's part and every share that has not left: however often
\* transfers are tried, no more is sent of a payment than its payees' shares.
THEOREM EngineKeepsTheBooks ==
  ASSUME RowsGiven
  PROVE  HistorySpec => [](/\ Paper!BooksBalance /\ Paper!NothingOwedIsLost
                           /\ early = {} => /\ Paper!BooksExplainTheBalance
                                            /\ Paper!ObligationsAreCovered
                                            /\ Paper!PlatformPartStays)
<1>1. Recorded /\ [HistoryNext]_historyVars => Recorded'
  BY RecordedStep
<1>2. Init /\ early = {} => Recorded
  BY InitKnown DEF Known
<1>3. Recorded => Paper!BooksBalance /\ Paper!NothingOwedIsLost
  BY LedgerOnPaper
<1>4. Recorded /\ early = {} =>
        Paper!BooksExplainTheBalance /\ Paper!ObligationsAreCovered /\ Paper!PlatformPartStays
  BY BalanceOnPaper DEF Known, OnTime
<1>5. QED
  BY <1>1, <1>2, <1>3, <1>4, PTL DEF HistorySpec, HistoryInit

=============================================================================
