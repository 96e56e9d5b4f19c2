-------------------------- MODULE SettlementProofs --------------------------
(* What TLAPS proves of Settlement, for every number of payments, tasks and    *)
(* payees, whatever their shares, and any number of faults.                    *)
EXTENDS Settlement, TLAPS

-----------------------------------------------------------------------------
(* The inductive invariant *)

\* The labels of initializePayment after it created the row.
Opening == {"checkout", "answer", "abort"}

\* What a task knows when it holds record r: a payment that is being opened has
\* not been offered to its guest; one about to be claimed is paid; and what is
\* about to be enqueued is committed.
TaskOK(p, r) ==
  /\ r.pc \in Opening => p \notin checkout /\ payment[p] # "absent"
  /\ r.pc = "claim" => charge[p] = "success"
  /\ r.pc = "enqueue" => r.left \subseteq payouts[p]

TasksOK == \A p \in Payments : \A t \in Tasks : TaskOK(p, task[p][t])

\* A payment is opened by one task.
OneOpening ==
  \A p \in Payments : \A t, u \in Tasks :
    task[p][t].pc \in Opening /\ task[p][u].pc \in Opening => t = u

\* Nobody pays without a checkout, and there is none without a row.
ChargeOK ==
  \A p \in Payments :
    /\ p \notin checkout => charge[p] \in {"unknown", "open"}
    /\ payment[p] = "absent" => p \notin checkout

\* A job that is to run has attempts left, and there is none before the charge is paid.
QueueOK ==
  /\ job \in [Payments -> {"none", "waiting", "failed"} \cup Tasks]
  /\ tries \in [Payments -> 0 .. MaxTries]
  /\ stalled \subseteq Payments
  /\ \A p \in Payments :
       /\ job[p] \in Tasks \cup {"waiting"} => tries[p] < MaxTries
       /\ charge[p] \notin {"success", "odd"} => job[p] = "none"

IInv ==
  TypeOK /\ TasksOK /\ OneOpening /\ ChargeOK /\ QueueOK /\ PostedExactlyOnce /\ OnlyPaidIsSettled

\* The idle task is one.
LEMMA IdleTaskType == IdleTask \in TaskStates
BY DEF IdleTask, TaskStates, Labels

\* A task takes a record it is entitled to, and leaves the other tasks entitled to theirs.
LEMMA TaskMoves ==
  ASSUME IInv, NEW p \in Payments, NEW t \in Tasks, NEW r \in TaskStates,
         task' = [task EXCEPT ![p][t] = r], TaskOK(p, r)',
         \A q \in Payments : \A u \in Tasks :
           ~(q = p /\ u = t) /\ TaskOK(q, task[q][u]) => TaskOK(q, task[q][u])',
         r.pc \in Opening => \A u \in Tasks \ {t} : task[p][u].pc \notin Opening
  PROVE  task' \in [Payments -> [Tasks -> TaskStates]] /\ TasksOK' /\ OneOpening'
<1>1. task' \in [Payments -> [Tasks -> TaskStates]]
  BY DEF IInv, TypeOK
<1>2. \A q \in Payments : \A u \in Tasks : task'[q][u] = IF q = p /\ u = t THEN r ELSE task[q][u]
  BY DEF IInv, TypeOK
<1>3. TasksOK'
  <2>1. ASSUME NEW q \in Payments, NEW u \in Tasks PROVE TaskOK(q, task[q][u])'
    <3>1. CASE q = p /\ u = t
      BY <1>2, <3>1
    <3>2. CASE ~(q = p /\ u = t)
      BY <3>2 DEF IInv, TasksOK
    <3>3. QED
      BY <3>1, <3>2
  <2>2. QED
    BY <2>1 DEF TasksOK
<1>4. OneOpening'
  BY <1>2 DEF IInv, OneOpening
<1>5. QED
  BY <1>1, <1>3, <1>4

\* It leaves the other tasks alone.
LEMMA OthersStay ==
  ASSUME IInv, NEW p \in Payments, NEW t \in Tasks, NEW r, task' = [task EXCEPT ![p][t] = r]
  PROVE  \A q \in Payments : \A u \in Tasks : ~(q = p /\ u = t) => task'[q][u] = task[q][u]
BY DEF IInv, TypeOK

\* Nothing happens to the jobs.
LEMMA SameQueue ==
  ASSUME IInv, UNCHANGED queue, UNCHANGED charge
  PROVE  QueueOK'
BY DEF IInv, QueueOK, queue

\* The steps of a job: it ends or is retried, is taken up, stalls, or is added once its
\* charge is paid.  A failed job stays.
JobStep(p, t) ==
  \/ UNCHANGED queue \/ EndJob(p, t) \/ RetryJob(p, t)
  \/ job[p] = "waiting" /\ job' = [job EXCEPT ![p] = t] /\ UNCHANGED <<tries, stalled>>

EventStep(p) ==
  \/ job[p] \in Tasks /\ Stall(p)
  \/ charge'[p] \in {"success", "odd"} /\ AddJob(p)

LEMMA TaskJob ==
  ASSUME IInv, NEW p \in Payments, NEW t \in Tasks, JobStep(p, t), UNCHANGED charge
  PROVE  /\ QueueOK'
         /\ \A q \in Payments : q # p \/ job[q] = "failed" => job'[q] = job[q]
<1> USE SettlementWorkersAssumption, SettlementTriesAssumption
<1>1. CASE UNCHANGED queue
  BY <1>1, SameQueue DEF queue
<1>2. CASE EndJob(p, t)
  BY <1>2 DEF EndJob, IInv, QueueOK
<1>3. CASE RetryJob(p, t) /\ job[p] = t
  <2>1. tries[p] < MaxTries /\ charge[p] \in {"success", "odd"} /\ tries[p] \in 0 .. MaxTries
    BY <1>3 DEF IInv, QueueOK
  <2>2. /\ \A q \in Payments : tries'[q] = IF q = p THEN tries[p] + 1 ELSE tries[q]
        /\ \A q \in Payments : job'[q] = IF q # p THEN job[q]
                                         ELSE IF tries[p] + 1 < MaxTries THEN "waiting" ELSE "failed"
        /\ job' \in [Payments -> {"none", "waiting", "failed"} \cup Tasks]
        /\ stalled' = stalled
    BY <1>3 DEF RetryJob, IInv, QueueOK
  <2>3. tries' \in [Payments -> 0 .. MaxTries]
    BY <1>3, <2>1 DEF RetryJob, IInv, QueueOK
  <2>4. QED
    BY <1>3, <2>1, <2>2, <2>3 DEF IInv, QueueOK
<1>4. CASE RetryJob(p, t) /\ job[p] # t
  BY <1>4, SameQueue DEF RetryJob, queue
<1>5. CASE job[p] = "waiting" /\ job' = [job EXCEPT ![p] = t] /\ UNCHANGED <<tries, stalled>>
  BY <1>5 DEF IInv, QueueOK
<1>6. QED
  BY <1>1, <1>2, <1>3, <1>4, <1>5 DEF JobStep

LEMMA EventJob ==
  ASSUME IInv, NEW p \in Payments, EventStep(p), \A q \in Payments : q # p => charge'[q] = charge[q],
         charge[p] \in {"success", "odd"} => charge' = charge
  PROVE  /\ QueueOK'
         /\ \A q \in Payments : q # p \/ job[q] = "failed" => job'[q] = job[q]
<1> USE SettlementWorkersAssumption, SettlementTriesAssumption
<1>1. CASE job[p] \in Tasks /\ Stall(p)
  BY <1>1 DEF Stall, IInv, QueueOK
<1>2. CASE charge'[p] \in {"success", "odd"} /\ AddJob(p) /\ job[p] = "none"
  BY <1>2 DEF AddJob, IInv, QueueOK
<1>3. CASE charge'[p] \in {"success", "odd"} /\ AddJob(p) /\ job[p] # "none"
  BY <1>3 DEF AddJob, queue, IInv, QueueOK
<1>4. QED
  BY <1>1, <1>2, <1>3 DEF EventStep

\* A step of a task that changes neither the books nor the provider, and opens nothing.
LEMMA QuietMove ==
  ASSUME IInv, NEW p \in Payments, NEW t \in Tasks, NEW r \in TaskStates,
         task' = [task EXCEPT ![p][t] = r], TaskOK(p, r),
         UNCHANGED <<books, provider>>, r.pc \in Opening => task[p][t].pc \in Opening,
         queued' \in [Payments -> SUBSET Payees],
         \A q \in Payments : queued'[q] \subseteq payouts[q],
         QueueOK', faults' \in 0 .. MaxFaults
  PROVE  IInv'
<1>1. \A q \in Payments : \A u \in Tasks : task'[q][u] = IF q = p /\ u = t THEN r ELSE task[q][u]
  BY DEF IInv, TypeOK
<1>2. task' \in [Payments -> [Tasks -> TaskStates]] /\ TasksOK' /\ OneOpening'
  <2>1. TaskOK(p, r)'
    BY DEF TaskOK, books, provider
  <2>2. \A q \in Payments : \A u \in Tasks :
          ~(q = p /\ u = t) /\ TaskOK(q, task[q][u]) => TaskOK(q, task[q][u])'
    BY <1>1 DEF TaskOK, books, provider
  <2>3. r.pc \in Opening => \A u \in Tasks \ {t} : task[p][u].pc \notin Opening
    BY DEF IInv, OneOpening
  <2>4. QED
    BY <2>1, <2>2, <2>3, TaskMoves
<1>3. TypeOK'
  BY <1>2 DEF IInv, TypeOK, QueueOK, books, provider
<1>4. ChargeOK' /\ PostedExactlyOnce' /\ OnlyPaidIsSettled'
  BY DEF IInv, ChargeOK, PostedExactlyOnce, OnlyPaidIsSettled, books, provider
<1>5. QED
  BY <1>2, <1>3, <1>4 DEF IInv

\* In particular a task may return ...
LEMMA QuietLeave ==
  ASSUME IInv, NEW p \in Payments, NEW t \in Tasks, Leave(p, t), UNCHANGED <<books, queued, provider>>,
         QueueOK', faults' \in 0 .. MaxFaults
  PROVE  IInv'
<1>1. TaskOK(p, IdleTask) /\ IdleTask.pc \notin Opening
  BY DEF TaskOK, IdleTask, Opening
<1>2. queued' \in [Payments -> SUBSET Payees] /\ \A q \in Payments : queued'[q] \subseteq payouts[q]
  BY DEF IInv, TypeOK, PostedExactlyOnce
<1>3. QED
  BY <1>1, <1>2, IdleTaskType, QuietMove DEF Leave

\* ... or go on to a label that asks nothing of it.
LEMMA QuietGoto ==
  ASSUME IInv, NEW p \in Payments, NEW t \in Tasks, NEW label \in Labels, Goto(p, t, label),
         UNCHANGED <<books, queued, provider, queue, faults>>,
         label # "enqueue", label = "claim" => charge[p] = "success",
         label \in Opening => task[p][t].pc \in Opening
  PROVE  IInv'
<1> DEFINE r == [task[p][t] EXCEPT !.pc = label]
<1>1. task[p][t] \in TaskStates /\ TaskOK(p, task[p][t])
  BY DEF IInv, TypeOK, TasksOK
<1>2. r \in TaskStates /\ r.pc = label
  BY <1>1 DEF TaskStates
<1>3. task' = [task EXCEPT ![p][t] = r]
  BY DEF Goto
<1>4. queued' \in [Payments -> SUBSET Payees] /\ \A q \in Payments : queued'[q] \subseteq payouts[q]
  BY DEF IInv, TypeOK, PostedExactlyOnce
<1>5. QueueOK' /\ faults' \in 0 .. MaxFaults
  BY SameQueue DEF IInv, TypeOK, provider
<1> HIDE DEF r
<1>6. TaskOK(p, r)
  BY <1>1, <1>2 DEF TaskOK
<1>7. QED
  BY <1>2, <1>3, <1>4, <1>5, <1>6, QuietMove

\* ... or a task starts.
LEMMA QuietStart ==
  ASSUME IInv, NEW p \in Payments, NEW t \in Tasks, Start(p, t, "settle"),
         UNCHANGED <<books, queued, provider, faults>>, QueueOK'
  PROVE  IInv'
<1> DEFINE r == [pc |-> "settle", left |-> {}]
<1>1. r \in TaskStates /\ TaskOK(p, r) /\ r.pc \notin Opening
  BY DEF TaskStates, Labels, TaskOK, Opening
<1>2. queued' \in [Payments -> SUBSET Payees] /\ \A q \in Payments : queued'[q] \subseteq payouts[q]
  BY DEF IInv, TypeOK, PostedExactlyOnce
<1>3. faults' \in 0 .. MaxFaults
  BY DEF IInv, TypeOK
<1>4. QED
  BY <1>1, <1>2, <1>3, QuietMove DEF Start

\* A transition between open statuses, and the task returns.
LEMMA TransitionLeaves ==
  ASSUME IInv, NEW p \in Payments, NEW t \in Tasks, Leave(p, t), NEW s \in {"PENDING", "FAILED"},
         payment' = [payment EXCEPT ![p] = s], payment[p] \notin {"SUCCESS", "absent"},
         UNCHANGED <<postings, payouts, queued, provider, faults>>, QueueOK'
  PROVE  IInv'
<1>1. \A q \in Payments : payment'[q] = IF q = p THEN s ELSE payment[q]
  BY DEF IInv, TypeOK
<1>2. \A q \in Payments : \A u \in Tasks :
        task'[q][u] = IF q = p /\ u = t THEN IdleTask ELSE task[q][u]
  BY DEF Leave, IInv, TypeOK
<1>3. task' \in [Payments -> [Tasks -> TaskStates]] /\ TasksOK' /\ OneOpening'
  <2>1. TaskOK(p, IdleTask)' /\ IdleTask.pc \notin Opening
    BY DEF TaskOK, IdleTask, Opening
  <2>2. \A q \in Payments : \A u \in Tasks :
          ~(q = p /\ u = t) /\ TaskOK(q, task[q][u]) => TaskOK(q, task[q][u])'
    BY <1>1, <1>2 DEF TaskOK, provider
  <2>3. QED
    BY <2>1, <2>2, IdleTaskType, TaskMoves DEF Leave
<1>4. TypeOK'
  BY <1>3 DEF IInv, TypeOK, QueueOK, provider, Statuses
<1>5. ChargeOK' /\ PostedExactlyOnce' /\ OnlyPaidIsSettled'
  BY <1>1 DEF IInv, ChargeOK, PostedExactlyOnce, OnlyPaidIsSettled, provider
<1>6. QED
  BY <1>3, <1>4, <1>5 DEF IInv

-----------------------------------------------------------------------------
(* Every step keeps the invariant *)

\* The row is created: nobody can be opening a payment that has no row.
LEMMA CreateKeeps ==
  ASSUME IInv, NEW p \in Payments, NEW t \in Tasks, CreatePayment(p, t)
  PROVE  IInv'
<1> DEFINE r == [pc |-> "checkout", left |-> {}]
<1>1. \A q \in Payments : payment'[q] = IF q = p THEN "CREATED" ELSE payment[q]
  BY DEF CreatePayment, IInv, TypeOK
<1>2. r \in TaskStates /\ TaskOK(p, r)'
  BY <1>1 DEF CreatePayment, TaskStates, Labels, TaskOK, Opening, IInv, ChargeOK, provider
<1>3. \A q \in Payments : \A u \in Tasks :
        ~(q = p /\ u = t) /\ TaskOK(q, task[q][u]) => TaskOK(q, task[q][u])'
  BY <1>1, OthersStay DEF CreatePayment, Start, TaskOK, provider
<1>4. \A u \in Tasks \ {t} : task[p][u].pc \notin Opening
  BY DEF CreatePayment, IInv, TasksOK, TaskOK
<1>5. task' \in [Payments -> [Tasks -> TaskStates]] /\ TasksOK' /\ OneOpening'
  <2>1. task' = [task EXCEPT ![p][t] = r]
    BY DEF CreatePayment, Start
  <2> HIDE DEF r
  <2>2. QED
    BY <1>2, <1>3, <1>4, <2>1, TaskMoves
<1>6. TypeOK' /\ QueueOK'
  BY <1>5, SameQueue DEF CreatePayment, IInv, TypeOK, QueueOK, provider, queue, Statuses
<1>7. ChargeOK' /\ PostedExactlyOnce' /\ OnlyPaidIsSettled'
  BY <1>1 DEF CreatePayment, IInv, ChargeOK, PostedExactlyOnce, OnlyPaidIsSettled, provider
<1>8. QED
  BY <1>5, <1>6, <1>7 DEF IInv

\* While a payment is being opened, it is not charged and hence not settled.
LEMMA OpeningIsUnpaid ==
  ASSUME IInv, NEW p \in Payments, NEW t \in Tasks, task[p][t].pc \in Opening
  PROVE  /\ p \notin checkout /\ charge[p] \in {"unknown", "open"}
         /\ payment[p] \notin {"absent", "SUCCESS"}
         /\ \A u \in Tasks : task[p][u].pc # "claim"
BY DEF IInv, TasksOK, TaskOK, ChargeOK, OnlyPaidIsSettled

\* The provider opens the checkout of an unpaid payment, or does not.
LEMMA RequestKeeps ==
  ASSUME IInv, NEW p \in Payments, NEW t \in Tasks, RequestCheckout(p, t)
  PROVE  IInv'
<1>1. PICK c \in {"unknown", "open"} : charge' = [charge EXCEPT ![p] = c]
  BY DEF RequestCheckout
<1>2. \A q \in Payments : charge'[q] = IF q = p THEN c ELSE charge[q]
  BY <1>1 DEF IInv, TypeOK
<1>3. /\ p \notin checkout /\ payment[p] \notin {"absent", "SUCCESS"}
      /\ \A u \in Tasks : task[p][u].pc # "claim"
  BY OpeningIsUnpaid DEF RequestCheckout, At, Opening
<1>4. PICK r : r = [task[p][t] EXCEPT !.pc = "answer"]
  OBVIOUS
<1>5. r \in TaskStates /\ r.pc = "answer"
  <2>1. task[p][t] \in TaskStates
    BY DEF IInv, TypeOK
  <2>2. QED
    BY <1>4, <2>1 DEF TaskStates, Labels
<1>6. TaskOK(p, r)'
  BY <1>3, <1>5 DEF RequestCheckout, TaskOK, Opening, books
<1>7. \A q \in Payments : \A u \in Tasks :
        ~(q = p /\ u = t) /\ TaskOK(q, task[q][u]) => TaskOK(q, task[q][u])'
  <2>1. \A q \in Payments : \A u \in Tasks : ~(q = p /\ u = t) => task'[q][u] = task[q][u]
    BY <1>4, OthersStay DEF RequestCheckout, Goto
  <2>2. QED
    BY <2>1, <1>2, <1>3 DEF RequestCheckout, TaskOK, books
<1>8. \A u \in Tasks \ {t} : task[p][u].pc \notin Opening
  BY DEF RequestCheckout, At, Opening, IInv, OneOpening
<1>9. task' \in [Payments -> [Tasks -> TaskStates]] /\ TasksOK' /\ OneOpening'
  BY <1>4, <1>5, <1>6, <1>7, <1>8, TaskMoves DEF RequestCheckout, Goto
<1>10. TypeOK' /\ QueueOK'
  <2>1. charge[p] \in {"unknown", "open"}
    BY OpeningIsUnpaid DEF RequestCheckout, At, Opening
  <2>2. QueueOK'
    BY <1>2, <2>1 DEF RequestCheckout, IInv, QueueOK, queue
  <2>3. QED
    BY <1>1, <1>9, <2>2 DEF RequestCheckout, IInv, TypeOK, QueueOK, books, Charges
<1>11. ChargeOK' /\ PostedExactlyOnce' /\ OnlyPaidIsSettled'
  BY <1>2, <1>3 DEF RequestCheckout, IInv, ChargeOK, PostedExactlyOnce, OnlyPaidIsSettled, books
<1>12. QED
  BY <1>9, <1>10, <1>11 DEF IInv

\* The guest gets the checkout, and nobody is opening it any more.
LEMMA GiveKeeps ==
  ASSUME IInv, NEW p \in Payments, NEW t \in Tasks, GiveCheckout(p, t)
  PROVE  IInv'
<1>1. /\ payment[p] # "absent"
      /\ \A u \in Tasks \ {t} : task[p][u].pc \notin Opening
  BY OpeningIsUnpaid DEF GiveCheckout, At, Opening, IInv, OneOpening
<1>2. TaskOK(p, IdleTask)' /\ IdleTask.pc \notin Opening
  BY DEF TaskOK, IdleTask, Opening
<1>3. \A q \in Payments : \A u \in Tasks :
        ~(q = p /\ u = t) /\ TaskOK(q, task[q][u]) => TaskOK(q, task[q][u])'
  <2>1. \A q \in Payments : \A u \in Tasks : ~(q = p /\ u = t) => task'[q][u] = task[q][u]
    BY OthersStay DEF GiveCheckout, Leave
  <2>2. QED
    BY <2>1, <1>1 DEF GiveCheckout, TaskOK, books
<1>4. task' \in [Payments -> [Tasks -> TaskStates]] /\ TasksOK' /\ OneOpening'
  BY <1>2, <1>3, IdleTaskType, TaskMoves DEF GiveCheckout, Leave
<1>5. TypeOK' /\ QueueOK'
  BY <1>4, SameQueue DEF GiveCheckout, IInv, TypeOK, QueueOK, queue, books
<1>6. ChargeOK' /\ PostedExactlyOnce' /\ OnlyPaidIsSettled'
  BY <1>1 DEF GiveCheckout, IInv, ChargeOK, PostedExactlyOnce, OnlyPaidIsSettled, books
<1>7. QED
  BY <1>4, <1>5, <1>6 DEF IInv

\* The unconditional FAILED meets only an unpaid payment.
LEMMA AbortKeeps ==
  ASSUME IInv, NEW p \in Payments, NEW t \in Tasks, AbortPayment(p, t)
  PROVE  IInv'
<1>1. payment[p] \notin {"SUCCESS", "absent"}
  BY OpeningIsUnpaid DEF AbortPayment, At, Opening
<1>2. QueueOK'
  BY SameQueue DEF AbortPayment, provider
<1>3. QED
  BY <1>1, <1>2, TransitionLeaves DEF AbortPayment

\* A conditional update takes effect or not.
LEMMA TransitionKeeps ==
  ASSUME IInv, NEW p \in Payments, NEW t \in Tasks, Fail(p, t) \/ Pend(p, t)
  PROVE  IInv'
<1>1. PICK s \in {"PENDING", "FAILED"} :
        \/ payment' = [payment EXCEPT ![p] = s] /\ payment[p] \notin {"SUCCESS", "absent"}
        \/ payment' = payment
  BY DEF Fail, Pend, TransitionFrom, IInv, TypeOK
<1>2. Leave(p, t) /\ QueueOK' /\ UNCHANGED <<postings, payouts, queued, provider, faults>>
  BY TaskJob DEF Fail, Pend, Return, JobStep, provider
<1>3. CASE payment' = payment
  BY <1>2, <1>3, QuietLeave DEF books, IInv, TypeOK
<1>4. CASE payment' = [payment EXCEPT ![p] = s] /\ payment[p] \notin {"SUCCESS", "absent"}
  BY <1>2, <1>4, TransitionLeaves
<1>5. QED
  BY <1>1, <1>3, <1>4

\* The settlement transaction: the claim is paid and not settled yet.
LEMMA SettleKeeps ==
  ASSUME IInv, NEW p \in Payments, NEW t \in Tasks, Settle(p, t)
  PROVE  IInv'
<1>1. Shares[p] \in SUBSET Payees
  BY SharesAssumption
<1>2. /\ payment[p] \notin {"SUCCESS", "absent"} /\ charge[p] = "success"
      /\ postings[p] = 0 /\ payouts[p] = {} /\ queued[p] = {}
  BY DEF Settle, At, CanSettle, Settleable, IInv, TasksOK, TaskOK, PostedExactlyOnce
<1>3. /\ \A q \in Payments : payment'[q] = IF q = p THEN "SUCCESS" ELSE payment[q]
      /\ \A q \in Payments : postings'[q] = IF q = p THEN postings[q] + 1 ELSE postings[q]
      /\ \A q \in Payments : payouts'[q] = IF q = p THEN payouts[q] \cup Shares[q] ELSE payouts[q]
  BY DEF Settle, IInv, TypeOK
<1>4. PICK r : r = [task[p][t] EXCEPT !.pc = "enqueue", !.left = Shares[p]]
  OBVIOUS
<1>5. r \in TaskStates /\ r.pc = "enqueue" /\ r.left = Shares[p]
  <2>1. task[p][t] \in TaskStates
    BY DEF IInv, TypeOK
  <2>2. QED
    BY <1>1, <1>4, <2>1 DEF TaskStates, Labels
<1>6. TaskOK(p, r)' /\ r.pc \notin Opening
  BY <1>3, <1>5 DEF TaskOK, Opening
<1>7. \A q \in Payments : \A u \in Tasks :
        ~(q = p /\ u = t) /\ TaskOK(q, task[q][u]) => TaskOK(q, task[q][u])'
  BY <1>3 DEF Settle, TaskOK, provider
<1>8. task' \in [Payments -> [Tasks -> TaskStates]] /\ TasksOK' /\ OneOpening'
  <2>1. task' = [task EXCEPT ![p][t] = r]
    BY <1>4 DEF Settle
  <2>2. QED
    BY <2>1, <1>5, <1>6, <1>7, TaskMoves
<1>9. TypeOK'
  <2>1. payment' \in [Payments -> Statuses]
    BY DEF Settle, IInv, TypeOK, Statuses
  <2>2. postings' \in [Payments -> 0 .. 1]
    BY <1>2 DEF Settle, IInv, TypeOK
  <2>3. payouts' \in [Payments -> SUBSET Payees]
    BY <1>1 DEF Settle, IInv, TypeOK
  <2>4. QED
    BY <1>8, <2>1, <2>2, <2>3 DEF Settle, IInv, TypeOK, provider, queue
<1>10. QueueOK' /\ ChargeOK' /\ OnlyPaidIsSettled'
  BY <1>2, <1>3, SameQueue DEF Settle, IInv, ChargeOK, OnlyPaidIsSettled, provider
<1>11. PostedExactlyOnce'
  BY <1>2, <1>3 DEF Settle, IInv, PostedExactlyOnce
<1>12. QED
  BY <1>8, <1>9, <1>10, <1>11 DEF IInv

\* Only what is committed is enqueued.
LEMMA EnqueueKeeps ==
  ASSUME IInv, NEW p \in Payments, NEW t \in Tasks, EnqueuePayout(p, t)
  PROVE  IInv'
<1>1. PICK payee \in task[p][t].left, added \in SUBSET task[p][t].left :
        /\ task' = [task EXCEPT ![p][t] = [@ EXCEPT !.left = task[p][t].left \ {payee}]]
        /\ queued' = [queued EXCEPT ![p] = @ \cup added]
  BY DEF EnqueuePayout
<1>2. task[p][t] \in TaskStates /\ task[p][t].left \subseteq payouts[p] /\ task[p][t].pc = "enqueue"
  BY DEF EnqueuePayout, At, IInv, TypeOK, TasksOK, TaskOK
<1>3. added \subseteq payouts[p] /\ payouts[p] \subseteq Payees
  BY <1>1, <1>2 DEF IInv, TypeOK
<1>4. queued' \in [Payments -> SUBSET Payees] /\ \A q \in Payments : queued'[q] \subseteq payouts[q]
  <2>1. queued \in [Payments -> SUBSET Payees] /\ \A q \in Payments : queued[q] \subseteq payouts[q]
    BY DEF IInv, TypeOK, PostedExactlyOnce
  <2>2. queued[p] \cup added \in SUBSET Payees
    BY <2>1, <1>3
  <2>3. QED
    BY <1>1, <1>3, <2>1, <2>2
<1>5. PICK r : r = [task[p][t] EXCEPT !.left = task[p][t].left \ {payee}]
  OBVIOUS
<1>6. r \in TaskStates /\ r.pc = "enqueue" /\ r.left \subseteq payouts[p]
  BY <1>2, <1>5 DEF TaskStates
<1>7. TaskOK(p, r) /\ r.pc \notin Opening
  BY <1>6 DEF TaskOK, Opening
<1>8. UNCHANGED <<books, provider>> /\ QueueOK' /\ faults' \in 0 .. MaxFaults
  BY SameQueue DEF EnqueuePayout, IInv, TypeOK, provider
<1>9. task' = [task EXCEPT ![p][t] = r]
  BY <1>1, <1>5
<1>10. QED
  BY <1>4, <1>6, <1>7, <1>8, <1>9, QuietMove

\* The guest pays, or her card is declined: nobody has claimed a payment that is not paid.
LEMMA ChargeKeeps ==
  ASSUME IInv, NEW p \in Payments, Pay(p) \/ Decline(p)
  PROVE  IInv'
<1>1. PICK c \in {"failed", "success", "odd"} : charge' = [charge EXCEPT ![p] = c]
  BY DEF Pay, Decline
<1>2. \A q \in Payments : charge'[q] = IF q = p THEN c ELSE charge[q]
  BY <1>1 DEF IInv, TypeOK
<1>3. p \in checkout /\ charge[p] # "success" /\ UNCHANGED <<books, queued, task, checkout, faults>>
  BY DEF Pay, Decline
<1>4. TypeOK' /\ QueueOK'
  <2>1. charge[p] \notin {"success", "odd"}
    BY DEF Pay, Decline
  <2>2. ASSUME Pay(p) PROVE QueueOK'
    <3>1. charge'[p] \in {"success", "odd"}
      BY <2>2 DEF Pay, IInv, TypeOK
    <3>2. EventStep(p)
      BY <2>2, <3>1 DEF EventStep, Pay
    <3>3. /\ \A q \in Payments : q # p => charge'[q] = charge[q]
          /\ charge[p] \in {"success", "odd"} => charge' = charge
      BY <1>2, <2>1
    <3>4. QED
      BY <3>2, <3>3, EventJob
  <2>3. ASSUME Decline(p) PROVE QueueOK'
    <3>1. job[p] = "none" /\ UNCHANGED <<job, tries, stalled>>
      BY <2>1, <2>3 DEF Decline, IInv, QueueOK, queue
    <3>2. \A q \in Payments : charge'[q] \notin {"success", "odd"} => job[q] = "none"
      BY <1>2, <3>1 DEF IInv, QueueOK
    <3>3. QueueOK
      BY DEF IInv
    <3>4. job' = job /\ tries' = tries /\ stalled' = stalled
      BY <3>1
    <3>5. QED
      BY <3>2, <3>3, <3>4 DEF QueueOK
  <2>4. QueueOK'
    BY <2>2, <2>3
  <2>5. QED
    BY <1>1, <1>3, <2>4 DEF IInv, TypeOK, QueueOK, books, Charges
<1>5. TasksOK'
  BY <1>2, <1>3 DEF IInv, TasksOK, TaskOK, books
<1>6. OneOpening' /\ ChargeOK' /\ PostedExactlyOnce' /\ OnlyPaidIsSettled'
  BY <1>2, <1>3 DEF IInv, OneOpening, ChargeOK, PostedExactlyOnce, OnlyPaidIsSettled, books
<1>7. QED
  BY <1>4, <1>5, <1>6 DEF IInv

\* Nothing but the jobs and the count of faults changes.
LEMMA IdleKeeps ==
  ASSUME IInv, UNCHANGED <<books, queued, task, provider>>,
         QueueOK', faults' \in 0 .. MaxFaults
  PROVE  IInv'
BY DEF IInv, TypeOK, TasksOK, TaskOK, OneOpening, ChargeOK, QueueOK, PostedExactlyOnce,
       OnlyPaidIsSettled, books, provider

\* A fault is counted.
LEMMA FaultCounts ==
  ASSUME IInv, Fault
  PROVE  faults' \in 0 .. MaxFaults
BY SettlementFaultsAssumption DEF Fault, IInv, TypeOK

\* The steps of one task that change nothing but the task.
LEMMA QuietKeeps ==
  ASSUME IInv, NEW p \in Payments, NEW t \in Tasks,
         \/ LoseCheckout(p, t) \/ ReadPayment(p, t) \/ Verify(p, t) \/ LoseSettle(p, t)
         \/ FinishSettle(p, t) \/ StartPoll(p, t) \/ StartWebhook(p, t)
  PROVE  IInv'
<1> USE DEF Labels, Opening, At
<1>0. faults \in 0 .. MaxFaults
  BY DEF IInv, TypeOK
<1>1. ASSUME Return(p, t), UNCHANGED <<books, queued, provider, faults>> PROVE IInv'
  BY <1>0, <1>1, TaskJob, QuietLeave DEF Return, JobStep, provider
<1>2. CASE LoseCheckout(p, t)
  BY <1>2, QuietGoto DEF LoseCheckout
<1>3. CASE ReadPayment(p, t)
  <2>1. CASE payment[p] \in Settleable
    BY <1>3, <2>1, QuietGoto DEF ReadPayment
  <2>2. CASE payment[p] \notin Settleable
    BY <1>1, <1>3, <2>2 DEF ReadPayment
  <2>3. QED
    BY <2>1, <2>2
<1>4. CASE Verify(p, t)
  <2>1. /\ AfterVerify(charge[p]) \in {"idle", "claim", "fail", "pend"}
        /\ AfterVerify(charge[p]) = "claim" => charge[p] = "success"
    BY DEF AfterVerify
  <2>2. CASE AfterVerify(charge[p]) = "idle"
    BY <1>1, <1>4, <2>2 DEF Verify
  <2>3. CASE AfterVerify(charge[p]) # "idle"
    <3>1. PICK label \in {"claim", "fail", "pend"} : label = AfterVerify(charge[p])
      BY <2>1, <2>3
    <3>2. Goto(p, t, label) /\ UNCHANGED <<books, queued, provider, queue, faults>>
      BY <1>4, <2>3, <3>1 DEF Verify
    <3>3. QED
      BY <2>1, <3>1, <3>2, QuietGoto
  <2>4. QED
    BY <2>2, <2>3
<1>5. CASE LoseSettle(p, t) \/ FinishSettle(p, t)
  BY <1>1, <1>5 DEF LoseSettle, FinishSettle
<1>6. CASE StartPoll(p, t)
  <2>1. QueueOK'
    BY <1>6, SameQueue DEF StartPoll, provider
  <2>2. QED
    BY <1>6, <2>1, QuietStart DEF StartPoll
<1>7. CASE StartWebhook(p, t)
  <2>1. QueueOK'
    BY <1>7, TaskJob DEF StartWebhook, JobStep, provider
  <2>2. QED
    BY <1>7, <2>1, QuietStart DEF StartWebhook
<1>8. QED
  BY <1>2, <1>3, <1>4, <1>5, <1>6, <1>7

\* A fault: a task dies or throws, a job stalls, a webhook is delivered again.
LEMMA FaultKeeps ==
  ASSUME IInv, NEW p \in Payments,
         \/ StallJob(p) \/ RepeatWebhook(p)
         \/ \E t \in Tasks : Crash(p, t) \/ Throw(p, t)
  PROVE  IInv'
<1>1. CASE StallJob(p) \/ RepeatWebhook(p)
  <2>1. /\ UNCHANGED <<books, queued, task, provider>> /\ Fault
        /\ EventStep(p)
    BY <1>1 DEF StallJob, RepeatWebhook, EventStep, provider
  <2>2. QueueOK'
    BY <2>1, EventJob DEF provider
  <2>3. QED
    BY <2>1, <2>2, FaultCounts, IdleKeeps
<1>2. ASSUME NEW t \in Tasks, Crash(p, t) \/ Throw(p, t) PROVE IInv'
  <2>1. UNCHANGED <<books, queued, provider>> /\ Fault /\ Leave(p, t)
    BY <1>2 DEF Crash, Throw
  <2>2. JobStep(p, t) \/ EventStep(p)
    BY <1>2 DEF Crash, Throw, JobStep, EventStep
  <2>3. QueueOK'
    BY <2>1, <2>2, TaskJob, EventJob DEF provider
  <2>4. QED
    BY <2>1, <2>3, FaultCounts, QuietLeave
<1>3. QED
  BY <1>1, <1>2

\* So does every step of the system.
LEMMA StepKeeps ==
  ASSUME IInv, [Next]_vars
  PROVE  IInv'
<1>1. CASE UNCHANGED vars
  <2>1. QueueOK' /\ faults' \in 0 .. MaxFaults
    BY <1>1, SameQueue DEF vars, provider, IInv, TypeOK
  <2>2. QED
    BY <1>1, <2>1, IdleKeeps DEF vars
<1>2. ASSUME NEW p \in Payments, Pay(p) \/ Decline(p) PROVE IInv'
  BY <1>2, ChargeKeeps
<1>3. ASSUME NEW p \in Payments, StallJob(p) \/ RepeatWebhook(p) PROVE IInv'
  BY <1>3, FaultKeeps
<1>4. ASSUME NEW p \in Payments, NEW t \in Tasks, CreatePayment(p, t) PROVE IInv'
  BY <1>4, CreateKeeps
<1>5. ASSUME NEW p \in Payments, NEW t \in Tasks, StartPoll(p, t) \/ StartWebhook(p, t) PROVE IInv'
  BY <1>5, QuietKeeps
<1>6. ASSUME NEW p \in Payments, NEW t \in Tasks, Step(p, t) PROVE IInv'
  BY <1>6, RequestKeeps, GiveKeeps, AbortKeeps, TransitionKeeps, SettleKeeps, EnqueueKeeps,
     QuietKeeps DEF Step
<1>7. ASSUME NEW p \in Payments, NEW t \in Tasks, Crash(p, t) \/ Throw(p, t) PROVE IInv'
  BY <1>7, FaultKeeps
<1>8. QED
  BY <1>1, <1>2, <1>3, <1>4, <1>5, <1>6, <1>7 DEF Next

\* It holds at the start.
LEMMA InitHolds == Init => IInv
<1> SUFFICES ASSUME Init PROVE IInv
  OBVIOUS
<1>1. TypeOK
  BY IdleTaskType, SettlementFaultsAssumption, SettlementTriesAssumption
  DEF Init, TypeOK, Statuses, Charges
<1>2. TasksOK /\ OneOpening
  BY DEF Init, TasksOK, TaskOK, OneOpening, IdleTask, Opening
<1>3. ChargeOK /\ PostedExactlyOnce /\ OnlyPaidIsSettled
  BY DEF Init, ChargeOK, PostedExactlyOnce, OnlyPaidIsSettled
<1>4. QueueOK
  BY SettlementTriesAssumption, SettlementWorkersAssumption DEF Init, QueueOK
<1>5. QED
  BY <1>1, <1>2, <1>3, <1>4 DEF IInv

-----------------------------------------------------------------------------
(* What follows *)

\* The invariant holds in every state that concurrent settlements, polls, webhooks and
\* crashes of any number of payments reach.
THEOREM Invariant == Spec => []IInv
<1>1. Init => IInv
  BY InitHolds
<1>2. IInv /\ [Next]_vars => IInv'
  BY StepKeeps
<1>3. QED
  BY <1>1, <1>2, PTL DEF Spec

\* Every variable keeps its type; in particular no payment is posted twice.
THEOREM TypeCorrect == Spec => []TypeOK
<1>1. IInv => TypeOK
  BY DEF IInv
<1>2. QED
  BY <1>1, Invariant, PTL

\* Concurrent settlements post a payment once, with its payouts, and enqueue only those.
THEOREM PostedOnce == Spec => []PostedExactlyOnce
<1>1. IInv => PostedExactlyOnce
  BY DEF IInv
<1>2. QED
  BY <1>1, Invariant, PTL

\* Only a payment the provider took exactly as asked for is settled.
THEOREM PaidBeforeSettled == Spec => []OnlyPaidIsSettled
<1>1. IInv => OnlyPaidIsSettled
  BY DEF IInv
<1>2. QED
  BY <1>1, Invariant, PTL

\* The unconditional FAILED of initializePayment meets no payment a guest could pay.
THEOREM AbortIsSafe == Spec => []AbortedBeforeCheckout
<1>1. IInv => AbortedBeforeCheckout
  BY OpeningIsUnpaid DEF AbortedBeforeCheckout, At, Opening
<1>2. QED
  BY <1>1, Invariant, PTL

\* No step takes a settled payment back.
LEMMA SettledStays ==
  ASSUME IInv, [Next]_vars, NEW q \in Payments, payment[q] = "SUCCESS"
  PROVE  payment'[q] = "SUCCESS"
<1>1. CASE UNCHANGED payment
  BY <1>1
<1>2. ASSUME NEW p \in Payments, NEW t \in Tasks, AbortPayment(p, t) PROVE payment'[q] = "SUCCESS"
  <2>1. payment[p] # "SUCCESS"
    BY <1>2, OpeningIsUnpaid DEF AbortPayment, At, Opening
  <2>2. QED
    BY <1>2, <2>1 DEF AbortPayment, IInv, TypeOK
<1>3. ASSUME NEW p \in Payments, NEW t \in Tasks, CreatePayment(p, t) \/ Settle(p, t)
      PROVE  payment'[q] = "SUCCESS"
  BY <1>3 DEF CreatePayment, Settle, IInv, TypeOK
<1>4. ASSUME NEW p \in Payments, NEW t \in Tasks, Fail(p, t) \/ Pend(p, t)
      PROVE  payment'[q] = "SUCCESS"
  BY <1>4 DEF Fail, Pend, TransitionFrom, IInv, TypeOK
<1>5. QED
  BY <1>1, <1>2, <1>3, <1>4 DEF Next, Step, vars, books, Pay, Decline, RepeatWebhook, StallJob,
     Crash, Throw, StartPoll, StartWebhook, RequestCheckout, GiveCheckout, LoseCheckout, ReadPayment, Verify,
     LoseSettle, EnqueuePayout, FinishSettle

\* A settled payment stays settled, whatever refusal, abort or crash comes late.
THEOREM Final == Spec => SuccessIsFinal
<1>1. IInv /\ [Next]_vars => [\A p \in Payments : payment[p] = "SUCCESS" => payment'[p] = "SUCCESS"]_vars
  BY SettledStays
<1>2. QED
  BY <1>1, Invariant, PTL DEF Spec, SuccessIsFinal

-----------------------------------------------------------------------------
(* Settlement implements Receipt *)

\* What the provider took as asked for.
Taken == {p \in Payments : charge[p] = "success"}

\* What is left to a human.
Parked == {p \in Payments : charge[p] = "success" /\ job[p] = "failed"}

\* The provider takes money, or does something Receipt does not see.
LEMMA PayImplements ==
  ASSUME IInv, NEW p \in Payments, Pay(p) \/ Decline(p) \/ (\E t \in Tasks : RequestCheckout(p, t))
  PROVE  [Bookkeeping!Next]_(Bookkeeping!vars)
<1>1. PICK c \in Charges : charge' = [charge EXCEPT ![p] = c]
  BY DEF Pay, Decline, RequestCheckout, Charges
<1>2. charge[p] # "success" /\ UNCHANGED books
  <2>1. CASE \E t \in Tasks : RequestCheckout(p, t)
    BY <2>1, OpeningIsUnpaid DEF RequestCheckout, At, Opening
  <2>2. CASE Pay(p) \/ Decline(p)
    BY <2>2 DEF Pay, Decline
  <2>3. QED
    BY <2>1, <2>2
<1>3. \A q \in Payments : charge'[q] = IF q = p THEN c ELSE charge[q]
  BY <1>1 DEF IInv, TypeOK
<1>4. Parked' = Parked
  <2>1. charge[p] \notin {"success", "odd"}
    <3>1. CASE \E t \in Tasks : RequestCheckout(p, t)
      BY <3>1, OpeningIsUnpaid DEF RequestCheckout, At, Opening
    <3>2. CASE Pay(p) \/ Decline(p)
      BY <3>2 DEF Pay, Decline
    <3>3. QED
      BY <3>1, <3>2
  <2>2. job[p] = "none" /\ job \in [Payments -> {"none", "waiting", "failed"} \cup Tasks]
    BY <2>1 DEF IInv, QueueOK
  <2>3. job'[p] # "failed" /\ \A q \in Payments \ {p} : job'[q] = job[q]
    BY <2>2 DEF Pay, AddJob, Decline, RequestCheckout, queue
  <2>4. QED
    BY <1>3, <2>2, <2>3 DEF Parked
<1>5. CASE c = "success"
  <2>1. Taken' = Taken \cup {p} /\ p \notin Taken
    BY <1>2, <1>3, <1>5 DEF Taken
  <2>2. QED
    BY <1>2, <1>4, <2>1 DEF Bookkeeping!Next, Bookkeeping!Take, Taken, Parked, books
<1>6. CASE c # "success"
  <2>1. Taken' = Taken
    BY <1>2, <1>3, <1>6 DEF Taken
  <2>2. QED
    BY <1>2, <1>4, <2>1 DEF Bookkeeping!vars, Taken, Parked, books
<1>7. QED
  BY <1>5, <1>6

\* The settlement transaction books what was taken.
LEMMA SettleImplements ==
  ASSUME IInv, NEW p \in Payments, NEW t \in Tasks, Settle(p, t)
  PROVE  [Bookkeeping!Next]_(Bookkeeping!vars)
<1>1. charge[p] = "success" /\ postings[p] = 0 /\ payouts[p] = {}
  BY DEF Settle, At, CanSettle, Settleable, IInv, TasksOK, TaskOK, PostedExactlyOnce
<1>2. postings' = [postings EXCEPT ![p] = 1] /\ payouts' = [payouts EXCEPT ![p] = Shares[p]]
  BY <1>1 DEF Settle, IInv, TypeOK
<1>3. p \in Taken /\ Taken' = Taken /\ Parked' = Parked
  BY <1>1 DEF Taken, Parked, Settle, provider, queue
<1>4. QED
  BY <1>1, <1>2, <1>3 DEF Bookkeeping!Next, Bookkeeping!Book, Taken, Parked

\* The steps that touch the books or a charge.
LEMMA BookSteps ==
  ASSUME [Next]_vars, ~UNCHANGED <<postings, payouts, charge>>
  PROVE  \E p \in Payments : \/ Pay(p) \/ Decline(p)
                             \/ \E t \in Tasks : RequestCheckout(p, t) \/ Settle(p, t)
BY DEF Next, Step, vars, books, provider, RepeatWebhook, StallJob, Crash, Throw, CreatePayment,
   StartPoll, StartWebhook, GiveCheckout, LoseCheckout, AbortPayment, ReadPayment, Verify, Fail, Pend,
   LoseSettle, EnqueuePayout, FinishSettle

\* A step that touches no charge moves one job at most, and no failed one.
LEMMA JobSteps ==
  ASSUME IInv, [Next]_vars, UNCHANGED charge
  PROVE  \/ UNCHANGED job
         \/ \E p \in Payments : \A q \in Payments : q # p \/ job[q] = "failed" => job'[q] = job[q]
<1>1. CASE UNCHANGED queue
  BY <1>1 DEF queue
<1>2. ASSUME NEW p \in Payments, EventStep(p) \/ \E t \in Tasks : JobStep(p, t)
      PROVE  \A q \in Payments : q # p \/ job[q] = "failed" => job'[q] = job[q]
  BY <1>2, TaskJob, EventJob
<1>3. UNCHANGED queue \/ \E p \in Payments : EventStep(p) \/ \E t \in Tasks : JobStep(p, t)
  <2>1. ASSUME NEW p \in Payments, Pay(p) \/ Decline(p) \/ StallJob(p) \/ RepeatWebhook(p)
        PROVE  UNCHANGED queue \/ EventStep(p)
    <3>1. CASE Pay(p)
      <4>1. charge[p] \notin {"success", "odd"} /\ charge'[p] \in {"success", "odd"}
        BY <3>1 DEF Pay, IInv, TypeOK
      <4>2. QED
        BY <4>1
    <3>2. CASE Decline(p) \/ StallJob(p) \/ RepeatWebhook(p)
      BY <3>2 DEF Decline, StallJob, RepeatWebhook, EventStep
    <3>3. QED
      BY <2>1, <3>1, <3>2
  <2>2. ASSUME NEW p \in Payments, NEW t \in Tasks, CreatePayment(p, t) \/ StartPoll(p, t) \/ StartWebhook(p, t)
        PROVE  JobStep(p, t)
    BY <2>2 DEF CreatePayment, StartPoll, StartWebhook, JobStep
  <2>3. ASSUME NEW p \in Payments, NEW t \in Tasks, Crash(p, t) \/ Throw(p, t)
        PROVE  EventStep(p) \/ JobStep(p, t)
    BY <2>3 DEF Crash, Throw, JobStep, EventStep
  <2>4. ASSUME NEW p \in Payments, NEW t \in Tasks, Step(p, t)
        PROVE  JobStep(p, t)
    BY <2>4 DEF Step, RequestCheckout, GiveCheckout, LoseCheckout, AbortPayment, ReadPayment,
       Verify, Fail, Pend, Settle, LoseSettle, EnqueuePayout, FinishSettle, Return, JobStep
  <2>5. QED
    BY <2>1, <2>2, <2>3, <2>4 DEF Next, vars
<1>4. QED
  BY <1>1, <1>2, <1>3

\* Every other step leaves a payment to a human, or Receipt alone.
LEMMA OthersImplement ==
  ASSUME IInv, [Next]_vars, UNCHANGED <<postings, payouts, charge>>
  PROVE  [Bookkeeping!Next]_(Bookkeeping!vars)
<1>1. Taken' = Taken
  BY DEF Taken
<1>2. CASE Parked' = Parked
  BY <1>1, <1>2 DEF Bookkeeping!vars, Taken, Parked
<1>3. CASE Parked' # Parked
  <2>1. PICK p \in Payments : \A q \in Payments : q # p \/ job[q] = "failed" => job'[q] = job[q]
    BY <1>3, JobSteps DEF Parked
  <2>2. p \in Taken \ Parked /\ Parked' = Parked \cup {p}
    BY <1>3, <2>1 DEF Parked, Taken
  <2>3. QED
    BY <1>1, <2>2 DEF Bookkeeping!Next, Bookkeeping!Park, Taken, Parked
<1>4. QED
  BY <1>2, <1>3

\* Whatever settles a payment, however often and however concurrently, the ledger takes in
\* what the provider took, once, with the payouts it owes.
THEOREM Implementation == Spec => ImplementsReceipt
<1>1. Init => Bookkeeping!Init
  BY DEF Init, Bookkeeping!Init
<1>2. IInv /\ [Next]_vars => [Bookkeeping!Next]_(Bookkeeping!vars)
  <2>1. SUFFICES ASSUME IInv, [Next]_vars PROVE [Bookkeeping!Next]_(Bookkeeping!vars)
    OBVIOUS
  <2>2. CASE UNCHANGED <<postings, payouts, charge>>
    BY <2>1, <2>2, OthersImplement
  <2>3. CASE ~UNCHANGED <<postings, payouts, charge>>
    BY <2>1, <2>3, BookSteps, PayImplements, SettleImplements
  <2>4. QED
    BY <2>2, <2>3
<1>3. QED
  BY <1>1, <1>2, Invariant, PTL DEF Spec, ImplementsReceipt, Bookkeeping!Safety

-----------------------------------------------------------------------------
(* Settlement implements Books: what each payment puts there before its payouts *)
(* begin.  A charge of another amount than was asked for is none.               *)

CONSTANTS BasisPointsTotal, Terms, PaymentTerms

Accounts == INSTANCE Ledger

\* The mapped variables.  The ledger is what the postings that were made come to.
BookedPayment ==
  [p \in Payments |->
     IF postings[p] > 0 THEN "settled" ELSE IF charge[p] = "success" THEN "charged" ELSE "pending"]

BookedEntries ==
  [p \in Payments |-> [a \in Accounts!AccountTypes |->
     postings[p] * Accounts!computePaymentEntries(PaymentTerms[p])[a]]]

BookedPayouts ==
  [p \in Payments |-> [k \in Accounts!Payables |-> IF k \in payouts[p] THEN "QUEUED" ELSE "none"]]

NoTransfers == [p \in Payments |-> [k \in Accounts!Payables |-> "none"]]

MoneyHeld == [p \in Payments |-> IF charge[p] = "success" THEN PaymentTerms[p].gross ELSE 0]

Paper == INSTANCE Books WITH
  terms <- PaymentTerms, payment <- BookedPayment, ledger <- BookedEntries,
  status <- BookedPayouts, transfer <- NoTransfers, held <- MoneyHeld

\* Every payment has terms, and its payees are those with a positive share.
TermsGiven ==
  /\ BasisPointsTotal \in Nat \ {0}
  /\ \A t \in Terms : Accounts!ValidTerms(t)
  /\ PaymentTerms \in [Payments -> Terms]
  /\ \A p \in Payments :
       Shares[p] = {k \in Accounts!Payables : Accounts!Share(PaymentTerms[p], k) > 0}

\* Amounts are integers.
LEMMA WholeAmounts ==
  ASSUME TermsGiven, NEW p \in Payments
  PROVE  /\ PaymentTerms[p].gross \in Nat
         /\ \A k \in Accounts!Payables : Accounts!Share(PaymentTerms[p], k) \in Int
         /\ \A a \in Accounts!AccountTypes :
              Accounts!computePaymentEntries(PaymentTerms[p])[a] \in Int
<1> DEFINE t == PaymentTerms[p]
<1>1. /\ t.gross \in Nat /\ t.entertainerBps \in Nat /\ t.venueBps \in Nat
  BY DEF TermsGiven, Accounts!ValidTerms
<1>2. ASSUME NEW k \in Accounts!Payables PROVE Accounts!Share(t, k) \in Int
  <2>1. Accounts!BpsOf(t, k) \in Nat
    BY <1>1 DEF Accounts!BpsOf
  <2>2. t.gross * Accounts!BpsOf(t, k) \in Int
    BY <1>1, <2>1
  <2>3. QED
    BY <2>2 DEF Accounts!Share, Accounts!applyBasisPoints, TermsGiven
<1>3. \A a \in Accounts!AccountTypes : Accounts!computePaymentEntries(t)[a] \in Int
  BY <1>1, <1>2 DEF Accounts!computePaymentEntries, Accounts!AccountTypes, Accounts!Payables
<1>4. QED
  BY <1>1, <1>2, <1>3

\* What a payment that is not settled has in the books, and a settled one.
LEMMA Booked ==
  ASSUME IInv, NEW p \in Payments
  PROVE  /\ postings[p] = 0 => payouts[p] = {}
         /\ postings[p] # 0 => postings[p] = 1 /\ payouts[p] = Shares[p] /\ charge[p] = "success"
BY DEF IInv, TypeOK, PostedExactlyOnce, OnlyPaidIsSettled

\* Books computes the same figures.
LEMMA SameFigures ==
  /\ Paper!Payables = Accounts!Payables /\ Paper!AccountTypes = Accounts!AccountTypes
  /\ \A t, k : Paper!Share(t, k) = Accounts!Share(t, k)
  /\ \A p, k : Paper!Amount(p, k) = Accounts!Share(PaymentTerms[p], k)
  /\ \A t : Paper!computePaymentEntries(t) = Accounts!computePaymentEntries(t)
<1>1. Paper!Payables = Accounts!Payables /\ Paper!AccountTypes = Accounts!AccountTypes
  BY DEF Paper!Payables, Accounts!Payables, Paper!AccountTypes, Accounts!AccountTypes
<1>2. \A t, k : Paper!Share(t, k) = Accounts!Share(t, k)
  BY DEF Paper!Share, Accounts!Share, Paper!BpsOf, Accounts!BpsOf,
     Paper!applyBasisPoints, Accounts!applyBasisPoints
<1>3. \A p, k : Paper!Amount(p, k) = Accounts!Share(PaymentTerms[p], k)
  BY <1>2 DEF Paper!Amount
<1>4. \A t : Paper!computePaymentEntries(t) = Accounts!computePaymentEntries(t)
  BY <1>1, <1>2 DEF Paper!computePaymentEntries, Accounts!computePaymentEntries
<1>5. QED
  BY <1>1, <1>2, <1>3, <1>4

\* The provider takes the money.
LEMMA ChargeOnPaper ==
  ASSUME IInv, NEW p \in Payments, charge[p] # "success",
         charge' = [charge EXCEPT ![p] = "success"], UNCHANGED <<postings, payouts>>
  PROVE  Paper!Charge(p)
<1>1. postings[p] = 0
  BY Booked
<1>2. \A q \in Payments : charge'[q] = IF q = p THEN "success" ELSE charge[q]
  BY DEF IInv, TypeOK
<1>3. BookedPayment[p] = "pending" /\ BookedPayment' = [BookedPayment EXCEPT ![p] = "charged"]
  <2>1. BookedPayment[p] = "pending" /\ BookedPayment'[p] = "charged"
    BY <1>1, <1>2 DEF BookedPayment
  <2>2. \A q \in Payments \ {p} : BookedPayment'[q] = BookedPayment[q]
    BY <1>2 DEF BookedPayment
  <2>3. QED
    BY <2>1, <2>2 DEF BookedPayment
<1>4. MoneyHeld' = [MoneyHeld EXCEPT ![p] = PaymentTerms[p].gross]
  BY <1>2 DEF MoneyHeld
<1>5. BookedEntries' = BookedEntries /\ BookedPayouts' = BookedPayouts /\ NoTransfers' = NoTransfers
  BY DEF BookedEntries, BookedPayouts, NoTransfers
<1>6. QED
  BY <1>3, <1>4, <1>5 DEF Paper!Charge

\* The settlement transaction.
LEMMA SettleOnPaper ==
  ASSUME TermsGiven, IInv, NEW p \in Payments, NEW t \in Tasks, Settle(p, t)
  PROVE  Paper!Settle(p)
<1>1. charge[p] = "success" /\ postings[p] = 0 /\ payouts[p] = {} /\ UNCHANGED charge
  BY DEF Settle, At, CanSettle, Settleable, IInv, TasksOK, TaskOK, PostedExactlyOnce, provider
<1>2. /\ \A q \in Payments : postings'[q] = IF q = p THEN 1 ELSE postings[q]
      /\ \A q \in Payments : payouts'[q] = IF q = p THEN Shares[p] ELSE payouts[q]
  BY <1>1 DEF Settle, IInv, TypeOK
<1>3. BookedPayment[p] = "charged" /\ BookedPayment' = [BookedPayment EXCEPT ![p] = "settled"]
  <2>1. BookedPayment[p] = "charged" /\ BookedPayment'[p] = "settled"
    BY <1>1, <1>2 DEF BookedPayment
  <2>2. \A q \in Payments \ {p} : BookedPayment'[q] = BookedPayment[q]
    BY <1>1, <1>2 DEF BookedPayment
  <2>3. QED
    BY <2>1, <2>2 DEF BookedPayment
<1>4. Paper!Post(p, Paper!computePaymentEntries(PaymentTerms[p]))
  <2> DEFINE entries == Accounts!computePaymentEntries(PaymentTerms[p])
  <2>1. \A a \in Accounts!AccountTypes : entries[a] \in Int
    BY WholeAmounts
  <2>2. Paper!computePaymentEntries(PaymentTerms[p]) = entries
    BY SameFigures
  <2> HIDE DEF entries
  <2>3. BookedEntries' = [BookedEntries EXCEPT ![p] = [a \in Accounts!AccountTypes |->
                                                         BookedEntries[p][a] + entries[a]]]
    <3>1. \A a \in Accounts!AccountTypes :
            BookedEntries'[p][a] = BookedEntries[p][a] + entries[a]
      BY <1>1, <1>2, <2>1 DEF BookedEntries, entries
    <3>2. \A q \in Payments \ {p} : BookedEntries'[q] = BookedEntries[q]
      BY <1>2 DEF BookedEntries
    <3>3. BookedEntries'[p] = [a \in Accounts!AccountTypes |-> BookedEntries'[p][a]]
      BY DEF BookedEntries
    <3>4. QED
      BY <3>1, <3>2, <3>3 DEF BookedEntries
  <2>4. QED
    BY <2>2, <2>3, SameFigures DEF Paper!Post
<1>5. BookedPayouts' = [BookedPayouts EXCEPT ![p] =
        [k \in Accounts!Payables |-> IF Paper!Amount(p, k) > 0 THEN "QUEUED" ELSE "none"]]
  <2>1. \A k \in Accounts!Payables : k \in Shares[p] <=> Paper!Amount(p, k) > 0
    BY SameFigures DEF TermsGiven
  <2>2. QED
    BY <1>2, <2>1 DEF BookedPayouts
<1>6. MoneyHeld' = MoneyHeld /\ NoTransfers' = NoTransfers
  BY <1>1 DEF MoneyHeld, NoTransfers
<1>7. QED
  BY <1>3, <1>4, <1>5, <1>6 DEF Paper!Settle, Paper!Payables, Accounts!Payables

\* A refused charge, one of another amount, and every step that touches neither the books
\* nor the charge, leave Books alone.
LEMMA NothingOnPaper ==
  ASSUME UNCHANGED <<postings, payouts>>,
         \A p \in Payments : charge'[p] = "success" <=> charge[p] = "success"
  PROVE  UNCHANGED Paper!vars
<1>1. BookedPayment' = BookedPayment /\ MoneyHeld' = MoneyHeld
  BY DEF BookedPayment, MoneyHeld
<1>2. BookedEntries' = BookedEntries /\ BookedPayouts' = BookedPayouts /\ NoTransfers' = NoTransfers
  BY DEF BookedEntries, BookedPayouts, NoTransfers
<1>3. QED
  BY <1>1, <1>2 DEF Paper!vars

\* Every behaviour of settlement, for all amounts and splits, is one of Books: what
\* BookProofs shows of its postings and of the money held also holds of what concurrent
\* settlements, crashes and repeated webhooks leave behind.
THEOREM SettlesByTheBooks ==
  ASSUME TermsGiven
  PROVE  Spec => Paper!Spec
<1>1. ASSUME Init PROVE Paper!Init
  <2>1. /\ BookedPayment = [p \in Payments |-> "pending"]
        /\ BookedPayouts = [p \in Payments |-> [k \in Accounts!Payables |-> "none"]]
        /\ MoneyHeld = [p \in Payments |-> 0]
    BY <1>1 DEF Init, BookedPayment, BookedPayouts, MoneyHeld
  <2>2. BookedEntries = [p \in Payments |-> [a \in Accounts!AccountTypes |-> 0]]
    <3>1. \A p \in Payments : \A a \in Accounts!AccountTypes :
            0 * Accounts!computePaymentEntries(PaymentTerms[p])[a] = 0
      BY WholeAmounts
    <3>2. \A p \in Payments : postings[p] = 0
      BY <1>1 DEF Init
    <3>3. QED
      BY <3>1, <3>2 DEF BookedEntries
  <2>3. PaymentTerms \in [Payments -> Terms]
    BY DEF TermsGiven
  <2>4. QED
    BY <2>1, <2>2, <2>3 DEF Paper!Init, NoTransfers, Paper!Payables, Accounts!Payables,
       Paper!AccountTypes, Accounts!AccountTypes
<1>2. ASSUME IInv, [Next]_vars PROVE [Paper!Next]_(Paper!vars)
  <2>1. CASE UNCHANGED <<postings, payouts, charge>>
    BY <2>1, NothingOnPaper
  <2>2. ASSUME NEW p \in Payments, Pay(p) \/ Decline(p) \/ \E t \in Tasks : RequestCheckout(p, t)
        PROVE  [Paper!Next]_(Paper!vars)
    <3>1. PICK c \in Charges : charge' = [charge EXCEPT ![p] = c]
      BY <2>2 DEF Pay, Decline, RequestCheckout, Charges
    <3>2. charge[p] # "success" /\ UNCHANGED <<postings, payouts>>
      <4>1. CASE \E t \in Tasks : RequestCheckout(p, t)
        BY <1>2, <4>1, OpeningIsUnpaid DEF RequestCheckout, At, Opening, books
      <4>2. CASE Pay(p) \/ Decline(p)
        BY <4>2 DEF Pay, Decline, books
      <4>3. QED
        BY <2>2, <4>1, <4>2
    <3>3. CASE c = "success"
      BY <1>2, <3>1, <3>2, <3>3, ChargeOnPaper DEF Paper!Next
    <3>4. CASE c # "success"
      <4>1. \A q \in Payments : charge'[q] = "success" <=> charge[q] = "success"
        BY <1>2, <3>1, <3>2, <3>4 DEF IInv, TypeOK
      <4>2. QED
        BY <3>2, <4>1, NothingOnPaper
    <3>5. QED
      BY <3>3, <3>4
  <2>3. ASSUME NEW p \in Payments, NEW t \in Tasks, Settle(p, t)
        PROVE  [Paper!Next]_(Paper!vars)
    BY <1>2, <2>3, SettleOnPaper DEF Paper!Next
  <2>4. QED
    BY <1>2, <2>1, <2>2, <2>3, BookSteps
<1>3. QED
  BY <1>1, <1>2, Invariant, PTL DEF Spec, Paper!Spec

\* Settlement leaves each payment it books as payouts expect to find it: the hand-over
\* between the two services, which meet in the database only (PaysByTheBooks of PayoutProofs
\* begins with such payments).
THEOREM HandsOverTheBooks ==
  ASSUME TermsGiven
  PROVE  Spec => [](\A p \in Payments : postings[p] > 0 => Paper!JustSettled(p))
<1>1. ASSUME IInv, NEW p \in Payments, postings[p] > 0
      PROVE  Paper!JustSettled(p)
  <2>1. postings[p] = 1 /\ payouts[p] = Shares[p] /\ charge[p] = "success"
    BY <1>1, Booked DEF IInv, TypeOK
  <2>2. BookedPayment[p] = "settled" /\ MoneyHeld[p] = PaymentTerms[p].gross
    BY <1>1, <2>1 DEF BookedPayment, MoneyHeld
  <2>3. BookedEntries[p] = Accounts!computePaymentEntries(PaymentTerms[p])
    <3>1. \A a \in Accounts!AccountTypes :
            BookedEntries[p][a] = Accounts!computePaymentEntries(PaymentTerms[p])[a]
      BY <2>1, WholeAmounts DEF BookedEntries
    <3>2. QED
      BY <3>1 DEF BookedEntries, Accounts!computePaymentEntries
  <2>4. \A k \in Accounts!Payables : k \in payouts[p] <=> Paper!Amount(p, k) > 0
    BY <2>1, SameFigures DEF TermsGiven
  <2>5. BookedPayouts[p] = [k \in Paper!Payables |-> IF Paper!Amount(p, k) > 0 THEN "QUEUED" ELSE "none"]
    BY <2>4, SameFigures DEF BookedPayouts
  <2>6. NoTransfers[p] = [k \in Paper!Payables |-> "none"]
    BY SameFigures DEF NoTransfers
  <2>7. QED
    BY <2>2, <2>3, <2>5, <2>6, SameFigures DEF Paper!JustSettled
<1>2. IInv => \A p \in Payments : postings[p] > 0 => Paper!JustSettled(p)
  BY <1>1
<1>3. QED
  BY <1>2, Invariant, PTL

\* What a settled payment's books say, right after settlement.
LEMMA JustSettledIsKept ==
  ASSUME TermsGiven, NEW p \in Payments, Paper!JustSettled(p)
  PROVE  /\ Paper!Imbalance(BookedEntries[p]) = 0
         /\ \A k \in Paper!Payables :
              -BookedEntries[p][k] = IF BookedPayouts[p][k] = "SUCCESS" THEN 0
                                     ELSE Paper!Share(PaymentTerms[p], k)
         /\ MoneyHeld[p] = BookedEntries[p]["PROCESSOR_CLEARING"]
                             + Paper!Unrecorded(p, "ENTERTAINER_PAYABLE")
                             + Paper!Unrecorded(p, "VENUE_PAYABLE")
         /\ MoneyHeld[p] = Paper!Kept(p, "ENTERTAINER_PAYABLE") + Paper!Kept(p, "VENUE_PAYABLE")
                             - BookedEntries[p]["PLATFORM_REVENUE"]
<1> DEFINE g == PaymentTerms[p].gross
           e == Paper!Amount(p, "ENTERTAINER_PAYABLE")
           v == Paper!Amount(p, "VENUE_PAYABLE")
<1>1. /\ "ENTERTAINER_PAYABLE" \in Paper!Payables /\ "VENUE_PAYABLE" \in Paper!Payables
      /\ g \in Int /\ e \in Int /\ v \in Int
  BY WholeAmounts, SameFigures DEF Paper!Payables, Paper!Amount
<1>2. \A k \in Paper!Payables :
        /\ BookedEntries[p][k] = -Paper!Amount(p, k)
        /\ BookedPayouts[p][k] # "SUCCESS" /\ NoTransfers[p][k] \notin Paper!Gone
  BY DEF Paper!JustSettled, Paper!computePaymentEntries, Paper!Amount, Paper!AccountTypes, Paper!Gone
<1>3. /\ BookedEntries[p]["PROCESSOR_CLEARING"] = g
      /\ BookedEntries[p]["PLATFORM_REVENUE"] = e + v - g
      /\ MoneyHeld[p] = g
  BY DEF Paper!JustSettled, Paper!computePaymentEntries, Paper!Amount, Paper!AccountTypes, Paper!Payables
<1>4. \A k \in Paper!Payables : Paper!Unrecorded(p, k) = 0 /\ Paper!Kept(p, k) = Paper!Amount(p, k)
  BY <1>2 DEF Paper!Unrecorded, Paper!Kept
<1>5. \A k \in Paper!Payables : Paper!Amount(p, k) \in Int
  BY <1>1 DEF Paper!Payables
<1>6. \A k \in Paper!Payables :
        -BookedEntries[p][k] = IF BookedPayouts[p][k] = "SUCCESS" THEN 0
                               ELSE Paper!Share(PaymentTerms[p], k)
  BY <1>2, <1>5 DEF Paper!Amount
<1> HIDE DEF g
<1>7. Paper!Imbalance(BookedEntries[p]) = 0
  BY <1>1, <1>2, <1>3 DEF Paper!Imbalance
<1>8. QED
  BY <1>1, <1>3, <1>4, <1>6, <1>7

\* So it is of settlement itself, while it runs and whatever of it fails: the entries of each
\* payment balance, every payee is owed its share, and the money is there.
THEOREM SettlementKeepsTheBooks ==
  ASSUME TermsGiven
  PROVE  Spec => [](/\ Paper!BooksBalance /\ Paper!NothingOwedIsLost
                    /\ Paper!BooksExplainTheBalance /\ Paper!ObligationsAreCovered)
<1>1. ASSUME IInv, \A p \in Payments : postings[p] > 0 => Paper!JustSettled(p)
      PROVE  /\ Paper!BooksBalance /\ Paper!NothingOwedIsLost
             /\ Paper!BooksExplainTheBalance /\ Paper!ObligationsAreCovered
  <2>1. ASSUME NEW p \in Payments, ~(postings[p] > 0)
        PROVE  BookedPayment[p] # "settled" /\ Paper!Imbalance(BookedEntries[p]) = 0
    <3>1. postings[p] = 0
      BY <1>1, <2>1 DEF IInv, TypeOK
    <3>2. \A a \in Accounts!AccountTypes : BookedEntries[p][a] = 0
      BY <3>1, WholeAmounts DEF BookedEntries
    <3>3. QED
      BY <3>1, <3>2 DEF BookedPayment, Paper!Imbalance, Accounts!AccountTypes, Accounts!Payables
  <2>2. QED
    BY <1>1, <2>1, JustSettledIsKept
    DEF Paper!BooksBalance, Paper!NothingOwedIsLost, Paper!BooksExplainTheBalance,
        Paper!ObligationsAreCovered
<1>2. QED
  BY <1>1, Invariant, HandsOverTheBooks, PTL

=============================================================================
