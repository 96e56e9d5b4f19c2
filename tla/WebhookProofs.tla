--------------------------- MODULE WebhookProofs ---------------------------
(***************************************************************************)
(* What TLAPS proves of Webhooks, for every number of events, requests and *)
(* workers, either mode of the queue, and any number of faults; and of     *)
(* RedisConnection, on which that queue runs, for every limit of attempts. *)
(***************************************************************************)
EXTENDS Webhooks, RedisConnection, TLAPS

\* How the processes were started does not change while they run.
USE DEF setting

-----------------------------------------------------------------------------
(* The inductive invariant *)

\* A task about to write COMPLETED, or to park, has handled its event.
Finishing == {"complete", "park"}

HandledFirst ==
  \A e \in Events : \A t \in Tasks : task[e][t].pc \in Finishing => e \in handled

\* An odd event is parked, any other completed.
OddIsParked == \A e \in odd : \A t \in Tasks : task[e][t].pc # "complete"

\* A job that may still run has attempts left.
TriesLeft == \A e \in Events : job[e] \in {"waiting"} \cup Tasks => tries[e] < MaxTries

IInv ==
  TypeOK /\ HandledFirst /\ OddIsParked /\ TriesLeft /\ CompletedIsApplied /\ AckedIsKept

\* The idle task is one.
LEMMA IdleTaskType == IdleTask \in TaskStates /\ IdleTask.pc = "idle"
BY DEF IdleTask, TaskStates, Labels

\* A task takes a record, and leaves the other tasks alone.
LEMMA TaskMoves ==
  ASSUME TypeOK, NEW e \in Events, NEW t \in Tasks, NEW r \in TaskStates,
         task' = [task EXCEPT ![e][t] = r]
  PROVE  /\ task' \in [Events -> [Tasks -> TaskStates]]
         /\ \A f \in Events : \A u \in Tasks : task'[f][u] = IF f = e /\ u = t THEN r ELSE task[f][u]
BY DEF TypeOK

\* What Goto, Leave and Start do to the tasks.
LEMMA Moves ==
  ASSUME TypeOK, NEW e \in Events, NEW t \in Tasks
  PROVE  /\ Leave(e, t) => /\ task' \in [Events -> [Tasks -> TaskStates]]
                           /\ \A f \in Events : \A u \in Tasks :
                                task'[f][u] = IF f = e /\ u = t THEN IdleTask ELSE task[f][u]
         /\ \A label \in Labels : Goto(e, t, label) =>
              /\ task' \in [Events -> [Tasks -> TaskStates]]
              /\ task'[e][t].pc = label /\ task'[e][t].kind = task[e][t].kind
              /\ \A f \in Events : \A u \in Tasks : ~(f = e /\ u = t) => task'[f][u] = task[f][u]
         /\ \A label \in Labels : \A kind \in {"request", "worker"} : Start(e, t, label, kind) =>
              /\ task' \in [Events -> [Tasks -> TaskStates]]
              /\ task'[e][t].pc = label /\ task'[e][t].kind = kind
              /\ \A f \in Events : \A u \in Tasks : ~(f = e /\ u = t) => task'[f][u] = task[f][u]
<1>1. ASSUME Leave(e, t)
      PROVE  /\ task' \in [Events -> [Tasks -> TaskStates]]
             /\ \A f \in Events : \A u \in Tasks :
                  task'[f][u] = IF f = e /\ u = t THEN IdleTask ELSE task[f][u]
  <2>1. PICK r : r = IdleTask
    OBVIOUS
  <2>2. task' = [task EXCEPT ![e][t] = r] /\ r \in TaskStates
    BY <1>1, <2>1, IdleTaskType DEF Leave
  <2>3. QED
    BY <2>1, <2>2, TaskMoves
<1>2. ASSUME NEW label \in Labels, Goto(e, t, label)
      PROVE  /\ task' \in [Events -> [Tasks -> TaskStates]]
             /\ task'[e][t].pc = label /\ task'[e][t].kind = task[e][t].kind
             /\ \A f \in Events : \A u \in Tasks : ~(f = e /\ u = t) => task'[f][u] = task[f][u]
  <2>1. task[e][t] \in TaskStates
    BY DEF TypeOK
  <2>2. PICK r : r = [task[e][t] EXCEPT !.pc = label]
    OBVIOUS
  <2>3. r \in TaskStates /\ r.pc = label /\ r.kind = task[e][t].kind
    BY <2>1, <2>2 DEF TaskStates
  <2>4. task' = [task EXCEPT ![e][t] = r]
    BY <1>2, <2>2 DEF Goto
  <2>5. QED
    BY <2>3, <2>4, TaskMoves
<1>3. ASSUME NEW label \in Labels, NEW kind \in {"request", "worker"}, Start(e, t, label, kind)
      PROVE  /\ task' \in [Events -> [Tasks -> TaskStates]]
             /\ task'[e][t].pc = label /\ task'[e][t].kind = kind
             /\ \A f \in Events : \A u \in Tasks : ~(f = e /\ u = t) => task'[f][u] = task[f][u]
  <2>1. PICK r : r = [pc |-> label, kind |-> kind]
    OBVIOUS
  <2>2. r \in TaskStates /\ r.pc = label /\ r.kind = kind
    BY <2>1 DEF TaskStates
  <2>3. task' = [task EXCEPT ![e][t] = r]
    BY <1>3, <2>1 DEF Start
  <2>4. QED
    BY <2>2, <2>3, TaskMoves
<1>4. QED
  BY <1>1, <1>2, <1>3

\* One task moves on, knowing what its new label asks for.
LEMMA TasksKeep ==
  ASSUME IInv, NEW e \in Events, NEW t \in Tasks,
         \A f \in Events : \A u \in Tasks : ~(f = e /\ u = t) => task'[f][u] = task[f][u],
         handled \subseteq handled', setting' = setting,
         task'[e][t].pc \in Finishing => e \in handled',
         task'[e][t].pc = "complete" => e \notin odd
  PROVE  HandledFirst' /\ OddIsParked'
<1>1. ASSUME NEW f \in Events, NEW u \in Tasks
      PROVE  /\ task'[f][u].pc \in Finishing => f \in handled'
             /\ f \in odd => task'[f][u].pc # "complete"
  <2>1. CASE f = e /\ u = t
    BY <2>1
  <2>2. CASE ~(f = e /\ u = t)
    BY <2>2 DEF IInv, HandledFirst, OddIsParked
  <2>3. QED
    BY <2>1, <2>2
<1>2. odd \subseteq Events
  BY DEF IInv, TypeOK
<1>3. QED
  BY <1>1, <1>2 DEF HandledFirst, OddIsParked

\* A task leaves.
LEMMA LeaveKeeps ==
  ASSUME IInv, NEW e \in Events, NEW t \in Tasks, Leave(e, t), handled' = handled, setting' = setting
  PROVE  task' \in [Events -> [Tasks -> TaskStates]] /\ HandledFirst' /\ OddIsParked'
<1>1. /\ task' \in [Events -> [Tasks -> TaskStates]]
      /\ \A f \in Events : \A u \in Tasks :
           task'[f][u] = IF f = e /\ u = t THEN IdleTask ELSE task[f][u]
  BY Moves DEF IInv
<1>2. task'[e][t].pc = "idle"
  BY <1>1, IdleTaskType
<1>3. QED
  BY <1>1, <1>2, TasksKeep DEF Finishing

\* A handler that returns has handled its event; it ends its own job only.
LEMMA ReturnKeeps ==
  ASSUME IInv, NEW e \in Events, NEW t \in Tasks, Return(e, t), e \in handled,
         UNCHANGED <<handled, faults>>, status' \in [Events -> Statuses], CompletedIsApplied'
  PROVE  IInv'
<1>1. /\ UNCHANGED <<tries, stalled, sent, setting>>
      /\ job' = [job EXCEPT ![e] = IF @ = t THEN "none" ELSE @] \/ job' = job
      /\ acked' = acked \/ acked' = acked \cup {e}
  BY DEF Return, EndJob, queue, provider
<1>2. task' \in [Events -> [Tasks -> TaskStates]] /\ HandledFirst' /\ OddIsParked'
  BY <1>1, LeaveKeeps DEF Return
<1>3. /\ job' \in [Events -> {"none", "waiting", "failed"} \cup Tasks]
      /\ \A f \in Events : job'[f] = job[f] \/ (f = e /\ job'[f] = "none")
  BY <1>1 DEF IInv, TypeOK
<1>4. TypeOK'
  BY <1>1, <1>2, <1>3 DEF IInv, TypeOK
<1>5. TriesLeft'
  BY <1>1, <1>3, WorkersAssumption DEF IInv, TriesLeft
<1>6. AckedIsKept'
  BY <1>1, <1>3 DEF IInv, AckedIsKept, TypeOK
<1>7. QED
  BY <1>2, <1>4, <1>5, <1>6 DEF IInv

\* A handler that throws gives its job back, or up.
LEMMA ThrowKeeps ==
  ASSUME IInv, NEW e \in Events, NEW t \in Tasks, Throw(e, t),
         handled' = handled, faults' \in 0 .. MaxFaults, status' \in [Events -> Statuses],
         CompletedIsApplied'
  PROVE  IInv'
<1>1. /\ UNCHANGED <<stalled, sent, acked, setting>>
      /\ \/ UNCHANGED <<job, tries>>
         \/ /\ job[e] = t
            /\ tries' = [tries EXCEPT ![e] = @ + 1]
            /\ job' = [job EXCEPT ![e] = IF tries[e] + 1 < MaxTries THEN "waiting" ELSE "failed"]
  BY DEF Throw, RetryJob, provider
<1>2. task' \in [Events -> [Tasks -> TaskStates]] /\ HandledFirst' /\ OddIsParked'
  BY <1>1, LeaveKeeps DEF Throw
<1>3. /\ job' \in [Events -> {"none", "waiting", "failed"} \cup Tasks]
      /\ tries' \in [Events -> 0 .. MaxTries]
      /\ TriesLeft'
      /\ \A f \in Events : job'[f] = job[f] \/ job'[f] # "none"
  <2>1. CASE UNCHANGED <<job, tries>>
    BY <2>1 DEF IInv, TypeOK, TriesLeft
  <2>2. CASE ~UNCHANGED <<job, tries>>
    <3>1. /\ tries[e] \in 0 .. MaxTries /\ tries[e] < MaxTries /\ MaxTries \in Nat
          /\ tries \in [Events -> 0 .. MaxTries]
          /\ job \in [Events -> {"none", "waiting", "failed"} \cup Tasks]
      BY <1>1, <2>2, TriesAssumption DEF IInv, TypeOK, TriesLeft
    <3>2. /\ \A f \in Events : tries'[f] = IF f = e THEN tries[e] + 1 ELSE tries[f]
          /\ \A f \in Events : job'[f] =
               IF f = e THEN IF tries[e] + 1 < MaxTries THEN "waiting" ELSE "failed" ELSE job[f]
      BY <1>1, <2>2, <3>1
    <3>3. job' \in [Events -> {"none", "waiting", "failed"} \cup Tasks]
      BY <1>1, <2>2, <3>1
    <3>4. tries' \in [Events -> 0 .. MaxTries]
      BY <1>1, <2>2, <3>1
    <3>5. ASSUME NEW f \in Events, job'[f] \in {"waiting"} \cup Tasks PROVE tries'[f] < MaxTries
      BY <3>1, <3>2, <3>5, WorkersAssumption DEF IInv, TriesLeft
    <3>6. \A f \in Events : job'[f] = job[f] \/ job'[f] # "none"
      BY <3>2
    <3>7. QED
      BY <3>3, <3>4, <3>5, <3>6 DEF TriesLeft
  <2>3. QED
    BY <2>1, <2>2
<1>4. TypeOK'
  BY <1>1, <1>2, <1>3 DEF IInv, TypeOK
<1>5. AckedIsKept'
  BY <1>1, <1>3 DEF IInv, AckedIsKept, TypeOK
<1>6. QED
  BY <1>2, <1>3, <1>4, <1>5 DEF IInv

\* A task goes on.
LEMMA GotoKeeps ==
  ASSUME IInv, NEW e \in Events, NEW t \in Tasks, NEW label \in Labels, Goto(e, t, label),
         UNCHANGED <<queue, provider>>, handled \subseteq handled', handled' \subseteq Events,
         label \in Finishing => e \in handled', label = "complete" => e \notin odd,
         faults' \in 0 .. MaxFaults, status' \in [Events -> Statuses], CompletedIsApplied'
  PROVE  IInv'
<1>1. /\ task' \in [Events -> [Tasks -> TaskStates]]
      /\ task'[e][t].pc = label
      /\ \A f \in Events : \A u \in Tasks : ~(f = e /\ u = t) => task'[f][u] = task[f][u]
  BY Moves DEF IInv
<1>2. HandledFirst' /\ OddIsParked'
  BY <1>1, TasksKeep DEF provider
<1>3. TypeOK'
  BY <1>1 DEF IInv, TypeOK, queue, provider
<1>4. TriesLeft' /\ AckedIsKept'
  BY DEF IInv, TriesLeft, AckedIsKept, queue, provider
<1>5. QED
  BY <1>2, <1>3, <1>4 DEF IInv

-----------------------------------------------------------------------------
(* Every step keeps the invariant *)

\* A fault is counted.
LEMMA FaultCounts ==
  ASSUME IInv, Fault
  PROVE  faults' \in 0 .. MaxFaults
BY WebhookFaultsAssumption DEF Fault, IInv, TypeOK

\* What the lemmas above ask of a step that leaves something unchanged.
LEMMA Unchanged ==
  ASSUME IInv
  PROVE  /\ faults \in 0 .. MaxFaults /\ handled \subseteq Events
         /\ status \in [Events -> Statuses]
         /\ status' = status /\ handled \subseteq handled' /\ setting' = setting => CompletedIsApplied'
BY DEF IInv, TypeOK, CompletedIsApplied

\* What setStatus writes.
LEMMA Written ==
  ASSUME IInv, NEW e \in Events, NEW s \in Statuses, SetStatus(e, s),
         UNCHANGED <<handled, setting>>, s = "COMPLETED" => e \in handled \ odd
  PROVE  status' \in [Events -> Statuses] /\ CompletedIsApplied'
<1>1. \A f \in Events : status'[f] = IF f = e THEN s ELSE status[f]
  BY DEF SetStatus, IInv, TypeOK
<1>2. QED
  BY <1>1 DEF SetStatus, IInv, TypeOK, CompletedIsApplied

\* A job that may run goes on, waits, or has failed; nothing else changes.
LEMMA JobKeeps ==
  ASSUME IInv, UNCHANGED <<status, tries, acked, setting, handled>>,
         \A f \in Events :
           \/ job'[f] = job[f]
           \/ job[f] \in {"waiting"} \cup Tasks /\ job'[f] \in {"waiting", "failed"} \cup Tasks
  PROVE  TriesLeft' /\ CompletedIsApplied' /\ AckedIsKept'
<1>1. TriesLeft' /\ CompletedIsApplied'
  BY DEF IInv, TriesLeft, CompletedIsApplied
<1>2. ASSUME NEW f \in acked PROVE f \in handled \/ (queueEnabled /\ job'[f] # "none")
  <2>1. f \in Events /\ (f \in handled \/ (queueEnabled /\ job[f] # "none"))
    BY DEF IInv, TypeOK, AckedIsKept
  <2>2. "none" \notin {"waiting", "failed"} \cup Tasks
    BY WorkersAssumption
  <2>3. QED
    BY <2>1, <2>2
<1>3. QED
  BY <1>1, <1>2 DEF AckedIsKept

\* A step that adds the job, or not, and leaves the request.
LEMMA AddKeeps ==
  ASSUME IInv, NEW e \in Events, NEW t \in Tasks, Leave(e, t),
         AddJob(e) \/ (UNCHANGED queue /\ acked' = acked), acked' \in {acked, acked \cup {e}},
         UNCHANGED <<sent, setting, status, handled>>, faults' \in 0 .. MaxFaults, queueEnabled
  PROVE  IInv'
<1>1. task' \in [Events -> [Tasks -> TaskStates]] /\ HandledFirst' /\ OddIsParked'
  BY LeaveKeeps
<1>2. CASE UNCHANGED queue
  <2>1. TypeOK' /\ TriesLeft' /\ CompletedIsApplied'
    BY <1>1, <1>2 DEF IInv, TypeOK, TriesLeft, CompletedIsApplied, queue
  <2>2. acked' = acked \/ job[e] # "none"
    BY <1>2 DEF AddJob, queue, IInv, TypeOK
  <2>3. AckedIsKept'
    BY <1>2, <2>2 DEF IInv, AckedIsKept, queue
  <2>4. QED
    BY <1>1, <2>1, <2>3 DEF IInv
<1>3. CASE ~UNCHANGED queue
  <2>1. /\ job' = [job EXCEPT ![e] = "waiting"]
        /\ tries' = [tries EXCEPT ![e] = 0]
        /\ stalled' = stalled \ {e}
    BY <1>3 DEF AddJob
  <2>2. /\ \A f \in Events : job'[f] = IF f = e THEN "waiting" ELSE job[f]
        /\ \A f \in Events : tries'[f] = IF f = e THEN 0 ELSE tries[f]
    BY <2>1 DEF IInv, TypeOK
  <2>3. TypeOK'
    BY <1>1, <2>1, TriesAssumption DEF IInv, TypeOK
  <2>4. TriesLeft' /\ CompletedIsApplied'
    BY <2>2, TriesAssumption DEF IInv, TriesLeft, CompletedIsApplied
  <2>5. AckedIsKept'
    BY <2>2 DEF IInv, TypeOK, AckedIsKept
  <2>6. QED
    BY <1>1, <2>3, <2>4, <2>5 DEF IInv
<1>4. QED
  BY <1>2, <1>3

\* Every statement of ingest and handle.
LEMMA StepKeeps ==
  ASSUME IInv, NEW e \in Events, NEW t \in Tasks, Step(e, t)
  PROVE  IInv'
<1> USE DEF At, Labels, Statuses, Finishing
<1>1. CASE Store(e, t)
  <2>1. status' \in [Events -> Statuses] /\ CompletedIsApplied'
    BY <1>1 DEF Store, IInv, TypeOK, CompletedIsApplied, provider
  <2>2. QED
    BY <1>1, <2>1, Unchanged, GotoKeeps DEF Store
<1>2. CASE ReadExisting(e, t)
  <2>1. CASE status[e] = "COMPLETED"
    BY <1>2, <2>1, Unchanged, ReturnKeeps DEF ReadExisting, IInv, CompletedIsApplied, Return, provider
  <2>2. CASE status[e] # "COMPLETED"
    BY <1>2, <2>2, Unchanged, GotoKeeps DEF ReadExisting, provider
  <2>3. QED
    BY <2>1, <2>2
<1>3. CASE Enqueue(e, t)
  <2>1. CASE queueEnabled
    BY <1>3, <2>1, Unchanged, AddKeeps DEF Enqueue
  <2>2. CASE ~queueEnabled
    BY <1>3, <2>2, Unchanged, GotoKeeps DEF Enqueue, provider
  <2>3. QED
    BY <2>1, <2>2
<1>4. CASE ReadEvent(e, t)
  <2>1. CASE status[e] = "COMPLETED"
    BY <1>4, <2>1, Unchanged, ReturnKeeps DEF ReadEvent, IInv, CompletedIsApplied, Return, provider
  <2>2. CASE status[e] # "COMPLETED"
    BY <1>4, <2>2, Unchanged, GotoKeeps DEF ReadEvent, provider
  <2>3. QED
    BY <2>1, <2>2
<1>5. CASE MarkProcessing(e, t)
  <2>1. status' \in [Events -> Statuses] /\ CompletedIsApplied'
    BY <1>5, Written DEF MarkProcessing, provider
  <2>2. QED
    BY <1>5, <2>1, Unchanged, GotoKeeps DEF MarkProcessing
<1>6. CASE Apply(e, t)
  <2>1. PICK label \in {"park", "complete"} : label = IF e \in odd THEN "park" ELSE "complete"
    OBVIOUS
  <2>2. Goto(e, t, label) /\ handled' = handled \cup {e} /\ UNCHANGED <<status, queue, provider, faults>>
    BY <1>6, <2>1 DEF Apply
  <2>3. handled \subseteq handled' /\ handled' \subseteq Events /\ e \in handled'
    BY <2>2, Unchanged
  <2>4. label = "complete" => e \notin odd
    BY <2>1
  <2>5. QED
    BY <2>2, <2>3, <2>4, Unchanged, GotoKeeps DEF provider
<1>7. CASE Complete(e, t)
  <2>1. e \in handled \ odd
    BY <1>7 DEF Complete, IInv, HandledFirst, OddIsParked
  <2>2. status' \in [Events -> Statuses] /\ CompletedIsApplied'
    BY <1>7, <2>1, Written DEF Complete, Return, provider
  <2>3. QED
    BY <1>7, <2>1, <2>2, ReturnKeeps DEF Complete
<1>8. CASE Park(e, t)
  <2>1. e \in handled
    BY <1>8 DEF Park, IInv, HandledFirst
  <2>2. status' \in [Events -> Statuses] /\ CompletedIsApplied'
    BY <1>8, Written DEF Park, Return, provider
  <2>3. QED
    BY <1>8, <2>1, <2>2, ReturnKeeps DEF Park
<1>9. CASE Fail(e, t)
  <2>1. status' \in [Events -> Statuses] /\ CompletedIsApplied'
    BY <1>9, Written DEF Fail, Throw, provider
  <2>2. QED
    BY <1>9, <2>1, Unchanged, ThrowKeeps DEF Fail
<1>10. QED
  BY <1>1, <1>2, <1>3, <1>4, <1>5, <1>6, <1>7, <1>8, <1>9 DEF Step

\* Every fault.
LEMMA FaultKeeps ==
  ASSUME IInv, NEW e \in Events, NEW t \in Tasks,
         EnqueueTimesOut(e, t) \/ ApplyThrows(e, t) \/ StatementThrows(e, t) \/ Crash(e, t)
  PROVE  IInv'
<1>0. faults' \in 0 .. MaxFaults
  BY FaultCounts DEF EnqueueTimesOut, ApplyThrows, StatementThrows, Crash
<1>1. CASE EnqueueTimesOut(e, t)
  BY <1>0, <1>1, AddKeeps DEF EnqueueTimesOut, provider
<1>2. CASE ApplyThrows(e, t)
  <2>1. handled \subseteq handled' /\ handled' \subseteq Events
    BY <1>2, Unchanged DEF ApplyThrows
  <2>2. QED
    BY <1>0, <1>2, <2>1, Unchanged, GotoKeeps DEF ApplyThrows, Labels, Finishing, provider
<1>3. CASE StatementThrows(e, t)
  BY <1>0, <1>3, Unchanged, ThrowKeeps DEF StatementThrows, Throw, provider
<1>4. CASE Crash(e, t)
  <2>1. task' \in [Events -> [Tasks -> TaskStates]] /\ HandledFirst' /\ OddIsParked'
    BY <1>4, LeaveKeeps DEF Crash, provider
  <2>2. /\ job' \in [Events -> {"none", "waiting", "failed"} \cup Tasks]
        /\ stalled' \subseteq Events
        /\ \A f \in Events :
             \/ job'[f] = job[f]
             \/ job[f] \in Tasks /\ job'[f] \in {"waiting", "failed"}
    BY <1>4 DEF Crash, IInv, TypeOK
  <2>3. TypeOK'
    BY <1>0, <1>4, <2>1, <2>2 DEF Crash, IInv, TypeOK, provider
  <2>4. TriesLeft' /\ CompletedIsApplied' /\ AckedIsKept'
    BY <1>4, <2>2, JobKeeps DEF Crash, provider
  <2>5. QED
    BY <2>1, <2>3, <2>4 DEF IInv
<1>5. QED
  BY <1>1, <1>2, <1>3, <1>4

\* A delivery arrives, or a worker takes the job.
LEMMA StartKeeps ==
  ASSUME IInv, NEW e \in Events, NEW t \in Tasks,
         Deliver(e, t) \/ Redeliver(e, t) \/ StartJob(e, t)
  PROVE  IInv'
<1>1. PICK label \in {"store", "read"}, kind \in {"request", "worker"} : Start(e, t, label, kind)
  BY DEF Deliver, Redeliver, StartJob
<1>2. /\ task' \in [Events -> [Tasks -> TaskStates]]
      /\ task'[e][t].pc = label
      /\ \A f \in Events : \A u \in Tasks : ~(f = e /\ u = t) => task'[f][u] = task[f][u]
  BY <1>1, Moves DEF IInv, Labels
<1>3. /\ UNCHANGED <<status, tries, stalled, sent, acked, setting, handled>>
      /\ faults' \in 0 .. MaxFaults
      /\ job' = job \/ (job[e] = "waiting" /\ job' = [job EXCEPT ![e] = t])
  BY FaultCounts, Unchanged DEF Deliver, Redeliver, StartJob, queue, provider
<1>4. HandledFirst' /\ OddIsParked'
  BY <1>2, <1>3, TasksKeep DEF Finishing
<1>5. /\ job' \in [Events -> {"none", "waiting", "failed"} \cup Tasks]
      /\ \A f \in Events : job'[f] = job[f] \/ (job[f] = "waiting" /\ job'[f] \in Tasks)
  BY <1>3 DEF IInv, TypeOK
<1>6. TypeOK'
  BY <1>2, <1>3, <1>5 DEF IInv, TypeOK
<1>7. TriesLeft' /\ CompletedIsApplied' /\ AckedIsKept'
  BY <1>3, <1>5, JobKeeps
<1>8. QED
  BY <1>4, <1>6, <1>7 DEF IInv

\* Nothing moves but the provider's announcements or a stalled job.
LEMMA FrameKeeps ==
  ASSUME IInv, (\E e \in Events : Announce(e) \/ StallJob(e)) \/ UNCHANGED vars
  PROVE  IInv'
<1>1. /\ UNCHANGED <<status, tries, task, acked, setting, handled>>
      /\ sent' \subseteq Events /\ stalled' \subseteq Events /\ faults' \in 0 .. MaxFaults
      /\ \/ job' = job
         \/ \E e \in Events : job[e] \in Tasks /\ job' = [job EXCEPT ![e] = "waiting"]
  BY FaultCounts, Unchanged DEF Announce, StallJob, vars, queue, provider, IInv, TypeOK
<1>2. /\ job' \in [Events -> {"none", "waiting", "failed"} \cup Tasks]
      /\ \A f \in Events : job'[f] = job[f] \/ (job[f] \in Tasks /\ job'[f] = "waiting")
  BY <1>1 DEF IInv, TypeOK
<1>3. TypeOK'
  BY <1>1, <1>2 DEF IInv, TypeOK
<1>4. HandledFirst' /\ OddIsParked'
  BY <1>1 DEF IInv, HandledFirst, OddIsParked
<1>5. TriesLeft' /\ CompletedIsApplied' /\ AckedIsKept'
  BY <1>1, <1>2, JobKeeps
<1>6. QED
  BY <1>3, <1>4, <1>5 DEF IInv

\* So every step keeps it.
LEMMA NextKeeps ==
  ASSUME IInv, [Next]_vars
  PROVE  IInv'
BY StepKeeps, FaultKeeps, StartKeeps, FrameKeeps DEF Next

-----------------------------------------------------------------------------
(* What follows *)

\* The invariant holds in every reachable state.
THEOREM Invariant == Spec => []IInv
<1>1. Init => IInv
  <2> SUFFICES ASSUME Init PROVE IInv
    OBVIOUS
  <2>1. TypeOK
    BY IdleTaskType, TriesAssumption, WebhookFaultsAssumption DEF Init, TypeOK, Statuses
  <2>2. HandledFirst /\ OddIsParked
    BY IdleTaskType DEF Init, HandledFirst, OddIsParked, Finishing, TypeOK
  <2>3. TriesLeft /\ CompletedIsApplied /\ AckedIsKept
    BY TriesAssumption DEF Init, TriesLeft, CompletedIsApplied, AckedIsKept
  <2>4. QED
    BY <2>1, <2>2, <2>3 DEF IInv
<1>2. IInv /\ [Next]_vars => IInv'
  BY NextKeeps
<1>3. QED
  BY <1>1, <1>2, PTL DEF Spec

\* Every variable keeps its type; no job is tried more often than it may be.
THEOREM TypeCorrect == Spec => []TypeOK
<1>1. IInv => TypeOK
  BY DEF IInv
<1>2. QED
  BY <1>1, Invariant, PTL

\* No 200 loses an event: with a queue, without one, with jobs that are run twice at
\* once, and however many copies of the event arrive.
THEOREM NothingAckedIsLost == Spec => []AckedIsKept
<1>1. IInv => AckedIsKept
  BY DEF IInv
<1>2. QED
  BY <1>1, Invariant, PTL

\* COMPLETED means that the effect was applied.
THEOREM CompletedMeansApplied == Spec => []CompletedIsApplied
<1>1. IInv => CompletedIsApplied
  BY DEF IInv
<1>2. QED
  BY <1>1, Invariant, PTL

-----------------------------------------------------------------------------
(* A completed event is final, when the queue runs a job once at a time *)

\* The labels of ingest, and those of handle after its read of the status.
Ingesting == {"store", "duplicate", "enqueue"}
Working == {"mark", "apply", "complete", "park", "fail"}

\* A handler has the event's job; ingest runs in requests.
Alone ==
  \A e \in Events : \A t \in Tasks :
    /\ task[e][t].pc \in Working \cup {"read"} => job[e] = t
    /\ task[e][t].pc \in Ingesting => task[e][t].kind = "request"

\* Nobody works on a completed event.
AtRest ==
  \A e \in Events : status[e] = "COMPLETED" => \A t \in Tasks : task[e][t].pc \notin Working

\* A task goes on to label and takes the job from no other task.
LEMMA AloneMoves ==
  ASSUME Alone, AtRest, NEW e \in Events, NEW t \in Tasks, NEW label, NEW kind,
         task'[e][t].pc = label, task'[e][t].kind = kind,
         \A f \in Events : \A u \in Tasks : ~(f = e /\ u = t) => task'[f][u] = task[f][u],
         \A f \in Events \ {e} : job'[f] = job[f] /\ status'[f] = status[f],
         \A u \in Tasks \ {t} : job[e] = u => job'[e] = u,
         label \in Working \cup {"read"} => job'[e] = t,
         label \in Ingesting => kind = "request",
         label \in Working => status'[e] # "COMPLETED",
         status'[e] = "COMPLETED" => status[e] = "COMPLETED" \/ job[e] = t
  PROVE  Alone' /\ AtRest'
<1>1. ASSUME NEW f \in Events, NEW u \in Tasks
      PROVE  /\ task'[f][u].pc \in Working \cup {"read"} => job'[f] = u
             /\ task'[f][u].pc \in Ingesting => task'[f][u].kind = "request"
             /\ status'[f] = "COMPLETED" => task'[f][u].pc \notin Working
  <2>1. CASE f = e /\ u = t
    BY <2>1
  <2>2. CASE f # e
    BY <2>2 DEF Alone, AtRest
  <2>3. CASE f = e /\ u # t
    BY <2>3 DEF Alone, AtRest
  <2>4. QED
    BY <2>1, <2>2, <2>3
<1>2. QED
  BY <1>1 DEF Alone, AtRest

\* It returns or throws.
LEMMA AloneLeaves ==
  ASSUME IInv, Alone, AtRest, NEW e \in Events, NEW t \in Tasks, Leave(e, t),
         \A f \in Events \ {e} : job'[f] = job[f] /\ status'[f] = status[f],
         \A u \in Tasks \ {t} : job[e] = u => job'[e] = u,
         status'[e] = "COMPLETED" => status[e] = "COMPLETED" \/ job[e] = t
  PROVE  Alone' /\ AtRest'
<1>1. \A f \in Events : \A u \in Tasks : task'[f][u] = IF f = e /\ u = t THEN IdleTask ELSE task[f][u]
  BY Moves DEF IInv
<1>2. PICK kind : kind = task'[e][t].kind
  OBVIOUS
<1>3. task'[e][t].pc = "idle" /\ task'[e][t].kind = kind
  BY <1>1, <1>2, IdleTaskType
<1>4. "idle" \notin Working \cup {"read"} \cup Ingesting
  BY DEF Working, Ingesting
<1>5. QED
  BY <1>1, <1>3, <1>4, AloneMoves

\* What Return and Throw do to the jobs.
LEMMA JobsGivenBack ==
  ASSUME IInv, NEW e \in Events, NEW t \in Tasks, Return(e, t) \/ Throw(e, t)
  PROVE  /\ Leave(e, t)
         /\ \A f \in Events \ {e} : job'[f] = job[f]
         /\ \A u \in Tasks \ {t} : job[e] = u => job'[e] = u
BY DEF Return, Throw, EndJob, RetryJob, queue, IInv, TypeOK

\* A statement of ingest or handle.
LEMMA AloneStep ==
  ASSUME queueEnabled, IInv, Alone, AtRest, NEW e \in Events, NEW t \in Tasks, Step(e, t)
  PROVE  /\ Alone' /\ AtRest'
         /\ \A f \in Events : status[f] = "COMPLETED" => status'[f] = "COMPLETED"
<1> USE DEF Working, Ingesting, At
<1> DEFINE k == task[e][t].kind
<1>0. /\ status \in [Events -> Statuses]
      /\ \A label \in Labels : Goto(e, t, label) =>
           /\ task'[e][t].pc = label /\ task'[e][t].kind = k
           /\ \A f \in Events : \A u \in Tasks : ~(f = e /\ u = t) => task'[f][u] = task[f][u]
  BY Moves DEF IInv, TypeOK
<1>1. ASSUME NEW label \in Labels, Goto(e, t, label), UNCHANGED queue,
             label \in Working \cup {"read"} => task[e][t].pc \in Working \cup {"read"},
             label \in Ingesting => task[e][t].pc \in Ingesting,
             label \in Working => status'[e] # "COMPLETED",
             status' = status \/ (task[e][t].pc \in Working /\ \E s \in Statuses \ {"COMPLETED"} : SetStatus(e, s))
             \/ (status[e] = "absent" /\ status' = [status EXCEPT ![e] = "PENDING"])
      PROVE  /\ Alone' /\ AtRest'
             /\ \A f \in Events : status[f] = "COMPLETED" => status'[f] = "COMPLETED"
  <2>1. /\ task'[e][t].pc = label /\ task'[e][t].kind = k
        /\ \A f \in Events : \A u \in Tasks : ~(f = e /\ u = t) => task'[f][u] = task[f][u]
    BY <1>0, <1>1
  <2>2. /\ \A f \in Events \ {e} : job'[f] = job[f] /\ status'[f] = status[f]
        /\ \A u \in Tasks \ {t} : job[e] = u => job'[e] = u
        /\ status'[e] = "COMPLETED" => status[e] = "COMPLETED"
    BY <1>0, <1>1 DEF queue, SetStatus
  <2>3. /\ label \in Working \cup {"read"} => job'[e] = t
        /\ label \in Ingesting => k = "request"
    BY <1>1 DEF Alone, queue
  <2>4. Alone' /\ AtRest'
    <3> HIDE DEF k, Working, Ingesting
    <3>1. QED
      BY <1>1, <2>1, <2>2, <2>3, AloneMoves
  <2>5. ASSUME NEW f \in Events, status[f] = "COMPLETED" PROVE status'[f] = "COMPLETED"
    BY <1>0, <1>1, <2>5 DEF AtRest, SetStatus
  <2>6. QED
    BY <2>4, <2>5
<1>2. CASE Store(e, t)
  <2>1. CASE status[e] = "absent"
    BY <1>0, <1>1, <1>2, <2>1 DEF Store, Labels
  <2>2. CASE status[e] # "absent"
    BY <1>0, <1>1, <1>2, <2>2 DEF Store, Labels
  <2>3. QED
    BY <2>1, <2>2
<1>3. ASSUME Return(e, t) \/ Throw(e, t), status' = status
      PROVE  /\ Alone' /\ AtRest'
             /\ \A f \in Events : status[f] = "COMPLETED" => status'[f] = "COMPLETED"
  BY <1>3, JobsGivenBack, AloneLeaves
<1>4. CASE ReadExisting(e, t)
  BY <1>0, <1>1, <1>3, <1>4 DEF ReadExisting, Labels
<1>5. CASE Enqueue(e, t)
  <2>1. /\ Leave(e, t) /\ status' = status
        /\ \A f \in Events \ {e} : job'[f] = job[f]
        /\ \A u \in Tasks : job[e] = u => job'[e] = u
    BY <1>5, WorkersAssumption DEF Enqueue, AddJob, queue, IInv, TypeOK
  <2>2. QED
    BY <2>1, AloneLeaves
<1>6. CASE ReadEvent(e, t)
  BY <1>0, <1>1, <1>3, <1>6 DEF ReadEvent, Labels
<1>7. CASE MarkProcessing(e, t)
  <2>1. SetStatus(e, "PROCESSING") /\ status'[e] = "PROCESSING"
    BY <1>0, <1>7 DEF MarkProcessing, SetStatus
  <2>2. QED
    BY <1>0, <1>1, <1>7, <2>1 DEF MarkProcessing, Labels, Statuses
<1>8. CASE Apply(e, t)
  <2>1. status[e] # "COMPLETED" /\ status' = status /\ UNCHANGED queue
    BY <1>8 DEF Apply, AtRest
  <2>2. PICK label \in {"park", "complete"} : Goto(e, t, label)
    BY <1>8 DEF Apply
  <2>3. QED
    BY <1>1, <1>8, <2>1, <2>2 DEF Apply, Labels
<1>9. ASSUME NEW s \in Statuses, SetStatus(e, s), Return(e, t) \/ Throw(e, t), task[e][t].pc \in Working
      PROVE  /\ Alone' /\ AtRest'
             /\ \A f \in Events : status[f] = "COMPLETED" => status'[f] = "COMPLETED"
  <2>1. job[e] = t /\ status[e] # "COMPLETED"
    BY <1>9 DEF Alone, AtRest
  <2>2. \A f \in Events \ {e} : status'[f] = status[f]
    BY <1>0, <1>9 DEF SetStatus
  <2>3. QED
    BY <1>9, <2>1, <2>2, JobsGivenBack, AloneLeaves
<1>10. CASE Complete(e, t)
  BY <1>9, <1>10 DEF Complete, Statuses
<1>11. CASE Park(e, t)
  BY <1>9, <1>11 DEF Park, Statuses
<1>12. CASE Fail(e, t)
  BY <1>9, <1>12 DEF Fail, Statuses
<1>13. QED
  BY <1>2, <1>4, <1>5, <1>6, <1>7, <1>8, <1>10, <1>11, <1>12 DEF Step

\* Any step.
LEMMA AloneKeeps ==
  ASSUME queueEnabled, ~stalledJobs, IInv, Alone, AtRest, [Next]_vars
  PROVE  /\ Alone' /\ AtRest'
         /\ \A f \in Events : status[f] = "COMPLETED" => status'[f] = "COMPLETED"
<1>1. ASSUME NEW e \in Events, NEW t \in Tasks, Deliver(e, t) \/ Redeliver(e, t) \/ StartJob(e, t)
      PROVE  /\ Alone' /\ AtRest' /\ status' = status
  <2>1. PICK label \in {"store", "read"}, kind \in {"request", "worker"} :
          /\ Start(e, t, label, kind)
          /\ label = "store" => kind = "request" /\ job' = job
          /\ label = "read" => job[e] = "waiting" /\ job' = [job EXCEPT ![e] = t]
    BY <1>1 DEF Deliver, Redeliver, StartJob, queue
  <2>2. /\ task'[e][t].pc = label /\ task'[e][t].kind = kind
        /\ \A f \in Events : \A u \in Tasks : ~(f = e /\ u = t) => task'[f][u] = task[f][u]
    BY <2>1, Moves DEF IInv, Labels
  <2>3. status' = status
    BY <1>1 DEF Deliver, Redeliver, StartJob
  <2>4. /\ \A f \in Events \ {e} : job'[f] = job[f]
        /\ \A u \in Tasks \ {t} : job[e] = u => job'[e] = u
        /\ label = "read" => job'[e] = t
    BY <2>1, WorkersAssumption DEF IInv, TypeOK
  <2>5. /\ label \notin Working /\ (label \in Working \cup {"read"} => label = "read")
        /\ label \in Ingesting => label = "store"
    BY DEF Working, Ingesting
  <2>6. QED
    BY <2>1, <2>2, <2>3, <2>4, <2>5, AloneMoves
<1>2. ASSUME NEW e \in Events, NEW t \in Tasks, Step(e, t)
      PROVE  /\ Alone' /\ AtRest'
             /\ \A f \in Events : status[f] = "COMPLETED" => status'[f] = "COMPLETED"
  BY <1>2, AloneStep
<1>3. ASSUME NEW e \in Events, NEW t \in Tasks,
             EnqueueTimesOut(e, t) \/ StatementThrows(e, t) \/ Crash(e, t)
      PROVE  Alone' /\ AtRest' /\ status' = status
  <2>1. /\ Leave(e, t) /\ status' = status
        /\ \A f \in Events \ {e} : job'[f] = job[f]
        /\ \A u \in Tasks \ {t} : job[e] = u => job'[e] = u
    <3>1. CASE EnqueueTimesOut(e, t)
      BY <3>1, WorkersAssumption DEF EnqueueTimesOut, AddJob, queue, IInv, TypeOK
    <3>2. CASE StatementThrows(e, t)
      BY <3>2, JobsGivenBack DEF StatementThrows
    <3>3. CASE Crash(e, t)
      BY <3>3 DEF Crash, IInv, TypeOK
    <3>4. QED
      BY <1>3, <3>1, <3>2, <3>3
  <2>2. QED
    BY <2>1, AloneLeaves
<1>4. ASSUME NEW e \in Events, NEW t \in Tasks, ApplyThrows(e, t)
      PROVE  Alone' /\ AtRest' /\ status' = status
  <2>1. /\ task'[e][t].pc = "fail" /\ task'[e][t].kind = task[e][t].kind
        /\ \A f \in Events : \A u \in Tasks : ~(f = e /\ u = t) => task'[f][u] = task[f][u]
    BY <1>4, Moves DEF ApplyThrows, IInv, Labels
  <2>2. status' = status /\ job' = job /\ job[e] = t /\ status[e] # "COMPLETED"
    BY <1>4 DEF ApplyThrows, queue, At, Working, Alone, AtRest
  <2>3. "fail" \notin Ingesting
    BY DEF Ingesting
  <2>4. QED
    BY <2>1, <2>2, <2>3, AloneMoves
<1>5. ASSUME NEW e \in Events, Announce(e) \/ StallJob(e) PROVE Alone' /\ AtRest' /\ status' = status
  BY <1>5 DEF Announce, StallJob, queue, Alone, AtRest
<1>6. CASE UNCHANGED vars
  BY <1>6 DEF vars, queue, Alone, AtRest
<1>7. QED
  BY <1>1, <1>2, <1>3, <1>4, <1>5, <1>6 DEF Next

\* Nothing changes how the processes were started.
LEMMA SettingKept ==
  ASSUME [Next]_vars
  PROVE  UNCHANGED <<queueEnabled, stalledJobs>>
<1>1. ASSUME NEW e \in Events, NEW t \in Tasks, Step(e, t) PROVE UNCHANGED setting
  BY <1>1 DEF Step, Store, ReadExisting, Enqueue, ReadEvent, MarkProcessing, Apply, Complete,
     Park, Fail, Return, Throw, provider
<1>2. QED
  BY <1>1 DEF Next, Announce, StallJob, Deliver, Redeliver, StartJob, EnqueueTimesOut,
     ApplyThrows, StatementThrows, Crash, Throw, provider, vars

\* When the queue runs a job once at a time, a completed event stays completed, although
\* setStatus does not look at the status it overwrites.
THEOREM Final == Spec => CompletedIsFinal
<1> DEFINE OneAtATime == queueEnabled /\ ~stalledJobs => Alone /\ AtRest
<1>1. Init => OneAtATime
  BY IdleTaskType DEF Init, Alone, AtRest, Working, Ingesting
<1>2. IInv /\ OneAtATime /\ [Next]_vars => OneAtATime'
  BY AloneKeeps, SettingKept
<1>3. IInv /\ OneAtATime /\ [Next]_vars =>
        [queueEnabled /\ ~stalledJobs =>
           \A e \in Events : status[e] = "COMPLETED" => status'[e] = "COMPLETED"]_vars
  BY AloneKeeps
<1>4. QED
  BY <1>1, <1>2, <1>3, Invariant, PTL DEF Spec, CompletedIsFinal

-----------------------------------------------------------------------------
(* The connection to Redis *)

\* There is a limit of attempts.
USE LimitAssumption

\* A cycle is counted before its timer is armed, and a client that ended has asked
\* retryStrategy for every retry; the service then waits for an answer or its timer, or has
\* no cycle left.
RedisInv ==
  /\ ConnectionTypeOK /\ QuietAfterShutdown
  /\ quitting => destroyed
  /\ reconnectAttempts <= cycles
  /\ clientStatus = "end" /\ ~destroyed =>
       /\ retries > MaxReconnectAttempts
       /\ attempt = "none" /\ ~timer => reconnectAttempts = MaxReconnectAttempts

\* What scheduleReconnect leaves, and the types of what it writes.
LEMMA Scheduled ==
  ASSUME RedisInv, NEW armed \in BOOLEAN,
         destroyed => ~armed, ScheduleReconnect(armed)
  PROVE  /\ timer' \in BOOLEAN /\ (destroyed => ~timer')
         /\ reconnectAttempts' \in 0 .. MaxReconnectAttempts /\ cycles' \in Nat
         /\ reconnectAttempts' <= cycles'
         /\ ~destroyed /\ ~timer' => reconnectAttempts' = MaxReconnectAttempts
<1> USE DEF RedisInv, ConnectionTypeOK
<1>1. CASE destroyed \/ armed \/ reconnectAttempts >= MaxReconnectAttempts
  <2>1. timer' = armed /\ reconnectAttempts' = reconnectAttempts /\ cycles' = cycles
    BY <1>1 DEF ScheduleReconnect, counters
  <2>2. timer' \in BOOLEAN /\ (destroyed => ~timer')
    BY <2>1, Zenon
  <2>3. ~destroyed /\ ~timer' => reconnectAttempts >= MaxReconnectAttempts
    BY <1>1, <2>1, Zenon
  <2>4. QED
    BY <2>1, <2>2, <2>3
<1>2. CASE ~destroyed /\ ~armed /\ ~(reconnectAttempts >= MaxReconnectAttempts)
  <2>1. timer' = TRUE /\ reconnectAttempts' = reconnectAttempts + 1 /\ cycles' = cycles + 1
    BY <1>2 DEF ScheduleReconnect
  <2>2. timer' \in BOOLEAN
    BY <2>1, Zenon
  <2>3. QED
    BY <1>2, <2>1, <2>2
<1>3. QED
  BY <1>1, <1>2

\* The same of the end of tryConnect, which schedules nothing once there is a connection.
LEMMA Tried ==
  ASSUME RedisInv, NEW c \in BOOLEAN, NEW armed \in BOOLEAN,
         destroyed => ~armed, AfterTry(c, armed)
  PROVE  /\ attempt' = "none" /\ isConnected' = c
         /\ timer' \in BOOLEAN /\ (destroyed => ~timer')
         /\ reconnectAttempts' \in 0 .. MaxReconnectAttempts /\ cycles' \in Nat
         /\ reconnectAttempts' <= cycles'
         /\ ~c /\ ~destroyed /\ ~timer' => reconnectAttempts' = MaxReconnectAttempts
<1>1. CASE c
  BY <1>1 DEF RedisInv, ConnectionTypeOK, AfterTry, counters
<1>2. CASE ~c
  BY <1>2, Scheduled DEF AfterTry
<1>3. QED
  BY <1>1, <1>2

\* tryConnect begins where no attempt is under way.
LEMMA TryConnectKeeps ==
  ASSUME RedisInv, NEW armed \in BOOLEAN,
         destroyed => ~armed, TryConnect(armed), UNCHANGED <<up, destroyed>>, started' \in BOOLEAN
  PROVE  RedisInv'
<1> USE DEF RedisInv, ConnectionTypeOK, QuietAfterShutdown, client
<1>1. CASE destroyed \/ clientStatus \in {"connecting", "reconnecting"}
  BY <1>1, Tried DEF TryConnect
<1>2. CASE ~destroyed /\ clientStatus = "ready"
  BY <1>2, Tried DEF TryConnect
<1>3. CASE ~destroyed /\ clientStatus = "connect"
  BY <1>3, Tried DEF TryConnect
<1>4. CASE ~destroyed /\ clientStatus \in {"wait", "end"}
  <2>1. CallConnect(armed)
    BY <1>4 DEF TryConnect
  <2>2. QED
    BY <1>4, <2>1 DEF CallConnect, counters
<1>5. QED
  BY <1>1, <1>2, <1>3, <1>4

\* The client closes: it retries, or it ends and the service is told.
LEMMA CloseKeeps ==
  ASSUME RedisInv, Close
  PROVE  RedisInv'
<1> USE DEF RedisInv, ConnectionTypeOK, QuietAfterShutdown
<1>1. /\ UNCHANGED <<up, quitting, destroyed, started>>
      /\ retries' = IF retries > MaxReconnectAttempts THEN retries ELSE retries + 1
  BY DEF Close
<1>2. PICK again \in BOOLEAN :
        /\ again <=> ~quitting /\ ~destroyed /\ retries + 1 <= MaxReconnectAttempts
        /\ clientStatus' = IF again THEN "reconnecting" ELSE "end"
        /\ OnClose(~again)
  BY DEF Close, RetryStrategy
<1>3. ~again /\ ~destroyed => retries' > MaxReconnectAttempts
  BY <1>1, <1>2
<1>4. retries' \in 0 .. MaxReconnectAttempts + 1
  BY <1>1
<1>5. CASE attempt = "connect" \/ ~again
  <2>1. AfterTry(FALSE, timer)
    BY <1>2, <1>5 DEF OnClose
  <2>2. QED
    BY <1>1, <1>2, <1>3, <1>4, <2>1, Tried
<1>6. CASE attempt # "connect" /\ again
  <2>1. isConnected' = FALSE /\ UNCHANGED <<attempt, timer, reconnectAttempts, cycles>>
    BY <1>2, <1>6 DEF OnClose, counters
  <2>2. QED
    BY <1>1, <1>2, <1>4, <1>6, <2>1
<1>7. QED
  BY <1>5, <1>6

\* The invariant of the connection holds always.
LEMMA RedisInvariant ==
  ASSUME MaxReconnectAttempts \in Nat \ {0}
  PROVE  ConnectionSpec => []RedisInv
<1>1. ASSUME ConnectionInit PROVE RedisInv
  <2>1. up \in BOOLEAN /\ quitting \in BOOLEAN /\ isConnected \in BOOLEAN
    BY <1>1, Zenon DEF ConnectionInit
  <2>2. timer \in BOOLEAN /\ destroyed \in BOOLEAN /\ started \in BOOLEAN
    BY <1>1, Zenon DEF ConnectionInit
  <2>3. QED
    BY <1>1, <2>1, <2>2 DEF ConnectionInit, RedisInv, ConnectionTypeOK, QuietAfterShutdown
<1>2. ASSUME RedisInv, [ConnectionNext]_connectionVars PROVE RedisInv'
  <2> USE DEF RedisInv, ConnectionTypeOK, QuietAfterShutdown, client, counters
  <2>1. CASE OnModuleInit \/ Tick
    BY <1>2, <2>1, TryConnectKeeps DEF OnModuleInit, Tick
  <2>2. CASE ConnectTimesOut \/ PingAnswered \/ PingFails
    BY <1>2, <2>2, Tried DEF ConnectTimesOut, PingAnswered, PingFails
  <2>3. CASE Connected \/ HandshakeDone \/ Retry
    <3>1. CASE Connected
      BY <1>2, <3>1 DEF Connected, OnConnect
    <3>2. CASE HandshakeDone
      BY <1>2, <3>2 DEF HandshakeDone
    <3>3. CASE Retry
      BY <1>2, <3>3 DEF Retry
    <3>4. QED
      BY <2>3, <3>1, <3>2, <3>3
  <2>4. CASE ConnectFails \/ ConnectionLost
    BY <1>2, <2>4, CloseKeeps DEF ConnectFails, ConnectionLost
  <2>5. CASE OnModuleDestroy \/ RedisTurns
    <3>1. CASE OnModuleDestroy
      <4>1. timer' \in BOOLEAN /\ quitting' \in BOOLEAN /\ destroyed' \in BOOLEAN
        BY <3>1, Zenon DEF OnModuleDestroy
      <4>2. destroyed' /\ ~timer'
        BY <3>1 DEF OnModuleDestroy
      <4>3. QED
        BY <1>2, <3>1, <4>1, <4>2 DEF OnModuleDestroy
    <3>2. CASE RedisTurns
      <4>1. up' \in BOOLEAN
        BY <3>2, Zenon DEF RedisTurns
      <4>2. QED
        BY <1>2, <3>2, <4>1 DEF RedisTurns
    <3>3. QED
      BY <2>5, <3>1, <3>2
  <2>6. CASE UNCHANGED connectionVars
    BY <1>2, <2>6 DEF connectionVars
  <2>7. QED
    BY <1>2, <2>1, <2>2, <2>3, <2>4, <2>5, <2>6 DEF ConnectionNext, Own
<1>3. QED
  BY <1>1, <1>2, PTL DEF ConnectionSpec

\* Type correctness of RedisConnection; both counters keep within their limits.
THEOREM RedisTypeCorrect ==
  ASSUME MaxReconnectAttempts \in Nat \ {0}
  PROVE  ConnectionSpec => []ConnectionTypeOK
<1>1. RedisInv => ConnectionTypeOK
  BY DEF RedisInv
<1>2. QED
  BY <1>1, RedisInvariant, PTL

\* Whatever the limit is and however Redis comes and goes, the service stops for good only
\* when the client has no retry left and the service no cycle.
THEOREM RedisGivesUpLast ==
  ASSUME MaxReconnectAttempts \in Nat \ {0}
  PROVE  ConnectionSpec => []GivesUpOnlyWhenExhausted
<1>1. RedisInv => GivesUpOnlyWhenExhausted
  BY DEF RedisInv, GivesUpOnlyWhenExhausted, Stopped, ConnectionTypeOK
<1>2. QED
  BY <1>1, RedisInvariant, PTL

\* No timer is armed once the module is destroyed, whatever was under way then.
THEOREM RedisQuietAfterShutdown ==
  ASSUME MaxReconnectAttempts \in Nat \ {0}
  PROVE  ConnectionSpec => []QuietAfterShutdown
<1>1. RedisInv => QuietAfterShutdown
  BY DEF RedisInv
<1>2. QED
  BY <1>1, RedisInvariant, PTL

=============================================================================
