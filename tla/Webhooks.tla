------------------------------ MODULE Webhooks ------------------------------
(***************************************************************************)
(* The provider's webhooks, from their delivery to their effect:           *)
(* src/webhooks/webhooks.service.ts (ingest, in an HTTP request) and       *)
(* webhook-event-handler.service.ts (handle, in a worker of the queue, or  *)
(* in the request itself when there is no queue).                          *)
(*                                                                         *)
(* Signed deliveries only: the others change nothing.  What settle and     *)
(* handleTransferEvent do is in Settlement and Payout; here an effect is   *)
(* handled, or throws.  A failed job is kept for seven days, which is      *)
(* longer than a behaviour of this model.                                  *)
(***************************************************************************)
EXTENDS Integers, FiniteSets

CONSTANTS
  Events,     \* what the provider announces: an event type and its object
  Tasks,      \* names of the requests and workers that may handle one event at once
  MaxTries,   \* attempts of a job
  MaxFaults   \* bound on the faults of one behaviour

ASSUME TriesAssumption == MaxTries \in Nat \ {0}
ASSUME WebhookFaultsAssumption == MaxFaults \in Nat
ASSUME WorkersAssumption == Tasks \cap {"none", "waiting", "failed"} = {}

VARIABLES
  status,        \* webhook_events.processing_status
  job,           \* the queue's job: "none", "waiting", "failed", or the worker that has it
  tries,         \* attempts the job has used
  stalled,       \* events whose job was given to another worker once already
  task,          \* the running requests and workers
  sent,          \* at the provider: events that happened
  acked,         \* at the provider: events it was told are received
  handled,       \* events whose effect was handled, or that were reported for manual review
  faults,        \* faults so far
  odd,           \* events whose charge fails settlement's integrity checks, whenever it is settled
  queueEnabled,  \* redis.enabled, as the processes were started
  stalledJobs    \* whether a job may be given to a second worker while the first still runs

setting == <<odd, queueEnabled, stalledJobs>>
queue == <<job, tries, stalled>>
provider == <<sent, acked, setting>>
vars == <<status, queue, task, provider, handled, faults>>

Statuses == {"absent", "PENDING", "PROCESSING", "COMPLETED", "FAILED"}

Labels == {"idle", "store", "duplicate", "enqueue", "read", "mark", "apply", "complete",
           "park", "fail"}

TaskStates == [pc : Labels, kind : {"request", "worker"}]

IdleTask == [pc |-> "idle", kind |-> "request"]

Init ==
  /\ status = [e \in Events |-> "absent"]
  /\ job = [e \in Events |-> "none"]
  /\ tries = [e \in Events |-> 0]
  /\ stalled = {}
  /\ task = [e \in Events |-> [t \in Tasks |-> IdleTask]]
  /\ sent = {}
  /\ acked = {}
  /\ odd \in SUBSET Events
  /\ queueEnabled \in BOOLEAN
  /\ stalledJobs \in BOOLEAN
  /\ handled = {}
  /\ faults = 0

At(e, t, label) == task[e][t].pc = label
Goto(e, t, label) == task' = [task EXCEPT ![e][t] = [@ EXCEPT !.pc = label]]
Leave(e, t) == task' = [task EXCEPT ![e][t] = IdleTask]
Start(e, t, label, kind) == task' = [task EXCEPT ![e][t] = [pc |-> label, kind |-> kind]]

Fault == faults < MaxFaults /\ faults' = faults + 1

-----------------------------------------------------------------------------
(* The job queue *)

\* The job is done; a worker that lost its job to another one has no say in it.
EndJob(e, t) == job' = [job EXCEPT ![e] = IF @ = t THEN "none" ELSE @]

\* The job is tried again, until it has used its attempts.
RetryJob(e, t) ==
  IF job[e] # t THEN UNCHANGED <<job, tries>>
  ELSE /\ tries' = [tries EXCEPT ![e] = @ + 1]
       /\ job' = [job EXCEPT ![e] = IF tries[e] + 1 < MaxTries THEN "waiting" ELSE "failed"]

\* jobId dedupes: a job that is there, finished unsuccessfully or not, is not added again.
AddJob(e) ==
  IF job[e] # "none" THEN UNCHANGED queue
  ELSE /\ job' = [job EXCEPT ![e] = "waiting"]
       /\ tries' = [tries EXCEPT ![e] = 0]
       /\ stalled' = stalled \ {e}

\* The handler returns: a job is finished, a request answered.
Return(e, t) ==
  /\ Leave(e, t)
  /\ IF task[e][t].kind = "worker"
     THEN EndJob(e, t) /\ UNCHANGED <<tries, stalled, provider>>
     ELSE acked' = acked \cup {e} /\ UNCHANGED <<queue, sent, setting>>

\* The handler throws: a job is retried, a request answered with a 5xx.
Throw(e, t) ==
  /\ Leave(e, t)
  /\ IF task[e][t].kind = "worker" THEN RetryJob(e, t) ELSE UNCHANGED <<job, tries>>
  /\ UNCHANGED <<stalled, provider>>

-----------------------------------------------------------------------------
(* ingest *)

\* The unique externalEventId decides who creates the row.
Store(e, t) ==
  /\ At(e, t, "store")
  /\ IF status[e] = "absent"
     THEN status' = [status EXCEPT ![e] = "PENDING"] /\ Goto(e, t, "enqueue")
     ELSE UNCHANGED status /\ Goto(e, t, "duplicate")
  /\ UNCHANGED <<queue, provider, handled, faults>>

\* Mutant: an event that is stored already needs nothing more.
ReadExistingIgnores(e, t) ==
  /\ At(e, t, "duplicate")
  /\ Return(e, t)
  /\ UNCHANGED <<status, handled, faults>>

ReadExisting(e, t) ==
  /\ At(e, t, "duplicate")
  /\ IF status[e] = "COMPLETED" THEN Return(e, t)
     ELSE Goto(e, t, "enqueue") /\ UNCHANGED <<queue, provider>>
  /\ UNCHANGED <<status, handled, faults>>

\* The worker is handed the event, or with no queue the request handles it.
Enqueue(e, t) ==
  /\ At(e, t, "enqueue")
  /\ IF queueEnabled
     THEN AddJob(e) /\ Leave(e, t) /\ acked' = acked \cup {e} /\ UNCHANGED <<sent, setting>>
     ELSE Goto(e, t, "read") /\ UNCHANGED <<queue, provider>>
  /\ UNCHANGED <<status, handled, faults>>

\* The queue does not answer in time, whether it added the job or not.
EnqueueTimesOut(e, t) ==
  /\ At(e, t, "enqueue")
  /\ queueEnabled
  /\ AddJob(e) \/ UNCHANGED queue
  /\ Leave(e, t)
  /\ Fault
  /\ UNCHANGED <<status, provider, handled>>

-----------------------------------------------------------------------------
(* handle *)

StartJob(e, t) ==
  /\ At(e, t, "idle")
  /\ job[e] = "waiting"
  /\ job' = [job EXCEPT ![e] = t]
  /\ Start(e, t, "read", "worker")
  /\ UNCHANGED <<status, tries, stalled, provider, handled, faults>>

\* Mutant: the handler does not look at the status.
ReadEventBlindly(e, t) ==
  /\ At(e, t, "read")
  /\ Goto(e, t, "mark")
  /\ UNCHANGED <<status, queue, provider, handled, faults>>

ReadEvent(e, t) ==
  /\ At(e, t, "read")
  /\ IF status[e] = "COMPLETED" THEN Return(e, t)
     ELSE Goto(e, t, "mark") /\ UNCHANGED <<queue, provider>>
  /\ UNCHANGED <<status, handled, faults>>

\* setStatus is unconditional.
SetStatus(e, s) == status' = [status EXCEPT ![e] = s]

MarkProcessing(e, t) ==
  /\ At(e, t, "mark")
  /\ SetStatus(e, "PROCESSING")
  /\ Goto(e, t, "apply")
  /\ UNCHANGED <<queue, provider, handled, faults>>

\* The effect; a charge that fails the integrity checks is parked for a human.
Apply(e, t) ==
  /\ At(e, t, "apply")
  /\ Goto(e, t, IF e \in odd THEN "park" ELSE "complete")
  /\ handled' = handled \cup {e}
  /\ UNCHANGED <<status, queue, provider, faults>>

\* It throws, after it was applied or before.
ApplyThrows(e, t) ==
  /\ At(e, t, "apply")
  /\ Goto(e, t, "fail")
  /\ \E done \in {{}, {e} \ odd} : handled' = handled \cup done
  /\ Fault
  /\ UNCHANGED <<status, queue, provider>>

Complete(e, t) ==
  /\ At(e, t, "complete")
  /\ SetStatus(e, "COMPLETED")
  /\ Return(e, t)
  /\ UNCHANGED <<handled, faults>>

Park(e, t) ==
  /\ At(e, t, "park")
  /\ SetStatus(e, "FAILED")
  /\ Return(e, t)
  /\ UNCHANGED <<handled, faults>>

\* Mutant: the error is swallowed.
FailSwallows(e, t) ==
  /\ At(e, t, "fail")
  /\ SetStatus(e, "FAILED")
  /\ Return(e, t)
  /\ UNCHANGED <<handled, faults>>

Fail(e, t) ==
  /\ At(e, t, "fail")
  /\ SetStatus(e, "FAILED")
  /\ Throw(e, t)
  /\ UNCHANGED <<handled, faults>>

-----------------------------------------------------------------------------
(* Environment: the provider, the database, crashes *)

Announce(e) ==
  /\ e \notin sent
  /\ sent' = sent \cup {e}
  /\ UNCHANGED <<status, queue, task, acked, setting, handled, faults>>

\* The provider delivers until it gets a 200, several copies at once if it likes ...
Deliver(e, t) ==
  /\ At(e, t, "idle")
  /\ e \in sent \ acked
  /\ Start(e, t, "store", "request")
  /\ UNCHANGED <<status, queue, provider, handled, faults>>

\* ... and sometimes after that.
Redeliver(e, t) ==
  /\ At(e, t, "idle")
  /\ e \in acked
  /\ Start(e, t, "store", "request")
  /\ Fault
  /\ UNCHANGED <<status, queue, provider, handled>>

\* A database statement outside the handler's try throws.
StatementThrows(e, t) ==
  /\ task[e][t].pc \in Labels \ {"idle", "enqueue", "apply"}
  /\ Throw(e, t)
  /\ Fault
  /\ UNCHANGED <<status, handled>>

\* The process dies.  A job nobody renews is given to another worker once, and has
\* failed the second time (maxStalledCount).
Crash(e, t) ==
  /\ ~At(e, t, "idle")
  /\ Leave(e, t)
  /\ IF job[e] = t
     THEN /\ job' = [job EXCEPT ![e] = IF e \in stalled THEN "failed" ELSE "waiting"]
          /\ stalled' = stalled \cup {e}
     ELSE UNCHANGED <<job, stalled>>
  /\ Fault
  /\ UNCHANGED <<status, tries, provider, handled>>

\* The lock of a running job expires, and the job is given to another worker.
StallJob(e) ==
  /\ stalledJobs
  /\ job[e] \in Tasks
  /\ e \notin stalled
  /\ job' = [job EXCEPT ![e] = "waiting"]
  /\ stalled' = stalled \cup {e}
  /\ Fault
  /\ UNCHANGED <<status, tries, task, provider, handled>>

-----------------------------------------------------------------------------
Step(e, t) ==
  \/ Store(e, t) \/ ReadExisting(e, t) \/ Enqueue(e, t)
  \/ ReadEvent(e, t) \/ MarkProcessing(e, t) \/ Apply(e, t) \/ Complete(e, t)
  \/ Park(e, t) \/ Fail(e, t)

Next ==
  \E e \in Events :
    \/ Announce(e) \/ StallJob(e)
    \/ \E t \in Tasks :
         \/ Deliver(e, t) \/ Redeliver(e, t) \/ StartJob(e, t) \/ Step(e, t)
         \/ EnqueueTimesOut(e, t) \/ ApplyThrows(e, t) \/ StatementThrows(e, t) \/ Crash(e, t)

\* The provider delivers what it was not told is received, workers take waiting jobs,
\* and requests and workers go on.
Fairness ==
  \A e \in Events :
    /\ WF_vars(\E t \in Tasks : Deliver(e, t))
    /\ WF_vars(\E t \in Tasks : StartJob(e, t))
    /\ \A t \in Tasks : WF_vars(Step(e, t))

Spec == Init /\ [][Next]_vars

FairSpec == Spec /\ Fairness

-----------------------------------------------------------------------------
(* Properties *)

\* Every variable has its type.
TypeOK ==
  /\ status \in [Events -> Statuses]
  /\ job \in [Events -> {"none", "waiting", "failed"} \cup Tasks]
  /\ tries \in [Events -> 0 .. MaxTries]
  /\ stalled \subseteq Events
  /\ task \in [Events -> [Tasks -> TaskStates]]
  /\ sent \subseteq Events /\ acked \subseteq Events /\ odd \subseteq Events
  /\ handled \subseteq Events
  /\ queueEnabled \in BOOLEAN /\ stalledJobs \in BOOLEAN
  /\ faults \in 0 .. MaxFaults

\* The provider is told that an event is received only when it is handled, or when the
\* queue has a job for it: whichever of ingest's statements fails, and however many
\* copies arrive at once, no 200 loses an event.
AckedIsKept == \A e \in acked : e \in handled \/ (queueEnabled /\ job[e] # "none")

\* COMPLETED is written only for an event whose effect was applied.
CompletedIsApplied == \A e \in Events : status[e] = "COMPLETED" => e \in handled \ odd

\* With a queue that runs a job once at a time, a completed event is not processed again,
\* although setStatus is unconditional and a duplicate may add its job again just as the
\* first one completes it.
CompletedIsFinal ==
  [][queueEnabled /\ ~stalledJobs =>
       \A e \in Events : status[e] = "COMPLETED" => status'[e] = "COMPLETED"]_vars

\* Every event is handled in the end, or kept as a failed job when its attempts are used up.
EventsAreHandled ==
  \A e \in Events : e \in sent ~> e \in handled \/ job[e] = "failed"

=============================================================================
