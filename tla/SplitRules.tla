----------------------------- MODULE SplitRules -----------------------------
(***************************************************************************)
(* The split rules of one venue: src/split-rules/split-rules.service.ts.   *)
(*                                                                         *)
(* propose, override and respond run in transactions at PostgreSQL's       *)
(* default isolation, READ COMMITTED: a statement sees what is committed   *)
(* when it starts, and its own transaction's writes; a row another         *)
(* transaction has written is locked until that one ends, and updateMany   *)
(* then checks its condition again.  No constraint of the database limits  *)
(* how many rules of a venue are ACTIVE or open.                           *)
(*                                                                         *)
(* Left out: the shares (SplitTerms has them; here a proposal or override  *)
(* is a new rule), and the audit rows.  The consent token is stored        *)
(* exactly while the rule is open.  The supply of rules bounds a behaviour.*)
(***************************************************************************)
EXTENDS Integers

CONSTANTS
  Rules,  \* split_rules rows
  Tasks   \* concurrent requests

ASSUME RulesAssumption == Rules # {}

VARIABLES
  status,  \* split_rules.status, as committed
  task     \* the transactions

vars == <<status, task>>

Statuses == {"absent", "OPEN", "ACTIVE", "REJECTED", "WITHDRAWN", "SUPERSEDED"}

\* writes: the transaction's own updates; todo: the rows its current statement is to
\* update; rule: the proposal it answers.
TaskStates ==
  [pc : {"idle", "withdraw", "claim", "find", "close", "insert", "commit"},
   kind : {"propose", "override", "ACCEPT", "REJECT"},
   rule : Rules,
   todo : SUBSET Rules,
   writes : [Rules -> Statuses \cup {"same"}]]

NoWrites == [r \in Rules |-> "same"]

IdleTask ==
  [pc |-> "idle", kind |-> "propose", rule |-> CHOOSE r \in Rules : TRUE,
   todo |-> {}, writes |-> NoWrites]

Init ==
  /\ status = [r \in Rules |-> "absent"]
  /\ task = [t \in Tasks |-> IdleTask]

At(t, label) == task[t].pc = label
Leave(t) == task' = [task EXCEPT ![t] = IdleTask]

\* Transaction t goes on at a label, with rows to update and what it has written.
Goto(t, label, rows, updates) ==
  task' = [task EXCEPT ![t] = [task[t] EXCEPT !.pc = label, !.todo = rows, !.writes = updates]]

\* What transaction t reads of rule r.
Seen(t, r) == IF task[t].writes[r] = "same" THEN status[r] ELSE task[t].writes[r]

Unlocked(t, r) == \A u \in Tasks \ {t} : task[u].writes[r] = "same"

Write(t, rows, s) == [r \in Rules |-> IF r \in rows THEN s ELSE task[t].writes[r]]

-----------------------------------------------------------------------------
(* propose *)

StartPropose(t) ==
  /\ At(t, "idle")
  /\ task' = [task EXCEPT ![t] = [IdleTask EXCEPT !.pc = "withdraw",
                !.todo = {r \in Rules : status[r] = "OPEN"}]]
  /\ UNCHANGED status

\* updateMany of the open proposals it found, those that are still open.
Withdraw(t) ==
  /\ At(t, "withdraw")
  /\ \A r \in task[t].todo : Unlocked(t, r)
  /\ Goto(t, "insert", {}, Write(t, {r \in task[t].todo : status[r] = "OPEN"}, "WITHDRAWN"))
  /\ UNCHANGED status

\* A new row; only an override is in force at once.
InsertRule(t) ==
  /\ At(t, "insert")
  /\ \E r \in Rules :
       /\ Seen(t, r) = "absent"
       /\ Unlocked(t, r)
       /\ Goto(t, "commit", {},
               Write(t, {r}, IF task[t].kind = "override" THEN "ACTIVE" ELSE "OPEN"))
  /\ UNCHANGED status

-----------------------------------------------------------------------------
(* override and respond *)

StartOverride(t) ==
  /\ At(t, "idle")
  /\ task' = [task EXCEPT ![t] = [IdleTask EXCEPT !.pc = "find", !.kind = "override"]]
  /\ UNCHANGED status

\* findByConsentToken, outside the transaction.
StartRespond(t, r, decision) ==
  /\ At(t, "idle")
  /\ status[r] = "OPEN"
  /\ task' = [task EXCEPT ![t] = [IdleTask EXCEPT !.pc = "claim", !.kind = decision, !.rule = r]]
  /\ UNCHANGED status

\* Mutant: the proposal is not required to be still open.
ClaimBlindly(t) ==
  /\ At(t, "claim")
  /\ Unlocked(t, task[t].rule)
  /\ IF task[t].kind = "ACCEPT"
     THEN Goto(t, "find", {}, Write(t, {task[t].rule}, "ACTIVE"))
     ELSE Goto(t, "commit", {}, Write(t, {task[t].rule}, "REJECTED"))
  /\ UNCHANGED status

\* The answer takes effect on a proposal that is still open, or throws.
Claim(t) ==
  /\ At(t, "claim")
  /\ Unlocked(t, task[t].rule)
  /\ IF status[task[t].rule] # "OPEN" THEN Leave(t)
     ELSE IF task[t].kind = "ACCEPT"
     THEN Goto(t, "find", {}, Write(t, {task[t].rule}, "ACTIVE"))
     ELSE Goto(t, "commit", {}, Write(t, {task[t].rule}, "REJECTED"))
  /\ UNCHANGED status

\* Mutant: one rule is looked for, as if there could be no two.
OutgoingFirst(t) ==
  LET others == {r \in Rules : Seen(t, r) = "ACTIVE"}
                  \ (IF task[t].kind = "ACCEPT" THEN {task[t].rule} ELSE {}) IN
    {r \in others : r = CHOOSE o \in others : TRUE}

\* Mutant: the rule that was just accepted is closed as well.
OutgoingAll(t) == {r \in Rules : Seen(t, r) = "ACTIVE"}

\* closeOutActive: the rules it is to close, all but the one just accepted.
Outgoing(t) ==
  {r \in Rules : Seen(t, r) = "ACTIVE"}
    \ (IF task[t].kind = "ACCEPT" THEN {task[t].rule} ELSE {})

FindOutgoing(t) ==
  /\ At(t, "find")
  /\ Goto(t, "close", Outgoing(t), task[t].writes)
  /\ UNCHANGED status

\* Each of them is updated by its id, whatever became of it.
CloseOut(t) ==
  /\ At(t, "close")
  /\ \E r \in task[t].todo :
       /\ Unlocked(t, r)
       /\ Goto(t, "close", task[t].todo \ {r}, Write(t, {r}, "SUPERSEDED"))
  /\ UNCHANGED status

ClosedOut(t) ==
  /\ At(t, "close")
  /\ task[t].todo = {}
  /\ Goto(t, IF task[t].kind = "override" THEN "insert" ELSE "commit", {}, task[t].writes)
  /\ UNCHANGED status

-----------------------------------------------------------------------------
(* The database *)

Commit(t) ==
  /\ At(t, "commit")
  /\ status' = [r \in Rules |-> Seen(t, r)]
  /\ Leave(t)

\* A statement throws, a deadlock is broken, or the process dies.
Rollback(t) ==
  /\ ~At(t, "idle")
  /\ Leave(t)
  /\ UNCHANGED status

-----------------------------------------------------------------------------
Next ==
  \E t \in Tasks :
    \/ StartPropose(t) \/ Withdraw(t) \/ InsertRule(t)
    \/ StartOverride(t) \/ Claim(t) \/ FindOutgoing(t) \/ CloseOut(t) \/ ClosedOut(t)
    \/ \E r \in Rules : \E decision \in {"ACCEPT", "REJECT"} : StartRespond(t, r, decision)
    \/ Commit(t) \/ Rollback(t)

Spec == Init /\ [][Next]_vars

-----------------------------------------------------------------------------
(* Properties *)

Active == {r \in Rules : status[r] = "ACTIVE"}

\* Every variable has its type, and what closeOutActive is closing was in force.
TypeOK ==
  /\ status \in [Rules -> Statuses]
  /\ task \in [Tasks -> TaskStates]
  /\ \A t \in Tasks : At(t, "close") =>
       \A r \in task[t].todo : status[r] \in {"ACTIVE", "SUPERSEDED"}

\* What may become of a rule.
Successors(s) ==
  CASE s = "absent" -> {"OPEN", "ACTIVE"}
    [] s = "OPEN" -> {"ACTIVE", "REJECTED", "WITHDRAWN"}
    [] s = "ACTIVE" -> {"SUPERSEDED"}
    [] OTHER -> {}

\* "Two taps on the link cannot both activate": a proposal is answered once or
\* withdrawn, and a rule that ended never comes back, however answers, proposals and
\* overrides interleave.
DecidedOnce ==
  [][\A r \in Rules : status'[r] # status[r] => status'[r] \in Successors(status[r])]_vars

\* "Never a moment with ... none": a venue that has an active rule keeps having one.
NeverNone == [][Active # {} => Active' # {}]_vars
=============================================================================
