-------------------------- MODULE SplitRuleProofs --------------------------
(* What TLAPS proves of SplitRules and SplitTerms, for any number of rules and *)
(* concurrent requests at READ COMMITTED, and any fees.                        *)
EXTENDS SplitTerms, FiniteSetTheorems, TLAPS

-----------------------------------------------------------------------------
(* The inductive invariant *)

\* A transaction's write of a rule whose committed status is s.
Legal(s, w) == w = "same" \/ (w # "absent" /\ (w = s \/ w \in Successors(s)))

\* What a transaction in state k knows: its writes are legal, what it closes was in
\* force and is not the rule it accepts, and it closes nothing without an active rule
\* to take its place.
TransactionOK(k) ==
  /\ \A r \in Rules : Legal(status[r], k.writes[r])
  /\ k.pc \in {"withdraw", "claim"} => \A r \in Rules : k.writes[r] = "same"
  /\ k.pc = "withdraw" => k.kind = "propose"
  /\ k.pc = "claim" => k.kind \in {"ACCEPT", "REJECT"}
  /\ k.pc = "insert" => k.kind \in {"propose", "override"}
  /\ k.pc \in {"find", "close"} => k.kind \in {"override", "ACCEPT"}
  /\ k.pc = "find" => \A r \in Rules : k.writes[r] # "same" => k.kind = "ACCEPT" /\ r = k.rule
  /\ k.pc = "close" =>
       \A r \in k.todo : status[r] \in {"ACTIVE", "SUPERSEDED"} /\ ~(k.kind = "ACCEPT" /\ r = k.rule)
  /\ k.pc \in {"find", "close", "commit"} /\ k.kind = "ACCEPT" => k.writes[k.rule] = "ACTIVE"
  /\ k.pc = "commit" /\ k.kind = "override" => \E r \in Rules : k.writes[r] = "ACTIVE"
  /\ k.kind \in {"propose", "REJECT"} =>
       \A r \in Rules : k.writes[r] \in {"same", "OPEN", "WITHDRAWN", "REJECTED"}

\* A row is written by one transaction.
Exclusive ==
  \A t, u \in Tasks : \A r \in Rules :
    task[t].writes[r] # "same" /\ task[u].writes[r] # "same" => t = u

IInv ==
  /\ status \in [Rules -> Statuses]
  /\ task \in [Tasks -> TaskStates]
  /\ Exclusive
  /\ \A t \in Tasks : TransactionOK(task[t])

\* What becomes of a transaction that a write of its own changes.
LEMMA TransactionMoves ==
  ASSUME IInv, NEW t \in Tasks, NEW k \in TaskStates, task' = [task EXCEPT ![t] = k],
         UNCHANGED status, TransactionOK(k),
         \A r \in Rules : k.writes[r] # "same" => Unlocked(t, r)
  PROVE  IInv'
<1>1. task' \in [Tasks -> TaskStates] /\ \A u \in Tasks : task'[u] = IF u = t THEN k ELSE task[u]
  BY DEF IInv
<1>2. Exclusive'
  BY <1>1 DEF IInv, Exclusive, Unlocked
<1>3. ASSUME NEW u \in Tasks PROVE TransactionOK(task[u])'
  <2>1. TransactionOK(task'[u])
    BY <1>1 DEF IInv
  <2>2. QED
    BY <2>1 DEF TransactionOK
<1>4. QED
  BY <1>1, <1>2, <1>3 DEF IInv

\* The writes a transaction has are its own.
LEMMA OwnWrites ==
  ASSUME IInv, NEW t \in Tasks, NEW r \in Rules, task[t].writes[r] # "same"
  PROVE  Unlocked(t, r)
BY DEF IInv, Exclusive, Unlocked

\* There is a rule for the idle task to name.
LEMMA IdleTaskType ==
  /\ IdleTask \in TaskStates /\ IdleTask.pc = "idle" /\ IdleTask.kind = "propose"
  /\ IdleTask.todo = {} /\ \A r \in Rules : IdleTask.writes[r] = "same"
<1>1. (CHOOSE r \in Rules : TRUE) \in Rules
  BY RulesAssumption
<1>2. NoWrites \in [Rules -> Statuses \cup {"same"}] /\ \A r \in Rules : NoWrites[r] = "same"
  BY DEF NoWrites
<1>3. QED
  BY <1>1, <1>2 DEF IdleTask, TaskStates

\* Nothing is asked of a transaction that has not begun.
LEMMA FreshTransaction ==
  ASSUME NEW k, \A r \in Rules : k.writes[r] = "same",
         k.pc \notin {"close", "commit", "insert"},
         k.pc = "withdraw" => k.kind = "propose",
         k.pc = "claim" => k.kind \in {"ACCEPT", "REJECT"},
         k.pc = "find" => k.kind = "override"
  PROVE  TransactionOK(k)
BY DEF TransactionOK, Legal

\* A write of one status to some rows.
LEMMA Writes ==
  ASSUME IInv, NEW t \in Tasks, NEW rows \in SUBSET Rules, NEW s \in Statuses
  PROVE  /\ Write(t, rows, s) \in [Rules -> Statuses \cup {"same"}]
         /\ \A r \in Rules : Write(t, rows, s)[r] = IF r \in rows THEN s ELSE task[t].writes[r]
<1>1. task[t].writes \in [Rules -> Statuses \cup {"same"}]
  BY DEF IInv, TaskStates
<1>2. QED
  BY <1>1 DEF Write

\* What is known of a transaction's record.
LEMMA Recorded ==
  ASSUME IInv, NEW t \in Tasks
  PROVE  /\ task[t] \in TaskStates /\ TransactionOK(task[t])
         /\ task[t].rule \in Rules /\ task[t].todo \in SUBSET Rules
         /\ task[t].writes \in [Rules -> Statuses \cup {"same"}]
         /\ DOMAIN task = Tasks
BY DEF IInv, TaskStates

\* What Goto does to a transaction.
LEMMA Goes ==
  ASSUME IInv, NEW t \in Tasks,
         NEW label \in {"withdraw", "claim", "find", "close", "insert", "commit"},
         NEW rows \in SUBSET Rules, NEW w \in [Rules -> Statuses \cup {"same"}],
         Goto(t, label, rows, w)
  PROVE  \E k \in TaskStates :
           /\ task' = [task EXCEPT ![t] = k]
           /\ k.pc = label /\ k.todo = rows /\ k.writes = w
           /\ k.kind = task[t].kind /\ k.rule = task[t].rule
<1> DEFINE S == Statuses \cup {"same"}
           K == [pc : {"idle", "withdraw", "claim", "find", "close", "insert", "commit"},
                 kind : {"propose", "override", "ACCEPT", "REJECT"},
                 rule : Rules, todo : SUBSET Rules, writes : [Rules -> S]]
<1> HIDE DEF S
<1>1. PICK j : j = task[t]
  OBVIOUS
<1>2. j \in K /\ w \in [Rules -> S]
  BY <1>1, Recorded DEF TaskStates, S
<1>3. PICK k : k = [j EXCEPT !.pc = label, !.todo = rows, !.writes = w]
  OBVIOUS
<1>4. /\ k \in K /\ k.pc = label /\ k.todo = rows /\ k.writes = w
      /\ k.kind = j.kind /\ k.rule = j.rule
  BY <1>2, <1>3
<1>5. task' = [task EXCEPT ![t] = k]
  BY <1>1, <1>3 DEF Goto
<1>6. QED
  BY <1>1, <1>4, <1>5 DEF TaskStates, S

-----------------------------------------------------------------------------
(* Every step keeps the invariant *)

\* A transaction begins, or ends without effect.
LEMMA FreshKeeps ==
  ASSUME IInv, NEW t \in Tasks,
         \/ StartPropose(t) \/ StartOverride(t) \/ Rollback(t)
         \/ \E r \in Rules : \E decision \in {"ACCEPT", "REJECT"} : StartRespond(t, r, decision)
  PROVE  IInv'
<1>1. PICK k : /\ task' = [task EXCEPT ![t] = k] /\ UNCHANGED status
               /\ \/ k = IdleTask
                  \/ k = [IdleTask EXCEPT !.pc = "withdraw", !.todo = {r \in Rules : status[r] = "OPEN"}]
                  \/ k = [IdleTask EXCEPT !.pc = "find", !.kind = "override"]
                  \/ \E r \in Rules : \E decision \in {"ACCEPT", "REJECT"} :
                       k = [IdleTask EXCEPT !.pc = "claim", !.kind = decision, !.rule = r]
  BY DEF StartPropose, StartOverride, StartRespond, Rollback, Leave
<1>2. /\ k \in TaskStates
      /\ \A r \in Rules : k.writes[r] = "same"
      /\ k.pc \in {"idle", "withdraw", "claim", "find"}
      /\ k.pc = "withdraw" => k.kind = "propose"
      /\ k.pc = "claim" => k.kind \in {"ACCEPT", "REJECT"}
      /\ k.pc = "find" => k.kind = "override"
  <2>1. CASE k = IdleTask
    BY <2>1, IdleTaskType
  <2>2. CASE k = [IdleTask EXCEPT !.pc = "withdraw", !.todo = {r \in Rules : status[r] = "OPEN"}]
    BY <2>2, IdleTaskType DEF TaskStates
  <2>3. CASE k = [IdleTask EXCEPT !.pc = "find", !.kind = "override"]
    BY <2>3, IdleTaskType DEF TaskStates
  <2>4. CASE \E r \in Rules : \E decision \in {"ACCEPT", "REJECT"} :
               k = [IdleTask EXCEPT !.pc = "claim", !.kind = decision, !.rule = r]
    <3>1. PICK r \in Rules, decision \in {"ACCEPT", "REJECT"} :
            k = [IdleTask EXCEPT !.pc = "claim", !.kind = decision, !.rule = r]
      BY <2>4
    <3>2. QED
      BY <3>1, IdleTaskType DEF TaskStates
  <2>5. QED
    BY <1>1, <2>1, <2>2, <2>3, <2>4
<1>3. TransactionOK(k)
  BY <1>2, FreshTransaction
<1>4. QED
  BY <1>1, <1>2, <1>3, TransactionMoves

\* The open proposals are withdrawn.
LEMMA WithdrawKeeps ==
  ASSUME IInv, NEW t \in Tasks, Withdraw(t)
  PROVE  IInv'
<1>1. PICK rows \in SUBSET Rules :
        /\ \A r \in rows : status[r] = "OPEN" /\ Unlocked(t, r)
        /\ Goto(t, "insert", {}, Write(t, rows, "WITHDRAWN"))
        /\ UNCHANGED status
  <2> DEFINE rows == {r \in task[t].todo : status[r] = "OPEN"}
  <2>1. /\ rows \in SUBSET Rules /\ \A r \in rows : status[r] = "OPEN" /\ Unlocked(t, r)
        /\ Goto(t, "insert", {}, Write(t, rows, "WITHDRAWN"))
        /\ UNCHANGED status
    BY Recorded DEF Withdraw
  <2> HIDE DEF rows
  <2>2. QED
    BY <2>1
<1>2. task[t].kind = "propose" /\ \A r \in Rules : task[t].writes[r] = "same"
  BY Recorded DEF Withdraw, At, TransactionOK
<1>3. PICK w : /\ w = Write(t, rows, "WITHDRAWN") /\ w \in [Rules -> Statuses \cup {"same"}]
               /\ \A r \in Rules : w[r] = IF r \in rows THEN "WITHDRAWN" ELSE "same"
  BY <1>2, Writes DEF Statuses
<1>4. PICK k \in TaskStates :
        task' = [task EXCEPT ![t] = k] /\ k.pc = "insert" /\ k.writes = w /\ k.kind = "propose"
  BY <1>1, <1>2, <1>3, Goes
<1>5. TransactionOK(k)
  BY <1>1, <1>3, <1>4 DEF TransactionOK, Legal, Successors
<1>6. QED
  BY <1>1, <1>3, <1>4, <1>5, TransactionMoves

\* A rule is created.
LEMMA InsertKeeps ==
  ASSUME IInv, NEW t \in Tasks, InsertRule(t)
  PROVE  IInv'
<1>1. PICK new \in Rules, s \in {"ACTIVE", "OPEN"} :
        /\ Seen(t, new) = "absent" /\ Unlocked(t, new)
        /\ s = IF task[t].kind = "override" THEN "ACTIVE" ELSE "OPEN"
        /\ Goto(t, "commit", {}, Write(t, {new}, s))
        /\ UNCHANGED status
  BY DEF InsertRule
<1>2. status[new] = "absent" /\ task[t].kind \in {"propose", "override"}
  BY <1>1, Recorded DEF Seen, TransactionOK, Legal, InsertRule, At
<1>3. PICK w : /\ w = Write(t, {new}, s) /\ w \in [Rules -> Statuses \cup {"same"}]
               /\ \A r \in Rules : w[r] = IF r = new THEN s ELSE task[t].writes[r]
  BY Writes DEF Statuses
<1>4. PICK k \in TaskStates :
        task' = [task EXCEPT ![t] = k] /\ k.pc = "commit" /\ k.writes = w /\ k.kind = task[t].kind
  BY <1>1, <1>3, Goes
<1>5. TransactionOK(k)
  <2>1. \A r \in Rules : Legal(status[r], k.writes[r])
    <3>1. \A r \in Rules : Legal(status[r], task[t].writes[r])
      BY Recorded DEF TransactionOK
    <3>2. Legal(status[new], s)
      BY <1>2 DEF Legal, Successors
    <3>3. QED
      BY <1>3, <1>4, <3>1, <3>2
  <2>2. k.kind = "override" => k.writes[new] = "ACTIVE"
    BY <1>1, <1>3, <1>4
  <2>3. k.kind = "propose" => \A r \in Rules : k.writes[r] \in {"same", "OPEN", "WITHDRAWN", "REJECTED"}
    <3>1. ASSUME k.kind = "propose", NEW r \in Rules
          PROVE  k.writes[r] \in {"same", "OPEN", "WITHDRAWN", "REJECTED"}
      <4>1. s = "OPEN"
        BY <1>1, <1>4, <3>1
      <4>2. task[t].writes[r] \in {"same", "OPEN", "WITHDRAWN", "REJECTED"}
        <5>1. TransactionOK(task[t]) /\ task[t].kind = "propose"
          BY <1>4, <3>1, Recorded
        <5>2. QED
          BY <5>1 DEF TransactionOK
      <4>3. w[r] \in {s, task[t].writes[r]}
        BY <1>3
      <4>4. k.writes = w
        BY <1>4
      <4>5. QED
        BY <4>1, <4>2, <4>3, <4>4
    <3>2. QED
      BY <3>1
  <2>4. QED
    BY <1>2, <1>4, <2>1, <2>2, <2>3 DEF TransactionOK
<1>6. QED
  BY <1>1, <1>3, <1>4, <1>5, OwnWrites, TransactionMoves

\* A proposal is answered.
LEMMA ClaimKeeps ==
  ASSUME IInv, NEW t \in Tasks, Claim(t)
  PROVE  IInv'
<1>1. CASE status[task[t].rule] # "OPEN"
  <2>1. task' = [task EXCEPT ![t] = IdleTask] /\ UNCHANGED status
    BY <1>1 DEF Claim, Leave
  <2>2. TransactionOK(IdleTask)
    BY IdleTaskType, FreshTransaction
  <2>3. QED
    BY <2>1, <2>2, IdleTaskType, TransactionMoves
<1>2. CASE status[task[t].rule] = "OPEN"
  <2>1. PICK rule \in Rules : rule = task[t].rule
    BY Recorded
  <2>2. /\ task[t].kind \in {"ACCEPT", "REJECT"} /\ Unlocked(t, rule) /\ status[rule] = "OPEN"
        /\ \A r \in Rules : task[t].writes[r] = "same"
    BY <1>2, <2>1, Recorded DEF Claim, At, TransactionOK
  <2>3. PICK pc \in {"find", "commit"}, s \in {"ACTIVE", "REJECTED"} :
          /\ Goto(t, pc, {}, Write(t, {rule}, s))
          /\ UNCHANGED status
          /\ task[t].kind = "ACCEPT" => pc = "find" /\ s = "ACTIVE"
          /\ task[t].kind = "REJECT" => pc = "commit" /\ s = "REJECTED"
    BY <1>2, <2>1, <2>2 DEF Claim
  <2>4. PICK w : /\ w = Write(t, {rule}, s) /\ w \in [Rules -> Statuses \cup {"same"}]
                 /\ \A r \in Rules : w[r] = IF r = rule THEN s ELSE "same"
    BY <2>2, Writes DEF Statuses
  <2>5. PICK k \in TaskStates :
          /\ task' = [task EXCEPT ![t] = k] /\ k.pc = pc /\ k.writes = w
          /\ k.kind = task[t].kind /\ k.rule = rule
    BY <2>1, <2>3, <2>4, Goes
  <2>6. TransactionOK(k)
    <3>1. \A r \in Rules : Legal(status[r], k.writes[r])
      BY <2>2, <2>4, <2>5 DEF Legal, Successors
    <3>2. CASE k.kind = "ACCEPT"
      BY <2>3, <2>4, <2>5, <3>1, <3>2 DEF TransactionOK
    <3>3. CASE k.kind = "REJECT"
      BY <2>3, <2>4, <2>5, <3>1, <3>3 DEF TransactionOK
    <3>4. QED
      BY <2>2, <2>5, <3>2, <3>3
  <2>7. QED
    BY <2>2, <2>3, <2>4, <2>5, <2>6, TransactionMoves
<1>3. QED
  BY <1>1, <1>2

\* closeOutActive reads what it is to close.
LEMMA FindKeeps ==
  ASSUME IInv, NEW t \in Tasks, FindOutgoing(t)
  PROVE  IInv'
<1>1. PICK rows \in SUBSET Rules :
        /\ Goto(t, "close", rows, task[t].writes) /\ UNCHANGED status
        /\ \A r \in rows : status[r] = "ACTIVE" /\ ~(task[t].kind = "ACCEPT" /\ r = task[t].rule)
  <2>1. \A r \in Rules : task[t].writes[r] # "same" => task[t].kind = "ACCEPT" /\ r = task[t].rule
    BY Recorded DEF FindOutgoing, At, TransactionOK
  <2>2. /\ Outgoing(t) \in SUBSET Rules
        /\ \A r \in Outgoing(t) : status[r] = "ACTIVE" /\ ~(task[t].kind = "ACCEPT" /\ r = task[t].rule)
    BY <2>1 DEF Outgoing, Seen
  <2>3. QED
    BY <2>2 DEF FindOutgoing
<1>2. PICK k \in TaskStates :
        /\ task' = [task EXCEPT ![t] = k] /\ k.pc = "close" /\ k.todo = rows
        /\ k.writes = task[t].writes /\ k.kind = task[t].kind /\ k.rule = task[t].rule
  BY <1>1, Recorded, Goes
<1>3. TransactionOK(k)
  BY <1>1, <1>2, Recorded DEF TransactionOK, FindOutgoing, At
<1>4. QED
  BY <1>1, <1>2, <1>3, OwnWrites, TransactionMoves

\* It closes one.
LEMMA CloseKeeps ==
  ASSUME IInv, NEW t \in Tasks, CloseOut(t)
  PROVE  IInv'
<1>1. PICK old \in Rules, rows \in SUBSET Rules :
        /\ old \in task[t].todo /\ rows \subseteq task[t].todo
        /\ Unlocked(t, old) /\ UNCHANGED status
        /\ Goto(t, "close", rows, Write(t, {old}, "SUPERSEDED"))
  <2>1. PICK old \in task[t].todo :
          /\ Unlocked(t, old) /\ UNCHANGED status
          /\ Goto(t, "close", task[t].todo \ {old}, Write(t, {old}, "SUPERSEDED"))
    BY DEF CloseOut
  <2>2. old \in Rules /\ task[t].todo \ {old} \in SUBSET Rules
    BY Recorded
  <2>3. QED
    BY <2>1, <2>2
<1>2. /\ task[t].pc = "close" /\ task[t].kind \in {"override", "ACCEPT"}
      /\ status[old] \in {"ACTIVE", "SUPERSEDED"} /\ ~(task[t].kind = "ACCEPT" /\ old = task[t].rule)
  BY <1>1, Recorded DEF CloseOut, At, TransactionOK
<1>3. PICK w : /\ w = Write(t, {old}, "SUPERSEDED") /\ w \in [Rules -> Statuses \cup {"same"}]
               /\ \A r \in Rules : w[r] = IF r = old THEN "SUPERSEDED" ELSE task[t].writes[r]
  BY Writes DEF Statuses
<1>4. PICK k \in TaskStates :
        /\ task' = [task EXCEPT ![t] = k] /\ k.pc = "close" /\ k.todo = rows
        /\ k.writes = w /\ k.kind = task[t].kind /\ k.rule = task[t].rule
  BY <1>1, <1>3, Goes
<1>5. TransactionOK(k)
  <2>1. ASSUME NEW r \in Rules PROVE Legal(status[r], w[r])
    <3>1. Legal(status[r], task[t].writes[r])
      BY Recorded DEF TransactionOK
    <3>2. Legal(status[old], "SUPERSEDED")
      BY <1>2 DEF Legal, Successors
    <3>3. QED
      BY <1>3, <3>1, <3>2
  <2>2. task[t].kind = "ACCEPT" => task[t].writes[task[t].rule] = "ACTIVE"
    BY <1>2, Recorded DEF TransactionOK
  <2>3. k.kind = "ACCEPT" => k.writes[k.rule] = "ACTIVE"
    BY <1>2, <1>3, <1>4, <2>2, Recorded
  <2>4. \A r \in k.todo : status[r] \in {"ACTIVE", "SUPERSEDED"} /\ ~(k.kind = "ACCEPT" /\ r = k.rule)
    BY <1>1, <1>2, <1>4, Recorded DEF TransactionOK
  <2>5. QED
    BY <1>2, <1>4, <2>1, <2>3, <2>4 DEF TransactionOK
<1>6. QED
  BY <1>1, <1>3, <1>4, <1>5, OwnWrites, TransactionMoves

\* It has closed them all.
LEMMA ClosedKeeps ==
  ASSUME IInv, NEW t \in Tasks, ClosedOut(t)
  PROVE  IInv'
<1>1. PICK pc \in {"insert", "commit"} :
        /\ pc = IF task[t].kind = "override" THEN "insert" ELSE "commit"
        /\ Goto(t, pc, {}, task[t].writes) /\ UNCHANGED status
  BY DEF ClosedOut
<1>2. PICK k \in TaskStates :
        /\ task' = [task EXCEPT ![t] = k] /\ k.pc = pc
        /\ k.writes = task[t].writes /\ k.kind = task[t].kind /\ k.rule = task[t].rule
  BY <1>1, Recorded, Goes
<1>3. TransactionOK(k)
  BY <1>1, <1>2, Recorded DEF TransactionOK, ClosedOut, At
<1>4. QED
  BY <1>1, <1>2, <1>3, OwnWrites, TransactionMoves

-----------------------------------------------------------------------------
(* A commit *)

\* What a commit makes of a rule.
LEMMA Committed ==
  ASSUME IInv, NEW t \in Tasks, Commit(t)
  PROVE  /\ status' \in [Rules -> Statuses]
         /\ \A r \in Rules :
              /\ task[t].writes[r] = "same" => status'[r] = status[r]
              /\ task[t].writes[r] # "same" => status'[r] = task[t].writes[r]
              /\ status'[r] # status[r] => status'[r] \in Successors(status[r])
         /\ task' \in [Tasks -> TaskStates]
         /\ \A u \in Tasks : task'[u] = IF u = t THEN IdleTask ELSE task[u]
<1>1. status' = [r \in Rules |-> Seen(t, r)] /\ task' = [task EXCEPT ![t] = IdleTask]
  BY DEF Commit, Leave
<1>2. ASSUME NEW r \in Rules
      PROVE  /\ status'[r] \in Statuses
             /\ task[t].writes[r] = "same" => status'[r] = status[r]
             /\ task[t].writes[r] # "same" => status'[r] = task[t].writes[r]
  BY <1>1, Recorded DEF Seen, IInv
<1>3. \A r \in Rules : Legal(status[r], task[t].writes[r])
  BY Recorded DEF TransactionOK
<1>4. \A r \in Rules : status'[r] # status[r] => status'[r] \in Successors(status[r])
  BY <1>2, <1>3 DEF Legal
<1>5. QED
  BY <1>1, <1>2, <1>4, IdleTaskType DEF IInv

\* A rule another transaction has written is committed as it was.
LEMMA CommitKeeps ==
  ASSUME IInv, NEW t \in Tasks, Commit(t)
  PROVE  IInv'
<1>1. Exclusive'
  BY Committed, IdleTaskType DEF IInv, Exclusive
<1>2. ASSUME NEW u \in Tasks PROVE TransactionOK(task[u])'
  <2>1. CASE u = t
    <3>1. PICK k : k = task'[u] /\ k = IdleTask
      BY <2>1, Committed
    <3>2. /\ \A r \in Rules : k.writes[r] = "same"
          /\ k.pc = "idle" /\ k.kind = "propose"
      BY <3>1, IdleTaskType
    <3>3. QED
      BY <3>1, <3>2 DEF TransactionOK, Legal
  <2>2. CASE u # t
    <3>1. PICK k : k = task[u] /\ k = task'[u]
      BY <2>2, Committed
    <3>2. TransactionOK(k) /\ k.todo \in SUBSET Rules
      BY <3>1, Recorded
    <3>3. \A r \in Rules : k.writes[r] # "same" => status'[r] = status[r]
      BY <2>2, <3>1, Committed DEF IInv, Exclusive
    <3>4. \A r \in Rules : status[r] \in {"ACTIVE", "SUPERSEDED"} => status'[r] \in {"ACTIVE", "SUPERSEDED"}
      BY Committed DEF Successors
    <3>5. \A r \in Rules : Legal(status'[r], k.writes[r])
      BY <3>2, <3>3 DEF TransactionOK, Legal
    <3>6. QED
      BY <3>1, <3>2, <3>4, <3>5 DEF TransactionOK
  <2>3. QED
    BY <2>1, <2>2
<1>3. QED
  BY <1>1, <1>2, Committed DEF IInv

-----------------------------------------------------------------------------
(* The theorems *)

\* A venue with the rules it starts with satisfies the invariant.
LEMMA InitInvariant == Init => IInv
<1> SUFFICES ASSUME Init PROVE IInv
  OBVIOUS
<1>1. status \in [Rules -> Statuses] /\ task \in [Tasks -> TaskStates]
  BY IdleTaskType DEF Init, Statuses
<1>2. TransactionOK(IdleTask)
  BY IdleTaskType, FreshTransaction
<1>3. QED
  BY <1>1, <1>2, IdleTaskType DEF Init, IInv, Exclusive

\* Every step of every transaction keeps the invariant.
LEMMA NextInvariant == IInv /\ [Next]_vars => IInv'
<1> SUFFICES ASSUME IInv, [Next]_vars PROVE IInv'
  OBVIOUS
<1>1. CASE UNCHANGED vars
  BY <1>1 DEF vars, IInv, Exclusive, Unlocked, TransactionOK, Legal
<1>2. CASE Next
  BY <1>2, FreshKeeps, WithdrawKeeps, InsertKeeps, ClaimKeeps, FindKeeps, CloseKeeps,
     ClosedKeeps, CommitKeeps DEF Next
<1>3. QED
  BY <1>1, <1>2

\* What each transaction knows of the rules stays true while others commit.
THEOREM Invariant == Spec => []IInv
<1>1. Init => IInv
  BY InitInvariant
<1>2. IInv /\ [Next]_vars => IInv'
  BY NextInvariant
<1>3. QED
  BY <1>1, <1>2, PTL DEF Spec

\* Type correctness, for any rules and requests: closeOutActive closes rules in force.
THEOREM TypeCorrect == Spec => []TypeOK
<1>1. IInv => TypeOK
  BY DEF IInv, TypeOK, TransactionOK, At
<1>2. QED
  BY <1>1, Invariant, PTL

\* Only a commit changes what is committed.
LEMMA OnlyCommitsChange ==
  ASSUME [Next]_vars, status' # status
  PROVE  \E t \in Tasks : Commit(t)
BY DEF Next, vars, StartPropose, Withdraw, InsertRule, StartOverride, Claim, FindOutgoing,
       CloseOut, ClosedOut, StartRespond, Rollback

\* Two taps on the consent link, or an answer and a new proposal, decide a rule once:
\* a rule moves forward only, whatever transactions interleave.
THEOREM ProposalsAreDecidedOnce == Spec => DecidedOnce
<1>1. IInv /\ [Next]_vars =>
        [\A r \in Rules : status'[r] # status[r] => status'[r] \in Successors(status[r])]_vars
  <2> SUFFICES ASSUME IInv, [Next]_vars, NEW r \in Rules, status'[r] # status[r]
               PROVE  status'[r] \in Successors(status[r])
    OBVIOUS
  <2>1. PICK t \in Tasks : Commit(t)
    BY OnlyCommitsChange
  <2>2. QED
    BY <2>1, Committed
<1>2. QED
  BY <1>1, Invariant, PTL DEF Spec, DecidedOnce

\* A venue with an active rule is never left without one: what closes it puts another
\* in force in the same transaction.
THEOREM AlwaysARule == Spec => NeverNone
<1>1. IInv /\ [Next]_vars => [Active # {} => Active' # {}]_vars
  <2> SUFFICES ASSUME IInv, [Next]_vars, status' # status, NEW old \in Rules, status[old] = "ACTIVE"
               PROVE  \E r \in Rules : status'[r] = "ACTIVE"
    BY DEF Active
  <2>1. PICK t \in Tasks : Commit(t)
    BY OnlyCommitsChange
  <2>2. task[t].pc = "commit" /\ task[t].kind \in {"propose", "override", "ACCEPT", "REJECT"}
    BY <2>1, Recorded DEF Commit, At, TaskStates
  <2>3. CASE task[t].kind = "override"
    BY <2>1, <2>2, <2>3, Recorded, Committed DEF TransactionOK
  <2>4. CASE task[t].kind = "ACCEPT"
    BY <2>1, <2>2, <2>4, Recorded, Committed DEF TransactionOK
  <2>5. CASE task[t].kind \in {"propose", "REJECT"}
    <3>1. task[t].writes[old] \in {"same", "OPEN", "WITHDRAWN", "REJECTED"}
      BY <2>5, Recorded DEF TransactionOK
    <3>2. Legal(status[old], task[t].writes[old])
      BY Recorded DEF TransactionOK
    <3>3. task[t].writes[old] = "same"
      BY <3>1, <3>2 DEF Legal, Successors
    <3>4. QED
      BY <2>1, <3>3, Committed
  <2>6. QED
    BY <2>2, <2>3, <2>4, <2>5
<1>2. QED
  BY <1>1, Invariant, PTL DEF Spec, NeverNone

-----------------------------------------------------------------------------
(* SplitTerms *)

\* The terms are beside the rules: every step of SplitTerms is one of SplitRules, or none.
LEMMA StepIsRulesStep == [NextAll]_allVars => [Next]_vars
<1>1. ASSUME NEW t \in Tasks, Transact(t) PROVE Next
  BY <1>1 DEF Transact, Next
<1>2. ASSUME NEW t \in Tasks, Propose(t) PROVE Next
  BY <1>2 DEF Propose, Next
<1>3. ASSUME NEW t \in Tasks, NEW offer \in Offers, NEW f \in Fees, Override(t, offer, f) PROVE Next
  BY <1>3 DEF Override, Next
<1>4. Step => Next \/ UNCHANGED vars
  BY <1>1, <1>2, <1>3 DEF Step
<1>5. UNCHANGED allVars => UNCHANGED vars
  BY DEF allVars
<1>6. QED
  BY <1>4, <1>5 DEF NextAll

\* What holds of the rules holds of them with their terms.
THEOREM TermsKeepTheRules == SpecAll => Spec
<1>1. InitAll => Init
  BY DEF InitAll
<1>2. QED
  BY <1>1, StepIsRulesStep, PTL DEF SpecAll, Spec

\* What a decision k has done to the rules; o says whether another has overtaken it.
DecisionOK(k, o) ==
  /\ k.kind \in {"ACCEPT", "REJECT"} =>
       \A r \in Rules : k.writes[r] # "same" => status[r] # "absent"
  /\ k.kind = "override" => \A r \in Rules : k.writes[r] \in {"same", "ACTIVE", "SUPERSEDED"}
  /\ k.kind = "override" /\ k.pc \in {"find", "close", "insert"} =>
       \A r \in Rules : k.writes[r] # "ACTIVE"
  /\ k.kind = "override" /\ k.pc = "commit" =>
       \E new \in Rules : \A r \in Rules : k.writes[r] = "ACTIVE" <=> r = new
  /\ k.kind = "ACCEPT" => \A r \in Rules : k.writes[r] = "ACTIVE" => r = k.rule
  /\ k.kind = "ACCEPT" /\ k.pc \in {"find", "close", "commit"} => status[k.rule] = "OPEN"
  /\ k.kind \in {"override", "ACCEPT"} /\ k.pc \in {"insert", "commit"} => k.todo = {}
  /\ k.kind \in {"override", "ACCEPT"} /\ k.pc \in {"close", "insert", "commit"} /\ ~o =>
       \A r \in Rules : status[r] = "ACTIVE" => r \in k.todo \/ k.writes[r] = "SUPERSEDED"

DecisionsOK == \A t \in Tasks : DecisionOK(task[t], overtaken[t])

\* A transaction that has not begun, or is no decision.
LEMMA FreshDecision ==
  ASSUME NEW k, NEW o, \A r \in Rules : k.writes[r] = "same",
         k.pc \notin {"close", "insert", "commit"}, k.pc = "find" => k.kind = "override"
  PROVE  DecisionOK(k, o)
BY DEF DecisionOK

\* A proposal decides nothing.
LEMMA NoDecision ==
  ASSUME NEW k, NEW o, k.kind = "propose"
  PROVE  DecisionOK(k, o)
BY DEF DecisionOK

\* The steps of transaction t, for what it did itself.
LEMMA OwnDecision ==
  ASSUME IInv, NEW t \in Tasks, DecisionOK(task[t], overtaken[t]), overtaken[t] \in BOOLEAN,
         task[t].kind \in {"override", "ACCEPT", "REJECT"},
         NEW o \in BOOLEAN, task[t].pc \in {"close", "insert", "commit"} /\ overtaken[t] => o,
         \/ InsertRule(t) \/ Claim(t) \/ FindOutgoing(t) \/ CloseOut(t) \/ ClosedOut(t)
         \/ Rollback(t),
         UNCHANGED status
  PROVE  DecisionOK(task'[t], o)
<1>1. /\ task[t] \in TaskStates /\ TransactionOK(task[t]) /\ IdleTask \in TaskStates
      /\ \A r \in Rules : task[t].writes[r] # "absent"
  BY Recorded, IdleTaskType DEF TransactionOK, Legal
<1>2. DecisionOK(IdleTask, o)
  BY FreshDecision, IdleTaskType
<1>3. \A k \in TaskStates : task' = [task EXCEPT ![t] = k] => task'[t] = k
  BY Recorded
<1>4. CASE InsertRule(t)
  <2>1. PICK r \in Rules :
          /\ Seen(t, r) = "absent"
          /\ Goto(t, "commit", {}, Write(t, {r}, IF task[t].kind = "override" THEN "ACTIVE" ELSE "OPEN"))
    BY <1>4 DEF InsertRule
  <2>2. task[t].kind = "override" /\ task[t].pc = "insert"
    BY <1>1, <1>4 DEF InsertRule, At, TransactionOK
  <2>3. status[r] = "absent"
    BY <1>1, <2>1 DEF Seen
  <2>4. PICK w \in [Rules -> Statuses \cup {"same"}] :
          /\ w = Write(t, {r}, "ACTIVE")
          /\ \A q \in Rules : w[q] = IF q = r THEN "ACTIVE" ELSE task[t].writes[q]
    BY Writes DEF Statuses
  <2>5. PICK k \in TaskStates :
          /\ task' = [task EXCEPT ![t] = k] /\ k.pc = "commit" /\ k.todo = {} /\ k.kind = "override"
          /\ k.writes = w
    <3>1. Goto(t, "commit", {}, w) /\ {} \in SUBSET Rules
      BY <2>1, <2>2, <2>4
    <3>2. PICK k \in TaskStates :
            /\ task' = [task EXCEPT ![t] = k] /\ k.pc = "commit" /\ k.todo = {}
            /\ k.writes = w /\ k.kind = task[t].kind
      BY <3>1, Goes
    <3>3. QED
      BY <2>2, <3>2
  <2>6. DecisionOK(k, o)
    <3>1. \A q \in Rules : task[t].writes[q] \in {"same", "SUPERSEDED"}
      BY <2>2 DEF DecisionOK
    <3>2. \A q \in Rules : k.writes[q] \in {"same", "ACTIVE", "SUPERSEDED"}
                          /\ (k.writes[q] = "ACTIVE" <=> q = r)
      BY <2>4, <2>5, <3>1
    <3>3. ~o => \A q \in Rules : status[q] = "ACTIVE" => task[t].writes[q] = "SUPERSEDED"
      BY <2>2 DEF DecisionOK
    <3>4. ~o => \A q \in Rules : status[q] = "ACTIVE" => k.writes[q] = "SUPERSEDED"
      BY <2>3, <2>4, <2>5, <3>3
    <3>5. k.pc = "commit" /\ k.kind = "override" /\ k.todo = {}
      BY <2>5
    <3>6. QED
      BY <3>2, <3>4, <3>5 DEF DecisionOK
  <2>7. QED
    BY <1>3, <2>5, <2>6
<1>5. CASE Claim(t)
  <2>1. CASE Leave(t)
    BY <1>1, <1>2, <1>3, <2>1 DEF Leave
  <2>2. CASE ~Leave(t)
    <3>1. /\ task[t].pc = "claim" /\ status[task[t].rule] = "OPEN"
          /\ \/ /\ task[t].kind = "ACCEPT"
                /\ Goto(t, "find", {}, Write(t, {task[t].rule}, "ACTIVE"))
             \/ /\ task[t].kind # "ACCEPT"
                /\ Goto(t, "commit", {}, Write(t, {task[t].rule}, "REJECTED"))
      BY <1>5, <2>2 DEF Claim, At
    <3>2. task[t].kind \in {"ACCEPT", "REJECT"} /\ \A r \in Rules : task[t].writes[r] = "same"
      BY <1>1, <3>1 DEF TransactionOK
    <3>3. PICK label \in {"find", "commit"}, s \in {"ACTIVE", "REJECTED"} :
            /\ Goto(t, label, {}, Write(t, {task[t].rule}, s))
            /\ task[t].kind = "ACCEPT" => label = "find"
            /\ task[t].kind = "REJECT" => s = "REJECTED"
      BY <3>1, <3>2
    <3>4. /\ Write(t, {task[t].rule}, s) \in [Rules -> Statuses \cup {"same"}]
          /\ \A q \in Rules :
               Write(t, {task[t].rule}, s)[q] = IF q = task[t].rule THEN s ELSE task[t].writes[q]
      BY Writes, Recorded DEF Statuses
    <3>5. PICK k \in TaskStates :
            /\ task' = [task EXCEPT ![t] = k] /\ k.pc = label /\ k.kind = task[t].kind
            /\ k.rule = task[t].rule /\ k.writes = Write(t, {task[t].rule}, s)
      BY <3>3, <3>4, Goes
    <3>6. DecisionOK(k, o)
      <4>1. /\ k.kind \in {"ACCEPT", "REJECT"}
            /\ k.kind = "ACCEPT" => k.pc = "find"
            /\ k.rule = task[t].rule /\ status[k.rule] = "OPEN"
        BY <3>1, <3>2, <3>3, <3>5
      <4>2. \A r \in Rules : k.writes[r] # "same" => r = k.rule
        BY <3>2, <3>4, <3>5
      <4>3. QED
        BY <4>1, <4>2 DEF DecisionOK
    <3>7. QED
      BY <1>3, <3>5, <3>6
  <2>3. QED
    BY <2>1, <2>2
<1>6. CASE FindOutgoing(t)
  <2>1. /\ task[t].pc = "find" /\ task[t].kind \in {"override", "ACCEPT"}
        /\ \A r \in Rules : task[t].writes[r] # "same" => task[t].kind = "ACCEPT" /\ r = task[t].rule
    BY <1>1, <1>6 DEF FindOutgoing, At, TransactionOK
  <2>2. PICK k \in TaskStates :
          /\ task' = [task EXCEPT ![t] = k] /\ k.pc = "close" /\ k.todo = Outgoing(t)
          /\ k.writes = task[t].writes /\ k.kind = task[t].kind /\ k.rule = task[t].rule
    <3>1. Outgoing(t) \in SUBSET Rules
      BY DEF Outgoing
    <3>2. QED
      BY <1>6, <3>1, Goes, Recorded DEF FindOutgoing
  <2>3. \A r \in Rules : status[r] = "ACTIVE" => r \in Outgoing(t)
    BY <2>1 DEF Outgoing, Seen, DecisionOK
  <2>4. DecisionOK(k, o)
    BY <2>1, <2>2, <2>3 DEF DecisionOK
  <2>5. QED
    BY <1>3, <2>2, <2>4
<1>7. CASE CloseOut(t)
  <2>1. PICK r \in Rules, rows \in SUBSET Rules :
          /\ r \in task[t].todo /\ \A q \in task[t].todo : q = r \/ q \in rows
          /\ Goto(t, "close", rows, Write(t, {r}, "SUPERSEDED"))
    <3>1. PICK r \in task[t].todo : Goto(t, "close", task[t].todo \ {r}, Write(t, {r}, "SUPERSEDED"))
      BY <1>7 DEF CloseOut
    <3>2. r \in Rules /\ task[t].todo \ {r} \in SUBSET Rules
      BY Recorded
    <3>3. QED
      BY <3>1, <3>2
  <2>2. /\ task[t].pc = "close" /\ task[t].kind \in {"override", "ACCEPT"}
        /\ status[r] \in {"ACTIVE", "SUPERSEDED"}
    BY <1>1, <1>7, <2>1 DEF CloseOut, At, TransactionOK
  <2>3. PICK w : /\ w = Write(t, {r}, "SUPERSEDED") /\ w \in [Rules -> Statuses \cup {"same"}]
                 /\ \A q \in Rules : w[q] = IF q = r THEN "SUPERSEDED" ELSE task[t].writes[q]
    BY Writes DEF Statuses
  <2>4. PICK k \in TaskStates :
          /\ task' = [task EXCEPT ![t] = k] /\ k.pc = "close" /\ k.todo = rows
          /\ k.writes = w /\ k.kind = task[t].kind /\ k.rule = task[t].rule
    <3>1. Goto(t, "close", rows, w)
      BY <2>1, <2>3
    <3>2. w \in [Rules -> Statuses \cup {"same"}]
      BY <2>3
    <3>3. QED
      BY <3>1, <3>2, Goes
  <2>5. DecisionOK(k, o)
    <3>1. \A q \in Rules : k.writes[q] = IF q = r THEN "SUPERSEDED" ELSE task[t].writes[q]
      BY <2>3, <2>4
    <3>2. CASE task[t].kind = "override"
      BY <2>1, <2>2, <2>4, <3>1, <3>2 DEF DecisionOK
    <3>3. CASE task[t].kind = "ACCEPT"
      BY <2>1, <2>2, <2>4, <3>1, <3>3 DEF DecisionOK
    <3>4. QED
      BY <2>2, <3>2, <3>3
  <2>6. QED
    BY <1>3, <2>4, <2>5
<1>8. CASE ClosedOut(t)
  <2>1. PICK k \in TaskStates :
          /\ task' = [task EXCEPT ![t] = k]
          /\ k.pc = (IF task[t].kind = "override" THEN "insert" ELSE "commit") /\ k.todo = {}
          /\ k.writes = task[t].writes /\ k.kind = task[t].kind /\ k.rule = task[t].rule
    BY <1>8, Goes, Recorded DEF ClosedOut
  <2>2. DecisionOK(k, o)
    BY <1>1, <1>8, <2>1 DEF DecisionOK, ClosedOut, At, TransactionOK
  <2>3. QED
    BY <1>3, <2>1, <2>2
<1>9. CASE Rollback(t)
  BY <1>1, <1>2, <1>3, <1>9 DEF Rollback, Leave
<1>10. QED
  BY <1>4, <1>5, <1>6, <1>7, <1>8, <1>9

\* A decision that another transaction leaves alone: a rule that comes into force overtakes it.
LEMMA OthersDecision ==
  ASSUME IInv, NEW u \in Tasks, DecisionOK(task[u], overtaken[u]), overtaken[u] \in BOOLEAN,
         task'[u] = task[u], Watch, [Next]_vars
  PROVE  DecisionOK(task[u], overtaken[u])'
<1>1. ASSUME NEW r \in Rules
      PROVE  /\ status[r] # "absent" => status'[r] # "absent"
             /\ status[r] = "OPEN" /\ task[u].pc # "idle" /\ task[u].writes[r] = "ACTIVE" => status'[r] = "OPEN"
             /\ status'[r] = "ACTIVE" /\ status[r] # "ACTIVE" => Started # {}
  <2>1. CASE status' = status
    BY <2>1
  <2>2. CASE status' # status
    <3>1. PICK t \in Tasks : Commit(t)
      BY <2>2, OnlyCommitsChange
    <3>2. status[r] # "absent" => status'[r] # "absent"
      BY <3>1, Committed DEF Successors
    <3>3. task[u].writes[r] # "same" /\ task[u].pc # "idle" => task[t].writes[r] = "same"
      <4>1. t # u \/ task[u].pc = "idle"
        BY <3>1, Committed, IdleTaskType
      <4>2. QED
        BY <4>1 DEF IInv, Exclusive
    <3>4. status'[r] = "ACTIVE" /\ status[r] # "ACTIVE" => r \in Started
      BY DEF Started
    <3>5. QED
      BY <3>1, <3>2, <3>3, <3>4, Committed
  <2>3. QED
    BY <2>1, <2>2
<1>2. /\ task[u].rule \in Rules
      /\ task[u].pc \in {"find", "close", "commit"} /\ task[u].kind = "ACCEPT" => task[u].writes[task[u].rule] = "ACTIVE"
  BY Recorded DEF TransactionOK
<1>3. /\ task[u].pc \in {"close", "insert", "commit"} /\ task[u].kind \in {"override", "ACCEPT"} /\ ~overtaken'[u]
           => ~overtaken[u] /\ Started = {}
  BY DEF Watch
<1>4. QED
  BY <1>1, <1>2, <1>3 DEF DecisionOK

\* A step of one transaction leaves the others' records.
LEMMA OthersStay ==
  ASSUME IInv, NEW t \in Tasks, NEW u \in Tasks, u # t,
         \/ StartPropose(t) \/ Withdraw(t) \/ InsertRule(t) \/ StartOverride(t) \/ Claim(t)
         \/ FindOutgoing(t) \/ CloseOut(t) \/ ClosedOut(t) \/ Commit(t) \/ Rollback(t)
         \/ \E r \in Rules : \E decision \in {"ACCEPT", "REJECT"} : StartRespond(t, r, decision)
  PROVE  task'[u] = task[u]
<1>1. PICK k : task' = [task EXCEPT ![t] = k]
  BY DEF StartPropose, Withdraw, InsertRule, StartOverride, Claim, FindOutgoing, CloseOut,
         ClosedOut, Commit, Rollback, StartRespond, Leave, Goto
<1>2. QED
  BY <1>1, Recorded

\* A transaction that begins, ends, or makes a proposal decides nothing.
LEMMA NothingDecided ==
  ASSUME IInv, NEW t \in Tasks,
         \/ StartPropose(t) \/ StartOverride(t) \/ Commit(t) \/ Rollback(t)
         \/ \E r \in Rules : \E decision \in {"ACCEPT", "REJECT"} : StartRespond(t, r, decision)
         \/ task[t].kind = "propose" /\ (Withdraw(t) \/ InsertRule(t))
  PROVE  DecisionOK(task[t], overtaken[t])'
<1>1. CASE task[t].kind = "propose" /\ (Withdraw(t) \/ InsertRule(t))
  <2>1. ASSUME NEW label, NEW rows, NEW w, Goto(t, label, rows, w) PROVE task'[t].kind = "propose"
    BY <1>1, <2>1, Recorded DEF Goto, TaskStates
  <2>2. task'[t].kind = "propose"
    BY <1>1, <2>1 DEF Withdraw, InsertRule
  <2>3. QED
    BY <2>2 DEF DecisionOK
<1>2. CASE ~(task[t].kind = "propose" /\ (Withdraw(t) \/ InsertRule(t)))
  <2>1. PICK k : /\ task' = [task EXCEPT ![t] = k]
                 /\ \/ k = IdleTask
                    \/ k = [IdleTask EXCEPT !.pc = "withdraw", !.todo = {r \in Rules : status[r] = "OPEN"}]
                    \/ k = [IdleTask EXCEPT !.pc = "find", !.kind = "override"]
                    \/ \E r \in Rules : \E decision \in {"ACCEPT", "REJECT"} :
                         k = [IdleTask EXCEPT !.pc = "claim", !.kind = decision, !.rule = r]
    BY <1>2 DEF StartPropose, StartOverride, StartRespond, Rollback, Commit, Leave
  <2>2. /\ \A r \in Rules : k.writes[r] = "same"
        /\ k.pc \in {"idle", "withdraw", "claim", "find"}
        /\ k.pc = "find" => k.kind = "override"
    BY <2>1, IdleTaskType DEF TaskStates
  <2>3. task'[t] = k
    BY <2>1, Recorded
  <2>4. QED
    BY <2>2, <2>3 DEF DecisionOK
<1>3. QED
  BY <1>1, <1>2

\* The steps a decision makes go on.
LEMMA GoesOn ==
  ASSUME IInv, NEW t \in Tasks, InsertRule(t) \/ FindOutgoing(t) \/ CloseOut(t) \/ ClosedOut(t)
  PROVE  task'[t].pc # "idle"
<1>1. ASSUME NEW label \in {"commit", "close", "insert"}, NEW rows, NEW w, Goto(t, label, rows, w)
      PROVE  task'[t].pc # "idle"
  BY <1>1, Recorded DEF Goto, TaskStates
<1>2. QED
  BY <1>1 DEF InsertRule, FindOutgoing, CloseOut, ClosedOut

\* The history follows every step.
LEMMA DecisionsKept ==
  ASSUME IInv, DecisionsOK, overtaken \in [Tasks -> BOOLEAN], Watch, [Next]_vars
  PROVE  DecisionsOK' /\ overtaken' \in [Tasks -> BOOLEAN]
<1>1. overtaken' \in [Tasks -> BOOLEAN]
  BY DEF Watch
<1>2. ASSUME NEW u \in Tasks PROVE DecisionOK(task[u], overtaken[u])'
  <2>1. DecisionOK(task[u], overtaken[u]) /\ overtaken[u] \in BOOLEAN
    BY DEF DecisionsOK
  <2>2. CASE task'[u] = task[u]
    BY <2>1, <2>2, OthersDecision
  <2>3. CASE task'[u] # task[u]
    <3>1. \/ StartPropose(u) \/ Withdraw(u) \/ InsertRule(u) \/ StartOverride(u) \/ Claim(u)
          \/ FindOutgoing(u) \/ CloseOut(u) \/ ClosedOut(u) \/ Commit(u) \/ Rollback(u)
          \/ \E r \in Rules : \E decision \in {"ACCEPT", "REJECT"} : StartRespond(u, r, decision)
      <4>1. PICK t \in Tasks :
               \/ StartPropose(t) \/ Withdraw(t) \/ InsertRule(t) \/ StartOverride(t) \/ Claim(t)
               \/ FindOutgoing(t) \/ CloseOut(t) \/ ClosedOut(t) \/ Commit(t) \/ Rollback(t)
               \/ \E r \in Rules : \E decision \in {"ACCEPT", "REJECT"} : StartRespond(t, r, decision)
        BY <2>3 DEF Next, vars
      <4>2. t = u
        BY <2>3, <4>1, OthersStay
      <4>3. QED
        BY <4>1, <4>2
    <3>2. CASE task[u].kind = "propose" /\ ~Commit(u)
      <4>1. /\ task[u].pc # "claim" /\ task[u].pc # "find" /\ task[u].pc # "close"
        BY <3>2, Recorded DEF TransactionOK
      <4>2. ~Claim(u) /\ ~FindOutgoing(u) /\ ~CloseOut(u) /\ ~ClosedOut(u)
        BY <4>1 DEF Claim, FindOutgoing, CloseOut, ClosedOut, At
      <4>3. QED
        BY <3>1, <3>2, <4>2, NothingDecided
    <3>3. CASE InsertRule(u) \/ Claim(u) \/ FindOutgoing(u) \/ CloseOut(u) \/ ClosedOut(u)
      <4>1. CASE task[u].kind = "propose"
        <5>1. ~Commit(u)
          BY <3>3, <4>1, Recorded DEF Commit, At, InsertRule, Claim, FindOutgoing, CloseOut, ClosedOut
        <5>2. QED
          BY <3>2, <4>1, <5>1
      <4>2. CASE task[u].kind # "propose"
        <5>1. task[u].kind \in {"override", "ACCEPT", "REJECT"} /\ UNCHANGED status
          BY <3>3, <4>2, Recorded
             DEF TaskStates, InsertRule, Claim, FindOutgoing, CloseOut, ClosedOut
        <5>2. task[u].pc \in {"close", "insert", "commit"} /\ overtaken[u] => overtaken'[u]
          <6>1. SUFFICES ASSUME task[u].pc \in {"close", "insert", "commit"}, overtaken[u]
                         PROVE  overtaken'[u]
            OBVIOUS
          <6>2. InsertRule(u) \/ FindOutgoing(u) \/ CloseOut(u) \/ ClosedOut(u)
            BY <3>3, <6>1 DEF Claim, At
          <6>3. task[u].pc # "commit" /\ task'[u].pc # "idle"
            BY <6>2, GoesOn DEF InsertRule, FindOutgoing, CloseOut, ClosedOut, At
          <6>4. task[u].kind \in {"override", "ACCEPT"}
            BY <4>2, <6>1, <6>3, Recorded DEF TransactionOK
          <6>5. QED
            BY <6>1, <6>3, <6>4 DEF Watch
        <5>3. overtaken'[u] \in BOOLEAN
          BY <1>1
        <5>4. PICK o \in BOOLEAN : o = overtaken'[u]
          BY <5>3
        <5>5. DecisionOK(task'[u], o)
          BY <2>1, <3>3, <5>1, <5>2, <5>4, OwnDecision
        <5>6. QED
          BY <5>1, <5>4, <5>5 DEF DecisionOK
      <4>3. QED
        BY <4>1, <4>2
    <3>4. CASE Withdraw(u)
      <4>1. task[u].kind = "propose"
        BY <3>4, Recorded DEF Withdraw, At, TransactionOK
      <4>2. QED
        BY <3>4, <4>1, NothingDecided
    <3>5. QED
      BY <3>1, <3>3, <3>4, NothingDecided
  <2>4. QED
    BY <2>2, <2>3
<1>3. QED
  BY <1>1, <1>2 DEF DecisionsOK

-----------------------------------------------------------------------------
(* The terms *)

\* What the terms q of a transaction k are, when the fees since the request began are fees.
TermsOK(k, q, fees) ==
  /\ k.pc # "idle" /\ k.kind \in {"propose", "override"} => q.pc = "run"
  /\ q.pc \in {"check", "run"} => q.entertainer + q.venue + q.platform = Whole
  /\ q.pc = "check" \/ (k.pc # "idle" /\ k.kind = "propose") => q.platform \in fees

TermsInv ==
  /\ IInv
  /\ DecisionsOK
  /\ settings \in SUBSET Fees
  /\ request \in [Tasks -> RequestStates]
  /\ inForce \in [Tasks -> SUBSET Fees]
  /\ overtaken \in [Tasks -> BOOLEAN]
  /\ \A t \in Tasks : TermsOK(task[t], request[t], inForce[t])

\* A request without terms: its transaction makes no rule of its own.
LEMMA NoTerms ==
  /\ NoRequest \in RequestStates /\ NoRequest.pc = "none"
  /\ \A k, fees : (k.pc # "idle" => k.kind \in {"ACCEPT", "REJECT"}) => TermsOK(k, NoRequest, fees)
BY TermsAssumption DEF NoRequest, RequestStates, TermsOK

\* What becomes of the terms when a step changes those of one request.
LEMMA TermsMove ==
  ASSUME TermsInv, IInv', [Next]_vars, Watch, settings' \in SUBSET Fees,
         NEW t \in Tasks, NEW q \in RequestStates, request' = [request EXCEPT ![t] = q],
         \A u \in Tasks : u # t => task'[u] = task[u],
         q.pc = "none" => TermsOK(task'[t], q, {}),
         q.pc # "none" => TermsOK(task'[t], q, inForce[t] \cup settings \cup settings')
  PROVE  TermsInv'
<1>1. request' \in [Tasks -> RequestStates] /\ \A u \in Tasks : request'[u] = IF u = t THEN q ELSE request[u]
  BY DEF TermsInv
<1>2. /\ inForce' \in [Tasks -> SUBSET Fees]
      /\ \A u \in Tasks : inForce'[u] = IF request'[u].pc = "none" THEN {}
                                       ELSE inForce[u] \cup settings \cup settings'
  BY DEF TermsInv, Watch
<1>3. DecisionsOK' /\ overtaken' \in [Tasks -> BOOLEAN]
  BY DecisionsKept DEF TermsInv
<1>4. ASSUME NEW u \in Tasks PROVE TermsOK(task'[u], request'[u], inForce'[u])
  <2>1. CASE u = t
    BY <1>1, <1>2, <2>1
  <2>2. CASE u # t
    <3>1. TermsOK(task[u], request[u], inForce[u]) /\ task'[u] = task[u] /\ request'[u] = request[u]
      BY <1>1, <2>2 DEF TermsInv
    <3>2. request[u].pc # "none" => inForce[u] \subseteq inForce'[u]
      BY <1>2, <3>1
    <3>3. QED
      BY <3>1, <3>2 DEF TermsOK
  <2>3. QED
    BY <2>1, <2>2
<1>5. QED
  BY <1>1, <1>2, <1>3, <1>4 DEF TermsInv

\* The platform settings change.
LEMMA SettingsKeep ==
  ASSUME TermsInv, Watch, UNCHANGED vars, Get \/ \E f \in Fees : UpdateFee(f)
  PROVE  TermsInv'
<1>1. settings' \in SUBSET Fees /\ request' = request
  BY TermsAssumption DEF Get, UpdateFee
<1>2. IInv' /\ DecisionsOK' /\ overtaken' \in [Tasks -> BOOLEAN]
  BY NextInvariant, DecisionsKept DEF TermsInv
<1>3. inForce' \in [Tasks -> SUBSET Fees]
  BY <1>1 DEF TermsInv, Watch
<1>4. ASSUME NEW u \in Tasks PROVE TermsOK(task'[u], request'[u], inForce'[u])
  <2>1. TermsOK(task[u], request[u], inForce[u]) /\ task'[u] = task[u] /\ request'[u] = request[u]
    BY <1>1 DEF TermsInv, vars
  <2>2. request[u].pc # "none" => inForce[u] \subseteq inForce'[u]
    BY <2>1 DEF Watch
  <2>3. QED
    BY <2>1, <2>2 DEF TermsOK
<1>5. QED
  BY <1>1, <1>2, <1>3, <1>4 DEF TermsInv

\* The steps of a request before its transaction.
LEMMA AskKeeps ==
  ASSUME TermsInv, Watch, UNCHANGED vars, NEW t \in Tasks,
         (\E offer \in Offers : Ask(t, offer)) \/ ReadFee(t) \/ HealFee(t) \/ Refuse(t)
  PROVE  TermsInv'
<1>1. IInv' /\ (\A u \in Tasks : task'[u] = task[u]) /\ task[t].pc = "idle"
  BY NextInvariant DEF TermsInv, vars, Ask, ReadFee, HealFee, Refuse, Asks, At
<1>2. PICK j \in RequestStates : j = request[t]
  BY DEF TermsInv
<1>3. ASSUME NEW q \in RequestStates, request' = [request EXCEPT ![t] = q], settings' \in SUBSET Fees,
             q.pc \in {"none", "fee", "heal"}
      PROVE  TermsInv'
  <2>1. \A fees : TermsOK(task'[t], q, fees)
    BY <1>1, <1>3 DEF TermsOK
  <2>2. QED
    BY <1>1, <1>3, <2>1, TermsMove
<1>4. ASSUME NEW f \in Fees, Charge(t, f), f \in settings \cup settings', settings' \in SUBSET Fees
      PROVE  TermsInv'
  <2>1. CASE j.entertainer + j.venue # Whole - f
    BY <1>2, <1>3, <1>4, <2>1, NoTerms DEF Charge
  <2>2. CASE j.entertainer + j.venue = Whole - f
    <3>1. PICK q : q = [j EXCEPT !.pc = "check", !.platform = f]
      OBVIOUS
    <3>2. /\ q \in RequestStates /\ q.pc = "check" /\ q.platform = f
          /\ q.entertainer = j.entertainer /\ q.venue = j.venue
      BY <1>2, <3>1, TermsAssumption DEF RequestStates
    <3>3. request' = [request EXCEPT ![t] = q]
      BY <1>2, <1>4, <2>2, <3>1 DEF Charge
    <3>4. q.entertainer + q.venue + q.platform = Whole
      BY <1>2, <2>2, <3>2, TermsAssumption DEF RequestStates
    <3>5. TermsOK(task'[t], q, inForce[t] \cup settings \cup settings')
      BY <1>1, <1>4, <3>2, <3>4 DEF TermsOK
    <3>6. QED
      BY <1>1, <1>4, <3>2, <3>3, <3>5, TermsMove
  <2>3. QED
    BY <2>1, <2>2
<1>5. CASE \E offer \in Offers : Ask(t, offer)
  <2>1. PICK offer \in Offers : Ask(t, offer)
    BY <1>5
  <2>2. PICK q : q = [NoRequest EXCEPT !.pc = "fee", !.entertainer = offer[1], !.venue = offer[2]]
    OBVIOUS
  <2>3. q \in RequestStates /\ q.pc = "fee"
    BY <2>2, NoTerms, TermsAssumption DEF RequestStates
  <2>4. request' = [request EXCEPT ![t] = q] /\ settings' = settings
    BY <2>1, <2>2 DEF Ask
  <2>5. QED
    BY <1>3, <2>3, <2>4 DEF TermsInv
<1>6. CASE ReadFee(t)
  <2>1. settings' = settings /\ settings \in SUBSET Fees
    BY <1>6 DEF ReadFee, TermsInv
  <2>2. CASE settings = {}
    <3>1. PICK q : q = [j EXCEPT !.pc = "heal"]
      OBVIOUS
    <3>2. q \in RequestStates /\ q.pc = "heal"
      BY <1>2, <3>1 DEF RequestStates
    <3>3. request' = [request EXCEPT ![t] = q]
      BY <1>2, <1>6, <2>2, <3>1 DEF ReadFee, TermsInv
    <3>4. QED
      BY <1>3, <2>1, <3>2, <3>3
  <2>3. CASE settings # {}
    BY <1>4, <1>6, <2>1, <2>3 DEF ReadFee
  <2>4. QED
    BY <2>2, <2>3
<1>7. CASE HealFee(t)
  <2>1. CASE settings = {}
    <3>1. settings' = {DefaultFee} /\ Charge(t, DefaultFee)
      BY <1>7, <2>1 DEF HealFee
    <3>2. QED
      BY <1>4, <3>1, TermsAssumption
  <2>2. CASE settings # {}
    BY <1>3, <1>7, <2>2, NoTerms DEF HealFee, TermsInv
  <2>3. QED
    BY <2>1, <2>2
<1>8. CASE Refuse(t)
  BY <1>3, <1>8, NoTerms DEF Refuse, TermsInv
<1>9. QED
  BY <1>5, <1>6, <1>7, <1>8

\* A transaction begins with the terms of its request.
LEMMA BeginKeeps ==
  ASSUME TermsInv, IInv', [Next]_vars, Watch, NEW t \in Tasks,
         Propose(t) \/ \E offer \in Offers : \E f \in Fees : Override(t, offer, f)
  PROVE  TermsInv'
<1>1. settings' = settings /\ settings \in SUBSET Fees
  BY DEF Propose, Override, TermsInv
<1>2. StartPropose(t) \/ StartOverride(t)
  BY DEF Propose, Override
<1>3. \A u \in Tasks : u # t => task'[u] = task[u]
  BY <1>2, OthersStay DEF TermsInv
<1>4. PICK j \in RequestStates : j = request[t] /\ TermsOK(task[t], j, inForce[t])
  BY DEF TermsInv
<1>5. CASE Propose(t)
  <2>1. PICK q : q = [j EXCEPT !.pc = "run"]
    OBVIOUS
  <2>2. /\ q \in RequestStates /\ q.pc = "run" /\ q.platform = j.platform
        /\ q.entertainer = j.entertainer /\ q.venue = j.venue
    BY <1>4, <2>1 DEF RequestStates
  <2>3. request' = [request EXCEPT ![t] = q] /\ j.pc = "check"
    BY <1>4, <1>5, <2>1 DEF Propose, Asks, TermsInv
  <2>4. TermsOK(task'[t], q, inForce[t] \cup settings \cup settings')
    BY <1>4, <2>2, <2>3 DEF TermsOK
  <2>5. QED
    BY <1>1, <1>3, <2>2, <2>3, <2>4, TermsMove
<1>6. CASE \E offer \in Offers : \E f \in Fees : Override(t, offer, f)
  <2>1. PICK offer \in Offers, f \in Fees : Override(t, offer, f)
    BY <1>6
  <2>2. PICK q : q = [NoRequest EXCEPT !.pc = "run", !.entertainer = offer[1], !.venue = offer[2],
                                       !.platform = f]
    OBVIOUS
  <2>3. /\ q \in RequestStates /\ q.pc = "run"
        /\ q.entertainer = offer[1] /\ q.venue = offer[2] /\ q.platform = f
    BY <2>2, TermsAssumption DEF RequestStates, NoRequest
  <2>4. request' = [request EXCEPT ![t] = q] /\ q.entertainer + q.venue + q.platform = Whole
    BY <2>1, <2>2, <2>3 DEF Override, SharesAreWhole
  <2>5. task'[t].kind = "override"
    BY <2>1, IdleTaskType, Recorded DEF Override, StartOverride, TaskStates, TermsInv
  <2>6. TermsOK(task'[t], q, inForce[t] \cup settings \cup settings')
    BY <2>3, <2>4, <2>5 DEF TermsOK
  <2>7. QED
    BY <1>1, <1>3, <2>3, <2>4, <2>6, TermsMove
<1>7. QED
  BY <1>5, <1>6

\* A transaction keeps the terms of its request until it ends.
LEMMA TransactKeeps ==
  ASSUME TermsInv, IInv', [Next]_vars, Watch, NEW t \in Tasks, Transact(t)
  PROVE  TermsInv'
<1>1. settings' = settings /\ settings \in SUBSET Fees
  BY DEF Transact, TermsInv
<1>2. \A u \in Tasks : u # t => task'[u] = task[u]
  BY OthersStay DEF Transact, TermsInv
<1>3. PICK j \in RequestStates : j = request[t] /\ TermsOK(task[t], j, inForce[t])
  BY DEF TermsInv
<1>4. CASE task'[t].pc = "idle"
  <2>1. request' = [request EXCEPT ![t] = NoRequest]
    BY <1>4 DEF Transact
  <2>2. QED
    BY <1>1, <1>2, <1>4, <2>1, NoTerms, TermsMove
<1>5. CASE task'[t].pc # "idle"
  <2>1. request' = [request EXCEPT ![t] = j]
    BY <1>3, <1>5 DEF Transact, TermsInv
  <2>2. \/ task'[t].kind = task[t].kind /\ task[t].pc # "idle"
        \/ task'[t].kind \in {"ACCEPT", "REJECT"} /\ j.pc = "none"
    <3>1. ASSUME NEW label, NEW rows, NEW w, Goto(t, label, rows, w) PROVE task'[t].kind = task[t].kind
      BY <3>1, Recorded DEF Goto, TaskStates, TermsInv
    <3>2. ~Commit(t) /\ ~Rollback(t)
      BY <1>5, Recorded, IdleTaskType DEF Commit, Rollback, Leave, TermsInv
    <3>3. CASE Withdraw(t) \/ InsertRule(t) \/ FindOutgoing(t) \/ CloseOut(t) \/ ClosedOut(t)
      BY <3>1, <3>3 DEF Withdraw, InsertRule, FindOutgoing, CloseOut, ClosedOut, At
    <3>4. CASE Claim(t)
      <4>1. ~Leave(t)
        BY <1>5, Recorded, IdleTaskType DEF Leave, TermsInv
      <4>2. QED
        BY <3>1, <3>4, <4>1 DEF Claim, At
    <3>5. CASE \E r \in Rules : \E decision \in {"ACCEPT", "REJECT"} :
                 request[t].pc = "none" /\ StartRespond(t, r, decision)
      BY <1>3, <3>5, Recorded, IdleTaskType DEF StartRespond, TaskStates, TermsInv
    <3>6. QED
      BY <3>2, <3>3, <3>4, <3>5 DEF Transact
  <2>3. TermsOK(task'[t], j, {}) \/ j.pc # "none"
    BY <1>3, <2>2 DEF TermsOK
  <2>4. TermsOK(task'[t], j, inForce[t] \cup settings \cup settings')
    BY <1>3, <2>2 DEF TermsOK
  <2>5. QED
    BY <1>1, <1>2, <2>1, <2>3, <2>4, TermsMove
<1>6. QED
  BY <1>4, <1>5

\* What is known of requests and decisions stays true while rules and settings change.
THEOREM TermsInvariance == SpecAll => []TermsInv
<1>1. InitAll => TermsInv
  <2> SUFFICES ASSUME InitAll PROVE TermsInv
    OBVIOUS
  <2>1. IInv
    BY InitInvariant DEF InitAll
  <2>2. \A t \in Tasks : task[t] = IdleTask /\ request[t] = NoRequest
    BY DEF InitAll, Init
  <2>3. DecisionsOK
    BY <2>2, FreshDecision, IdleTaskType DEF DecisionsOK
  <2>4. \A t \in Tasks : TermsOK(task[t], request[t], inForce[t])
    BY <2>2, NoTerms, IdleTaskType
  <2>5. /\ settings \in SUBSET Fees /\ request \in [Tasks -> RequestStates]
        /\ inForce \in [Tasks -> SUBSET Fees] /\ overtaken \in [Tasks -> BOOLEAN]
    BY NoTerms, TermsAssumption DEF InitAll
  <2>6. QED
    BY <2>1, <2>3, <2>4, <2>5 DEF TermsInv
<1>2. TermsInv /\ [NextAll]_allVars => TermsInv'
  <2> SUFFICES ASSUME TermsInv, [NextAll]_allVars PROVE TermsInv'
    OBVIOUS
  <2>1. [Next]_vars
    BY StepIsRulesStep
  <2>2. IInv'
    BY <2>1, NextInvariant DEF TermsInv
  <2>3. CASE UNCHANGED allVars
    <3>1. DecisionsOK'
      BY <2>3 DEF TermsInv, DecisionsOK, DecisionOK, allVars, vars
    <3>2. QED
      BY <2>2, <2>3, <3>1 DEF TermsInv, allVars, vars, termVars
  <2>4. CASE Step /\ Watch
    BY <2>1, <2>2, <2>4, SettingsKeep, AskKeeps, BeginKeeps, TransactKeeps DEF Step
  <2>5. QED
    BY <2>3, <2>4 DEF NextAll
<1>3. QED
  BY <1>1, <1>2, PTL DEF SpecAll

\* A transaction that commits under SplitTerms is the one that acts.
LEMMA CommitterActs ==
  ASSUME TermsInv, [NextAll]_allVars, NEW t \in Tasks, Commit(t)
  PROVE  Transact(t)
<1>1. task[t].pc = "commit" /\ task'[t] # task[t]
  BY Committed, IdleTaskType DEF Commit, At, TermsInv
<1>2. ~UNCHANGED vars
  BY <1>1 DEF vars
<1>3. PICK u \in Tasks :
         \/ Propose(u) \/ Transact(u)
         \/ \E offer \in Offers : \E f \in Fees : Override(u, offer, f)
  BY <1>2 DEF NextAll, Step, allVars
<1>4. u = t
  <2>1. u # t => task'[t] = task[t]
    BY <1>3, OthersStay DEF Propose, Override, Transact, TermsInv
  <2>2. QED
    BY <1>1, <2>1
<1>5. QED
  BY <1>1, <1>3, <1>4 DEF Propose, Override, StartOverride, Asks, At

\* Every new rule divides the whole, and a proposal charges a fee that was in force while
\* it was made.
THEOREM NewRulesAreSound == SpecAll => TermsAreSound
<1> DEFINE A == \A t \in Tasks : \A r \in Rules :
                  Commit(t) /\ status[r] = "absent" /\ status'[r] # "absent" =>
                    /\ terms'[r].entertainer + terms'[r].venue + terms'[r].platform = Whole
                    /\ status'[r] = "OPEN" => terms'[r].platform \in inForce[t]
<1>1. TermsInv /\ [NextAll]_allVars => [A]_allVars
  <2> SUFFICES ASSUME TermsInv, [NextAll]_allVars, NEW t \in Tasks, NEW r \in Rules,
                      Commit(t), status[r] = "absent", status'[r] # "absent"
               PROVE  /\ terms'[r].entertainer + terms'[r].venue + terms'[r].platform = Whole
                      /\ status'[r] = "OPEN" => terms'[r].platform \in inForce[t]
    BY DEF A
  <2>1. terms'[r] = request[t]
    BY CommitterActs DEF Transact, Record, Stamp
  <2>2. /\ task[t].writes[r] # "same" /\ status'[r] = task[t].writes[r] /\ task[t].pc = "commit"
        /\ task[t].kind \in {"propose", "override", "ACCEPT", "REJECT"}
    BY Committed, Recorded DEF TermsInv, Commit, At, TaskStates
  <2>3. /\ task[t].kind \in {"propose", "override"}
        /\ status'[r] = "OPEN" => task[t].kind = "propose"
    <3>1. DecisionOK(task[t], overtaken[t])
      BY DEF TermsInv, DecisionsOK
    <3>2. QED
      BY <2>2, <3>1 DEF DecisionOK
  <2>4. TermsOK(task[t], request[t], inForce[t])
    BY DEF TermsInv
  <2>5. QED
    BY <2>1, <2>2, <2>3, <2>4 DEF TermsOK
<1>2. QED
  BY <1>1, TermsInvariance, PTL DEF SpecAll, TermsAreSound

\* An override or acceptance that nothing overtook leaves one rule in force.
THEOREM DecisionsLeaveOne == SpecAll => UnopposedDecisionLeavesOne
<1> DEFINE A == \A t \in Tasks :
                  Commit(t) /\ task[t].kind \in {"override", "ACCEPT"} /\ ~overtaken[t] =>
                    /\ Cardinality(Active') = 1
                    /\ task[t].kind = "ACCEPT" => Active' = {task[t].rule}
<1>1. TermsInv /\ [NextAll]_allVars => [A]_allVars
  <2> SUFFICES ASSUME TermsInv, NEW t \in Tasks, Commit(t), task[t].kind \in {"override", "ACCEPT"},
                      ~overtaken[t]
               PROVE  /\ Cardinality(Active') = 1
                      /\ task[t].kind = "ACCEPT" => Active' = {task[t].rule}
    BY DEF A
  <2>1. DecisionOK(task[t], overtaken[t]) /\ TransactionOK(task[t]) /\ task[t].pc = "commit"
        /\ task[t].rule \in Rules
    BY Recorded DEF TermsInv, DecisionsOK, Commit, At
  <2>2. \A r \in Rules : status'[r] = "ACTIVE" <=> task[t].writes[r] = "ACTIVE"
    BY <2>1, Committed DEF DecisionOK, TermsInv
  <2>3. PICK new \in Rules : /\ \A r \in Rules : task[t].writes[r] = "ACTIVE" <=> r = new
                             /\ task[t].kind = "ACCEPT" => new = task[t].rule
    BY <2>1 DEF DecisionOK, TransactionOK
  <2>4. Active' = {new}
    BY <2>2, <2>3 DEF Active
  <2>5. QED
    BY <2>3, <2>4, FS_Singleton
<1>2. QED
  BY <1>1, TermsInvariance, PTL DEF SpecAll, UnopposedDecisionLeavesOne

=============================================================================
