------------------------- MODULE BankAccountProofs -------------------------
(* What TLAPS proves of BankAccount, for every number of accounts, holders    *)
(* and concurrent requests, and of the list of banks that a submission is     *)
(* resolved against, Banks, for all lists, inputs and callers.                *)
EXTENDS BankAccount, Banks, TLAPS

-----------------------------------------------------------------------------
(* The inductive invariant *)

\* What holds of the row: a name comes after a bank, a confirmation after a name; and if
\* c, the name is the holder's of the number and nobody is verified too early.
RowOK(k, r, c) ==
  /\ r \in Rows
  /\ r.confirmed => r.name # "none"
  /\ r.name # "none" => r.coded
  /\ k = "venue" => r.kyc = "NOT_STARTED"
  /\ c /\ r.name # "none" => r.account \in Accounts /\ r.name = Holder[r.account]
  /\ c /\ r.kyc = "VERIFIED" /\ r.coded => r.confirmed

\* What a request in state x knows of the row, as long as it is fresh.
TaskOK(k, r, x) ==
  /\ x \in TaskStates
  /\ x.pc \in {"banks", "submit", "resolve"} => x.account \in Accounts
  /\ x.pc = "submit" /\ x.fresh => (x.changed <=> r.account # x.account \/ ~r.coded)
  /\ x.pc = "resolve" => r.coded /\ (x.fresh => x.account = r.account)
  /\ x.pc \in {"verify", "approve", "reject"} => k = "entertainer"
  /\ x.pc \in {"verify", "approve"} /\ x.fresh => r.confirmed

IInv ==
  /\ kind \in {"entertainer", "venue"}
  /\ clean \in BOOLEAN
  /\ RowOK(kind, row, clean)
  /\ task \in [Tasks -> TaskStates]
  /\ \A t \in Tasks : TaskOK(kind, row, task[t])

\* A request that has not begun knows nothing that could be wrong.
LEMMA IdleTaskOK == \A k, r : TaskOK(k, r, IdleTask)
BY DEF TaskOK, IdleTask, TaskStates

\* A row as it is created, without requests, satisfies the invariant.
LEMMA InitOK == Init => IInv
<1> SUFFICES ASSUME Init PROVE IInv
  OBVIOUS
<1>1. RowOK(kind, row, clean)
  BY NoneAssumption DEF Init, InitialRows, RowOK, Rows
<1>2. \A t \in Tasks : task[t] = IdleTask
  BY DEF Init
<1>3. \A t \in Tasks : TaskOK(kind, row, task[t])
  BY <1>2, IdleTaskOK
<1>4. IdleTask \in TaskStates
  BY DEF IdleTask, TaskStates
<1>5. QED
  BY <1>1, <1>3, <1>4 DEF Init, IInv

-----------------------------------------------------------------------------
(* What a request does *)

\* Another request's knowledge survives a change of the row that takes no bank away.
LEMMA OutdatedOK ==
  ASSUME IInv, NEW u \in Tasks, NEW r, row.coded => r.coded
  PROVE  TaskOK(kind, r, Outdated(u, r))
<1>1. task[u] \in TaskStates /\ TaskOK(kind, row, task[u])
  BY DEF IInv
<1>2. CASE r = row
  <2>1. PICK b \in BOOLEAN : b = (task[u].fresh /\ r = row)
    OBVIOUS
  <2>2. task[u].fresh \in BOOLEAN
    BY <1>1 DEF TaskStates
  <2>3. b = task[u].fresh
    BY <1>2, <2>1, <2>2
  <2>4. Outdated(u, r) = [task[u] EXCEPT !.fresh = b]
    BY <2>1 DEF Outdated
  <2>5. Outdated(u, r) = task[u]
    BY <1>1, <2>3, <2>4 DEF TaskStates
  <2>6. QED
    BY <1>1, <1>2, <2>5
<1>3. CASE r # row
  <2>1. PICK b \in BOOLEAN : b = (task[u].fresh /\ r = row)
    OBVIOUS
  <2>2. b = FALSE
    BY <1>3, <2>1
  <2>3. Outdated(u, r) = [task[u] EXCEPT !.fresh = FALSE]
    BY <2>1, <2>2 DEF Outdated
  <2>4. PICK x : x = [task[u] EXCEPT !.fresh = FALSE]
    OBVIOUS
  <2>5. /\ x \in TaskStates /\ ~x.fresh
        /\ x.pc = task[u].pc /\ x.account = task[u].account
    BY <1>1, <2>4 DEF TaskStates
  <2>6. TaskOK(kind, r, x)
    BY <1>1, <2>5 DEF TaskOK
  <2>7. QED
    BY <2>3, <2>4, <2>6
<1>4. QED
  BY <1>2, <1>3

\* Reading the row: the request must know what its label asks for.
LEMMA ReadKeeps ==
  ASSUME IInv, NEW t \in Tasks, NEW label, NEW account, NEW changed,
         Read(t, label, account, changed),
         TaskOK(kind, row, [pc |-> label, account |-> account, changed |-> changed, fresh |-> TRUE])
  PROVE  IInv'
<1>1. PICK x : x = [pc |-> label, account |-> account, changed |-> changed, fresh |-> TRUE]
  OBVIOUS
<1>2. task' = [task EXCEPT ![t] = x] /\ TaskOK(kind, row, x) /\ UNCHANGED <<kind, row, clean>>
  BY <1>1 DEF Read
<1>3. x \in TaskStates
  BY <1>2 DEF TaskOK
<1>4. task' \in [Tasks -> TaskStates] /\ \A u \in Tasks : task'[u] = IF u = t THEN x ELSE task[u]
  BY <1>2, <1>3 DEF IInv
<1>5. \A u \in Tasks : TaskOK(kind, row, task'[u])
  BY <1>2, <1>4 DEF IInv
<1>6. QED
  BY <1>2, <1>4, <1>5 DEF IInv

\* Updating the row: what is written must be right if the request was fresh.
LEMMA UpdateKeeps ==
  ASSUME IInv, NEW t \in Tasks, NEW r, Update(t, r),
         RowOK(kind, r, clean /\ task[t].fresh), row.coded => r.coded
  PROVE  IInv'
<1>1. /\ row' = r /\ kind' = kind /\ clean' = (clean /\ task[t].fresh)
      /\ task' = [u \in Tasks |-> IF u = t THEN IdleTask ELSE Outdated(u, r)]
  BY DEF Update
<1>2. \A u \in Tasks : TaskOK(kind, r, task'[u])
  BY <1>1, OutdatedOK, IdleTaskOK
<1>3. task' \in [Tasks -> TaskStates]
  BY <1>1, <1>2 DEF TaskOK
<1>4. clean' \in BOOLEAN /\ RowOK(kind', row', clean')
  BY <1>1
<1>5. QED
  BY <1>1, <1>2, <1>3, <1>4 DEF IInv

\* What Update is told of a row from a fresh request in good order.
LEMMA Facts ==
  ASSUME IInv, NEW t \in Tasks
  PROVE  /\ TaskOK(kind, row, task[t]) /\ task[t] \in TaskStates
         /\ RowOK(kind, row, clean) /\ row \in Rows
         /\ kind \in {"entertainer", "venue"}
BY DEF IInv, RowOK

-----------------------------------------------------------------------------
(* The actions *)

\* A number is stored, and what was known of the one before is cleared.
LEMMA SubmitKeeps ==
  ASSUME IInv, NEW t \in Tasks, SubmitBankDetails(t)
  PROVE  IInv'
<1>1. task[t].pc = "submit" /\ task[t].account \in Accounts
  BY Facts DEF SubmitBankDetails, At, TaskOK
<1>2. task[t].account # "none"
  BY <1>1, NoneAssumption
<1>3. CASE task[t].changed
  <2>1. PICK r : r = [row EXCEPT !.account = task[t].account, !.coded = TRUE, !.named = TRUE,
                                 !.kyc = Kyc("PENDING"), !.name = "none", !.confirmed = FALSE]
    OBVIOUS
  <2>2. Update(t, r)
    BY <1>3, <2>1 DEF SubmitBankDetails
  <2>3. RowOK(kind, r, clean /\ task[t].fresh) /\ r.coded
    BY <1>1, <1>2, <2>1, Facts DEF RowOK, Rows, KycStatuses, Kyc
  <2>4. QED
    BY <2>2, <2>3, UpdateKeeps
<1>4. CASE ~task[t].changed
  <2>1. PICK r : r = [row EXCEPT !.account = task[t].account, !.coded = TRUE, !.named = TRUE,
                                 !.kyc = Kyc("PENDING")]
    OBVIOUS
  <2>2. Update(t, r)
    BY <1>4, <2>1 DEF SubmitBankDetails
  <2>3. task[t].fresh => row.account = task[t].account /\ row.coded
    BY <1>1, <1>4, Facts DEF TaskOK
  <2>4. RowOK(kind, r, clean /\ task[t].fresh) /\ r.coded
    BY <1>1, <1>2, <2>1, <2>3, Facts DEF RowOK, Rows, KycStatuses, Kyc
  <2>5. QED
    BY <2>2, <2>4, UpdateKeeps
<1>5. QED
  BY <1>3, <1>4

\* A name is stored that a bank gave, or a refusal.
LEMMA ResolveKeeps ==
  ASSUME IInv, NEW t \in Tasks, ResolveAccount(t) \/ ResolveRefused(t)
  PROVE  IInv'
<1>1. /\ task[t].pc = "resolve" /\ task[t].account \in Accounts /\ row.coded
      /\ task[t].fresh => task[t].account = row.account
  BY Facts DEF ResolveAccount, ResolveRefused, At, TaskOK
<1>2. Holder[task[t].account] \in Names /\ Holder[task[t].account] # "none"
  BY <1>1, HolderAssumption, NoneAssumption
<1>3. CASE ResolveAccount(t)
  <2>1. PICK r : r = [row EXCEPT !.name = Holder[task[t].account], !.confirmed = FALSE,
                                 !.kyc = Kyc("PENDING")]
    OBVIOUS
  <2>2. Update(t, r)
    BY <1>3, <2>1 DEF ResolveAccount
  <2>3. RowOK(kind, r, clean /\ task[t].fresh) /\ r.coded
    BY <1>1, <1>2, <2>1, Facts DEF RowOK, Rows, KycStatuses, Kyc
  <2>4. QED
    BY <2>2, <2>3, UpdateKeeps
<1>4. CASE ResolveRefused(t)
  <2>1. PICK r : r = [row EXCEPT !.kyc = Kyc("FAILED")]
    OBVIOUS
  <2>2. Update(t, r)
    BY <1>4, <2>1 DEF ResolveRefused
  <2>3. RowOK(kind, r, clean /\ task[t].fresh) /\ r.coded
    BY <1>1, <2>1, Facts DEF RowOK, Rows, KycStatuses, Kyc
  <2>4. QED
    BY <2>2, <2>3, UpdateKeeps
<1>5. QED
  BY <1>3, <1>4

\* The name on the row is confirmed.
LEMMA ConfirmKeeps ==
  ASSUME IInv, NEW t \in Tasks, ConfirmAccount(t)
  PROVE  IInv'
<1>1. PICK r : r = [row EXCEPT !.confirmed = TRUE, !.kyc = Kyc("PENDING")]
  OBVIOUS
<1>2. Update(t, r) /\ row.name # "none"
  BY <1>1 DEF ConfirmAccount
<1>3. RowOK(kind, r, clean /\ task[t].fresh) /\ (row.coded => r.coded)
  BY <1>1, <1>2, Facts DEF RowOK, Rows, KycStatuses, Kyc
<1>4. QED
  BY <1>2, <1>3, UpdateKeeps

\* A verdict about a fresh account is one about a confirmed account.
LEMMA VerdictKeeps ==
  ASSUME IInv, NEW t \in Tasks, VerifyIdentity(t) \/ DecideReview(t)
  PROVE  IInv'
<1>1. task[t].pc \in {"verify", "approve", "reject"} /\ kind = "entertainer"
  BY Facts DEF VerifyIdentity, DecideReview, At, TaskOK
<1>2. PICK s \in {"VERIFIED", "FAILED", "REVIEW"} :
        /\ Update(t, [row EXCEPT !.kyc = s])
        /\ s = "VERIFIED" => task[t].pc \in {"verify", "approve"}
  <2>1. CASE VerifyIdentity(t)
    <3>1. PICK check \in Checks : Update(t, [row EXCEPT !.kyc = StatusAfter(check)])
      BY <2>1 DEF VerifyIdentity
    <3>2. StatusAfter(check) \in {"VERIFIED", "FAILED", "REVIEW"}
      BY DEF StatusAfter, Checks
    <3>3. QED
      BY <2>1, <3>1, <3>2 DEF VerifyIdentity, At
  <2>2. CASE DecideReview(t) /\ At(t, "approve")
    BY <2>2 DEF DecideReview, At
  <2>3. CASE DecideReview(t) /\ ~At(t, "approve")
    BY <2>3 DEF DecideReview, At
  <2>4. QED
    BY <2>1, <2>2, <2>3
<1>3. PICK r : r = [row EXCEPT !.kyc = s]
  OBVIOUS
<1>4. s = "VERIFIED" /\ task[t].fresh => row.confirmed
  BY <1>2, Facts DEF TaskOK
<1>5. RowOK(kind, r, clean /\ task[t].fresh) /\ (row.coded => r.coded)
  BY <1>1, <1>3, <1>4, Facts DEF RowOK, Rows, KycStatuses
<1>6. QED
  BY <1>2, <1>3, <1>5, UpdateKeeps

\* The requests that only read.
LEMMA StartKeeps ==
  ASSUME IInv, NEW t \in Tasks,
         \/ \E a \in Accounts : StartSubmit(t, a)
         \/ ReadVenueAgain(t) \/ StartResolve(t) \/ StartConfirm(t) \/ StartVerify(t)
         \/ \E decision \in {"approve", "reject"} : StartDecide(t, decision)
  PROVE  IInv'
<1>1. ASSUME NEW a \in Accounts, NEW label \in {"submit", "banks"}, NEW changed \in BOOLEAN,
             Read(t, label, a, changed), label = "submit" => (changed <=> Differs(a))
      PROVE  IInv'
  <2>1. TaskOK(kind, row, [pc |-> label, account |-> a, changed |-> changed, fresh |-> TRUE])
    BY <1>1 DEF TaskOK, TaskStates, Differs
  <2>2. QED
    BY <1>1, <2>1, ReadKeeps
<1>2. \A a : Differs(a) \in BOOLEAN
  BY DEF Differs
<1>3. ASSUME NEW a \in Accounts, StartSubmit(t, a) PROVE IInv'
  <2>1. CASE kind = "entertainer"
    <3>1. Read(t, "submit", a, Differs(a))
      BY <1>3, <2>1 DEF StartSubmit
    <3>2. QED
      BY <1>1, <1>2, <3>1
  <2>2. CASE kind # "entertainer"
    <3>1. Read(t, "banks", a, FALSE)
      BY <1>3, <2>2 DEF StartSubmit
    <3>2. QED
      BY <1>1, <3>1
  <2>3. QED
    BY <2>1, <2>2
<1>4. CASE ReadVenueAgain(t)
  <2>1. task[t].account \in Accounts
    BY <1>4, Facts DEF ReadVenueAgain, At, TaskOK
  <2>2. QED
    BY <1>1, <1>2, <1>4, <2>1 DEF ReadVenueAgain
<1>5. CASE StartResolve(t)
  <2>1. TaskOK(kind, row, [pc |-> "resolve", account |-> row.account, changed |-> FALSE, fresh |-> TRUE])
    BY <1>5, Facts DEF StartResolve, TaskOK, TaskStates, Rows
  <2>2. QED
    BY <1>5, <2>1, ReadKeeps DEF StartResolve
<1>6. ASSUME NEW label \in {"confirm", "verify", "approve", "reject"},
             Read(t, label, "none", FALSE),
             label # "confirm" => kind = "entertainer",
             label \in {"verify", "approve"} => row.confirmed
      PROVE  IInv'
  <2>1. TaskOK(kind, row, [pc |-> label, account |-> "none", changed |-> FALSE, fresh |-> TRUE])
    BY <1>6 DEF TaskOK, TaskStates
  <2>2. QED
    BY <1>6, <2>1, ReadKeeps
<1>7. CASE StartConfirm(t)
  BY <1>6, <1>7 DEF StartConfirm
<1>8. CASE StartVerify(t)
  BY <1>6, <1>8 DEF StartVerify
<1>9. ASSUME NEW decision \in {"approve", "reject"}, StartDecide(t, decision) PROVE IInv'
  <2>1. kind = "entertainer"
    BY <1>9, Facts DEF StartDecide, RowOK
  <2>2. QED
    BY <1>6, <1>9, <2>1 DEF StartDecide
<1>10. QED
  BY <1>3, <1>4, <1>5, <1>7, <1>8, <1>9

\* An admin changes number and bank name and leaves the rest; clean says whether that
\* matters.
LEMMA PatchKeeps ==
  ASSUME IInv, NEW a \in Accounts \cup {"none"}, NEW named \in BOOLEAN, PatchAccount(a, named)
  PROVE  IInv'
<1>1. PICK r : r = [row EXCEPT !.account = a, !.named = named]
  OBVIOUS
<1>2. /\ row' = r /\ kind' = kind
      /\ task' = [u \in Tasks |-> Outdated(u, r)]
      /\ clean' = (clean /\ (row.name = "none" \/ a = row.account))
  BY <1>1 DEF PatchAccount
<1>3. RowOK(kind, row, clean)
  BY DEF IInv
<1>4. RowOK(kind, r, clean') /\ r.coded = row.coded
  BY <1>1, <1>2, <1>3, NoneAssumption DEF RowOK, Rows
<1>5. \A u \in Tasks : TaskOK(kind, r, task'[u])
  BY <1>2, <1>4, OutdatedOK
<1>6. task' \in [Tasks -> TaskStates]
  BY <1>2, <1>5 DEF TaskOK
<1>7. clean' \in BOOLEAN
  BY <1>2
<1>8. QED
  BY <1>2, <1>4, <1>5, <1>6, <1>7 DEF IInv

\* A request that fails leaves the row alone.
LEMMA ThrowKeeps ==
  ASSUME IInv, NEW t \in Tasks, Throw(t)
  PROVE  IInv'
<1>1. IdleTask \in TaskStates /\ TaskOK(kind, row, IdleTask)
  BY IdleTaskOK DEF TaskOK
<1>2. task' \in [Tasks -> TaskStates] /\ \A u \in Tasks : task'[u] = IF u = t THEN IdleTask ELSE task[u]
  BY <1>1 DEF IInv, Throw
<1>3. \A u \in Tasks : TaskOK(kind, row, task'[u])
  BY <1>1, <1>2 DEF IInv
<1>4. QED
  BY <1>2, <1>3 DEF IInv, Throw

-----------------------------------------------------------------------------
(* The theorems *)

\* Every step keeps the invariant.
LEMMA NextKeeps == IInv /\ [Next]_vars => IInv'
<1> SUFFICES ASSUME IInv, [Next]_vars PROVE IInv'
  OBVIOUS
<1>1. CASE Next
  BY <1>1, SubmitKeeps, ResolveKeeps, ConfirmKeeps, VerdictKeeps, StartKeeps, PatchKeeps, ThrowKeeps
     DEF Next
<1>2. CASE UNCHANGED vars
  BY <1>2 DEF vars, IInv
<1>3. QED
  BY <1>1, <1>2

\* The invariant holds of every row, whatever requests overlap.
THEOREM Invariant == Spec => []IInv
<1>1. QED
  BY InitOK, NextKeeps, PTL DEF Spec

\* Type correctness, and the CHECK that only a named account is confirmed never fails.
THEOREM TypeCorrect == Spec => []TypeOK
<1>1. IInv => TypeOK
  BY DEF IInv, TypeOK, RowOK
<1>2. QED
  BY <1>1, Invariant, PTL

\* As long as no update relied on an outdated row and no PATCH moved the number under a
\* name, the confirmed name is the holder's of the stored account: submitBankDetails
\* forgets it with the number, and resolveAccount asks about the number that is stored.
THEOREM ConfirmedNamesTheHolder == Spec => []ConfirmedIsTheHolder
<1>1. IInv => ConfirmedIsTheHolder
  BY DEF IInv, ConfirmedIsTheHolder, RowOK
<1>2. QED
  BY <1>1, Invariant, PTL

\* Under the same condition verifyIdentity and decideReview verify nobody whose account is
\* not confirmed, and every step back in the flow takes VERIFIED away.
THEOREM VerifiedAfterConfirmed == Spec => []VerifiedIsConfirmed
<1>1. IInv => VerifiedIsConfirmed
  BY DEF IInv, VerifiedIsConfirmed, RowOK
<1>2. QED
  BY <1>1, Invariant, PTL

\* nextStepFor, payoutsEnabled and resolveDestination agree on the row, whatever
\* interleaving wrote it, unless a PATCH emptied it; from such a row nothing is sent.
THEOREM ViewsAlwaysAgree == Spec => []ViewsAgree
<1>1. IInv => ViewsAgree
  BY DEF IInv, ViewsAgree, RowOK, Rows, Emptied, NextStep, Destination, PayoutsEnabled
<1>2. QED
  BY <1>1, Invariant, PTL

-----------------------------------------------------------------------------
(* The list of banks *)

\* What holds of a caller once n lists were obtained.
CallerOK(x, n) ==
  /\ x \in CallerStates
  /\ x.known <= n
  /\ x.pc = "served" => x.version >= x.known /\ (~x.fresh => x.failed)

\* The cache is the newest list, one request at most is under way, and whoever waits,
\* waits for it.
ListInv ==
  /\ lists \in 0 .. MaxLists
  /\ cache \in [banks : SUBSET BankRows, fresh : BOOLEAN, version : {lists}]
  /\ inFlight \in BOOLEAN
  /\ upstream = IF inFlight THEN 1 ELSE 0
  /\ caller \in [Callers -> CallerStates]
  /\ \A c \in Callers : CallerOK(caller[c], lists) /\ (caller[c].pc = "waiting" => inFlight)

\* The usable banks of a list are banks of it.
LEMMA UsableAreBanks ==
  ASSUME NEW answer \in Answers
  PROVE  UsableBanks(answer) \subseteq BankRows
<1>1. \A r \in answer : r.name \in BankNames /\ r.code \in Codes
  BY InputAssumption DEF ProviderRows
<1>2. QED
  BY <1>1 DEF UsableBanks, BankRows

\* resolve takes the bank that has the code, the alias's, or the only candidate.
LEMMA ResolveNeverGuesses ==
  ASSUME NEW banks, NEW input, NEW b \in Resolve(banks, input)
  PROVE  \/ b.code = input.code
         \/ input.code = "none" /\ b.code = input.alias
         \/ input.code = "none" /\ \A d \in banks \ {b} : ~FitsAsWell(d, b, input)
<1>1. CASE input.code # "none"
  BY <1>1 DEF Resolve
<1>2. CASE input.code = "none"
  <2> DEFINE Same == Exact(banks, input)
             Near == Partial(banks, input)
  <2>1. \/ b \in OnlyOf(Same)
        \/ b \in Aliased(banks, input)
        \/ b \in OnlyOf(Near)
    BY <1>2 DEF Resolve
  <2>2. CASE b \in OnlyOf(Same)
    <3>1. Same = {b}
      BY <2>2 DEF OnlyOf
    <3>2. \A d \in banks \ {b} : d.name # input.name
      BY <3>1 DEF Exact
    <3>3. b.name = input.name
      BY <3>1 DEF Exact
    <3>4. QED
      BY <1>2, <3>2, <3>3 DEF FitsAsWell
  <2>3. CASE b \in Aliased(banks, input)
    BY <1>2, <2>3 DEF Aliased
  <2>4. CASE b \in OnlyOf(Near)
    <3>1. Near = {b}
      BY <2>4 DEF OnlyOf
    <3>2. \A d \in banks \ {b} : ~(\/ d.name = input.name
                                   \/ <<d.name, input.name>> \in IsPrefix
                                   \/ <<input.name, d.name>> \in IsPrefix)
      BY <3>1 DEF Partial
    <3>3. QED
      BY <1>2, <3>2 DEF FitsAsWell
  <2>5. QED
    BY <2>1, <2>2, <2>3, <2>4
<1>3. QED
  BY <1>1, <1>2

\* A request settles: who waited is served the newest list there is, version n.
LEMMA SettleKeeps ==
  ASSUME ListInv, NEW banks \in SUBSET BankRows, NEW n \in 0 .. MaxLists, n >= lists,
         NEW fresh \in BOOLEAN, NEW failed \in BOOLEAN, fresh \/ failed,
         ServeWaiting(banks, n, fresh, failed)
  PROVE  /\ caller' \in [Callers -> CallerStates]
         /\ \A c \in Callers : CallerOK(caller'[c], n) /\ caller'[c].pc # "waiting"
<1>1. ASSUME NEW c \in Callers PROVE CallerOK(caller'[c], n) /\ caller'[c].pc # "waiting"
  <2> DEFINE x == caller[c]
  <2>1. CallerOK(x, lists)
    BY DEF ListInv
  <2>2. CASE x.pc = "waiting"
    <3>1. caller'[c] = [Served(c, banks, n, fresh) EXCEPT !.failed = failed]
      BY <2>2 DEF ServeWaiting
    <3>2. caller'[c] = [pc |-> "served", input |-> x.input, known |-> x.known,
                        failed |-> failed, fresh |-> fresh, version |-> n, banks |-> banks]
      BY <2>1, <3>1 DEF Served, CallerOK, CallerStates
    <3>3. QED
      BY <2>1, <3>2 DEF CallerOK, CallerStates, ListInv
  <2>3. CASE x.pc # "waiting"
    <3>1. caller'[c] = x
      BY <2>3 DEF ServeWaiting
    <3>2. QED
      BY <2>1, <2>3, <3>1 DEF CallerOK, CallerStates, ListInv
  <2>4. QED
    BY <2>2, <2>3
<1>2. caller' = [c \in Callers |-> caller'[c]]
  BY DEF ServeWaiting
<1>3. QED
  BY <1>1, <1>2 DEF CallerOK

\* A caller that is idle is all right, whatever was obtained.
LEMMA IdleCallerOK ==
  ASSUME NEW n \in Nat
  PROVE  CallerOK(Idle, n) /\ Idle.pc = "idle"
<1>1. Idle.input \in Inputs
  BY InputAssumption DEF Idle
<1>2. QED
  BY <1>1, BankAssumption DEF Idle, CallerOK, CallerStates

\* A step of one caller, while the lists stay.
LEMMA CallerMoves ==
  ASSUME ListInv, NEW c \in Callers, NEW x, CallerOK(x, lists), x.pc = "waiting" => inFlight',
         inFlight => inFlight', inFlight' \in BOOLEAN, upstream' = IF inFlight' THEN 1 ELSE 0,
         caller' = [caller EXCEPT ![c] = x], UNCHANGED <<cache, lists>>
  PROVE  ListInv'
<1>1. caller'[c] = x /\ \A d \in Callers \ {c} : caller'[d] = caller[d]
  BY DEF ListInv
<1>2. \A d \in Callers : CallerOK(caller'[d], lists) /\ (caller'[d].pc = "waiting" => inFlight')
  BY <1>1 DEF ListInv
<1>3. caller' \in [Callers -> CallerStates]
  BY DEF ListInv, CallerOK
<1>4. QED
  BY <1>2, <1>3 DEF ListInv

\* Every step of the bank list keeps its invariant.
LEMMA ListNextKeeps ==
  ASSUME ListInv, [ListNext]_listVars
  PROVE  ListInv'
<1>0. MaxLists \in Nat
  BY BankAssumption
<1>1. ASSUME NEW c \in Callers, NEW i \in Inputs, ListCached(c, i)
      PROVE  ListInv'
  <2> DEFINE x == [pc |-> "served", input |-> i, known |-> lists, failed |-> FALSE,
                   fresh |-> TRUE, version |-> cache.version, banks |-> cache.banks]
  <2>1. CallerOK(x, lists) /\ x.pc # "waiting"
    BY DEF CallerOK, CallerStates, ListInv
  <2>2. caller' = [caller EXCEPT ![c] = x] /\ UNCHANGED <<cache, inFlight, upstream, lists>>
    BY <1>1 DEF ListCached
  <2>3. QED
    BY <2>1, <2>2, CallerMoves DEF ListInv
<1>2. ASSUME NEW c \in Callers, NEW i \in Inputs, ListMissed(c, i)
      PROVE  ListInv'
  <2> DEFINE x == [pc |-> "waiting", input |-> i, known |-> lists, failed |-> FALSE,
                   fresh |-> FALSE, version |-> 0, banks |-> {}]
  <2>1. CallerOK(x, lists)
    BY <1>0 DEF CallerOK, CallerStates, ListInv
  <2>2. inFlight' = TRUE /\ upstream' = 1
    BY <1>2 DEF ListMissed, JoinOrAsk, ListInv
  <2>3. caller' = [caller EXCEPT ![c] = x] /\ UNCHANGED <<cache, lists>>
    BY <1>2 DEF ListMissed
  <2>4. QED
    BY <2>1, <2>2, <2>3, CallerMoves
<1>3. ASSUME NEW c \in Callers, Leave(c) PROVE ListInv'
  <2>1. CallerOK(Idle, lists) /\ Idle.pc # "waiting"
    BY <1>0, IdleCallerOK DEF ListInv
  <2>2. /\ caller' = [caller EXCEPT ![c] = Idle]
        /\ UNCHANGED <<cache, inFlight, upstream, lists>>
    BY <1>3 DEF Leave
  <2>3. QED
    BY <2>1, <2>2, CallerMoves DEF ListInv
<1>4. ASSUME NEW answer \in Answers, Refresh(answer) PROVE ListInv'
  <2> DEFINE banks == UsableBanks(answer)
  <2>1. banks \in SUBSET BankRows
    BY UsableAreBanks
  <2>2. lists + 1 \in 0 .. MaxLists /\ lists + 1 >= lists
    BY <1>0, <1>4 DEF Refresh, ListInv
  <2>3. ServeWaiting(banks, lists + 1, TRUE, FALSE)
    BY <1>4 DEF Refresh
  <2>4. /\ caller' \in [Callers -> CallerStates]
        /\ \A c \in Callers : CallerOK(caller'[c], lists + 1) /\ caller'[c].pc # "waiting"
    BY <2>1, <2>2, <2>3, SettleKeeps
  <2>5. inFlight' = FALSE /\ upstream' = 0
    BY <1>4 DEF Refresh, ListInv
  <2>6. lists' = lists + 1 /\ cache' = [banks |-> banks, fresh |-> TRUE, version |-> lists + 1]
    BY <1>4 DEF Refresh
  <2>7. QED
    BY <2>1, <2>2, <2>4, <2>5, <2>6 DEF ListInv
<1>5. CASE RefreshFails
  <2>1. Stale.banks \in SUBSET BankRows /\ Stale.version = lists
    BY BankAssumption DEF Stale, HasCache, ListInv, BankRows
  <2>2. ServeWaiting(Stale.banks, lists, FALSE, TRUE)
    BY <1>5, <2>1 DEF RefreshFails
  <2>3. /\ caller' \in [Callers -> CallerStates]
        /\ \A c \in Callers : CallerOK(caller'[c], lists) /\ caller'[c].pc # "waiting"
    <3>1. lists \in 0 .. MaxLists /\ lists >= lists
      BY <1>0 DEF ListInv
    <3>2. QED
      BY <2>1, <2>2, <3>1, SettleKeeps
  <2>4. inFlight' = FALSE /\ upstream' = 0 /\ UNCHANGED <<cache, lists>>
    BY <1>5 DEF RefreshFails, ListInv
  <2>5. QED
    BY <2>3, <2>4 DEF ListInv
<1>6. CASE Lapse
  BY <1>6 DEF Lapse, ListInv
<1>7. CASE Restart
  <2>1. \A c \in Callers : caller'[c] = Idle
    BY <1>7 DEF Restart
  <2>2. CallerOK(Idle, 0) /\ Idle.pc # "waiting"
    BY IdleCallerOK
  <2>3. caller' \in [Callers -> CallerStates]
    BY <1>7, <2>2 DEF Restart, CallerOK
  <2>4. cache' \in [banks : SUBSET BankRows, fresh : BOOLEAN, version : {0}] /\ lists' = 0
    BY <1>7 DEF Restart, NoCache
  <2>5. inFlight' \in BOOLEAN /\ ~inFlight' /\ upstream' = 0
    BY <1>7, Zenon DEF Restart
  <2>6. QED
    BY <1>0, <2>1, <2>2, <2>3, <2>4, <2>5 DEF ListInv
<1>8. CASE UNCHANGED listVars
  BY <1>8 DEF listVars, ListInv
<1>9. QED
  BY <1>1, <1>2, <1>3, <1>4, <1>5, <1>6, <1>7, <1>8 DEF ListNext

\* The invariant of the bank list holds always.
LEMMA ListInvariant ==
  ListSpec => []ListInv
<1>1. ASSUME ListInit PROVE ListInv
  <2>1. MaxLists \in Nat
    BY BankAssumption
  <2>2. CallerOK(Idle, 0) /\ Idle.pc # "waiting"
    BY IdleCallerOK
  <2>3. \A c \in Callers : caller[c] = Idle
    BY <1>1 DEF ListInit
  <2>4. caller \in [Callers -> CallerStates]
    BY <1>1, <2>2 DEF ListInit, CallerOK
  <2>5. cache \in [banks : SUBSET BankRows, fresh : BOOLEAN, version : {0}] /\ lists = 0
    BY <1>1 DEF ListInit, NoCache
  <2>6. inFlight \in BOOLEAN /\ ~inFlight /\ upstream = 0
    BY <1>1, Zenon DEF ListInit
  <2>7. QED
    BY <2>1, <2>2, <2>3, <2>4, <2>5, <2>6 DEF ListInv
<1>2. ListInv /\ [ListNext]_listVars => ListInv'
  BY ListNextKeeps
<1>3. QED
  BY <1>1, <1>2, PTL DEF ListSpec

\* Type correctness of Banks; inFlight lets one request to the provider be under way.
THEOREM ListTypeCorrect ==
  ListSpec => []ListTypeOK
<1>1. ListInv => ListTypeOK
  BY DEF ListInv, ListTypeOK
<1>2. QED
  BY <1>1, ListInvariant, PTL

\* Whatever lapses, fails or restarts, nobody is served a list older than the newest one
\* when it asked, nor a lapsed list or the static map unless a refresh failed meanwhile.
THEOREM NewestIsServed ==
  ListSpec => []ServedIsTheLatest
<1>1. ListInv => ServedIsTheLatest
  BY DEF ListInv, CallerOK, ServedIsTheLatest
<1>2. QED
  BY <1>1, ListInvariant, PTL

\* Whatever the banks, their names and codes are, resolve never picks one of several banks
\* that a name fits equally well.
THEOREM ResolvesWithoutGuess ==
  ListSpec => []NeverAGuess
<1>1. NeverAGuess
  BY ResolveNeverGuesses DEF NeverAGuess
<1>2. QED
  BY <1>1, PTL

=============================================================================
