----------------------------- MODULE BankAccount -----------------------------
(***************************************************************************)
(* One owner's payout account, from the number somebody typed to an        *)
(* account money is sent to: src/kyc/kyc.service.ts for an entertainer,    *)
(* src/venue-payout-account/venue-payout-account.service.ts for a venue,   *)
(* and the PATCH of src/entertainers/entertainers.service.ts.              *)
(*                                                                         *)
(* A request reads the row, often asks the bank or an identity provider,   *)
(* and then updates the row whatever it has become: nothing is locked, and *)
(* updates are by id only.                                                 *)
(*                                                                         *)
(* An account is a bank code with a number; an entertainer may be created  *)
(* with a number only.  Of the bank's name it matters whether there is     *)
(* one: money goes by the code.  Names of holders are compared after       *)
(* normalizeName.  Left out: timestamps other than account_confirmed_at,   *)
(* the texts of failures, the document that is checked, and SUSPENDED,     *)
(* which nothing ever writes.                                              *)
(***************************************************************************)
CONSTANTS
  Accounts,  \* bank accounts
  Names,     \* account holders, as banks report them
  Holder,    \* the holder of each account
  Tasks      \* concurrent requests

ASSUME HolderAssumption == Holder \in [Accounts -> Names]
ASSUME NoneAssumption == "none" \notin Accounts \cup Names

VARIABLES
  kind,   \* whose account it is
  row,    \* the row of that entertainer or venue
  task,   \* the running requests
  clean   \* history: no update relied on a row that had changed since it was read, and
          \* no PATCH moved or removed the number of a resolved account

vars == <<kind, row, task, clean>>

KycStatuses == {"NOT_STARTED", "PENDING", "REVIEW", "VERIFIED", "FAILED"}

\* account_number with bank_code (coded: there is a code); bank_name is not empty;
\* resolved_account_name; account_confirmed_at is set; kyc_status, which a venue does
\* not have.
Rows ==
  [account : Accounts \cup {"none"}, coded : BOOLEAN, named : BOOLEAN,
   name : Names \cup {"none"}, confirmed : BOOLEAN, kyc : KycStatuses]

\* account: what the request is to store, or asks the bank about; changed: what submit
\* found; fresh: the row is still what the request read.
TaskStates ==
  [pc : {"idle", "banks", "submit", "resolve", "confirm", "verify", "approve", "reject"},
   account : Accounts \cup {"none"}, changed : BOOLEAN, fresh : BOOLEAN]

IdleTask == [pc |-> "idle", account |-> "none", changed |-> FALSE, fresh |-> TRUE]

\* Nothing submitted yet, or an entertainer from before onboarding: verified, but
\* without a confirmed account.
InitialRows ==
  {r \in Rows :
     /\ ~r.coded /\ r.name = "none" /\ ~r.confirmed
     /\ r.kyc \in (IF kind = "venue" THEN {"NOT_STARTED"} ELSE {"NOT_STARTED", "VERIFIED"})
     /\ kind = "venue" => r.account = "none" /\ ~r.named}

Init ==
  /\ kind \in {"entertainer", "venue"}
  /\ row \in InitialRows
  /\ task = [t \in Tasks |-> IdleTask]
  /\ clean = TRUE

At(t, label) == task[t].pc = label

\* A request reads the row and goes on to a label.
Read(t, label, account, changed) ==
  /\ task' = [task EXCEPT ![t] =
       [pc |-> label, account |-> account, changed |-> changed, fresh |-> TRUE]]
  /\ UNCHANGED <<kind, row, clean>>

\* What the other requests know of the row once it is r.
Outdated(u, r) == [task[u] EXCEPT !.fresh = task[u].fresh /\ r = row]

\* update by id, and the request returns.
Update(t, r) ==
  /\ row' = r
  /\ task' = [u \in Tasks |-> IF u = t THEN IdleTask ELSE Outdated(u, r)]
  /\ clean' = (clean /\ task[t].fresh)
  /\ UNCHANGED kind

\* Only an entertainer has a kyc_status.
Kyc(s) == IF kind = "entertainer" THEN s ELSE row.kyc

-----------------------------------------------------------------------------
(* submitBankDetails *)

Differs(a) == row.account # a \/ ~row.coded

\* An entertainer's row is compared before banks.resolve is awaited ...
StartSubmit(t, a) ==
  /\ At(t, "idle")
  /\ IF kind = "entertainer" THEN Read(t, "submit", a, Differs(a)) ELSE Read(t, "banks", a, FALSE)

\* ... and a venue's is read once more after that.
ReadVenueAgain(t) ==
  /\ At(t, "banks")
  /\ Read(t, "submit", task[t].account, Differs(task[t].account))

\* Mutant: a new number keeps what was known of the old one.
SubmitBankDetailsKeeps(t) ==
  /\ At(t, "submit")
  /\ Update(t, [row EXCEPT !.account = task[t].account, !.coded = TRUE, !.named = TRUE,
                           !.kyc = Kyc("PENDING")])

SubmitBankDetails(t) ==
  /\ At(t, "submit")
  /\ LET submitted ==
           [row EXCEPT !.account = task[t].account, !.coded = TRUE, !.named = TRUE,
                       !.kyc = Kyc("PENDING")]
     IN  Update(t, IF task[t].changed
                   THEN [submitted EXCEPT !.name = "none", !.confirmed = FALSE]
                   ELSE submitted)

-----------------------------------------------------------------------------
(* resolveAccount *)

StartResolve(t) ==
  /\ At(t, "idle")
  /\ row.account # "none" /\ row.coded
  /\ Read(t, "resolve", row.account, FALSE)

\* The bank names the holder.
ResolveAccount(t) ==
  /\ At(t, "resolve")
  /\ Update(t, [row EXCEPT !.name = Holder[task[t].account], !.confirmed = FALSE,
                           !.kyc = Kyc("PENDING")])

\* It does not; what was resolved and confirmed before stays.
ResolveRefused(t) ==
  /\ At(t, "resolve")
  /\ Update(t, [row EXCEPT !.kyc = Kyc("FAILED")])

-----------------------------------------------------------------------------
(* confirmAccount *)

\* The name the owner confirms is the one that is stored.
StartConfirm(t) ==
  /\ At(t, "idle")
  /\ row.name # "none"
  /\ Read(t, "confirm", "none", FALSE)

\* The database lets nothing be confirmed that has no name.
ConfirmAccount(t) ==
  /\ At(t, "confirm")
  /\ row.name # "none"
  /\ Update(t, [row EXCEPT !.confirmed = TRUE, !.kyc = Kyc("PENDING")])

-----------------------------------------------------------------------------
(* verifyIdentity and decideReview, of an entertainer *)

\* Mutant: the account need not be confirmed.
StartVerifyAnyTime(t) ==
  /\ At(t, "idle")
  /\ kind = "entertainer"
  /\ row.kyc # "VERIFIED"
  /\ Read(t, "verify", "none", FALSE)

StartVerify(t) ==
  /\ At(t, "idle")
  /\ kind = "entertainer"
  /\ row.confirmed
  /\ row.kyc # "VERIFIED"
  /\ Read(t, "verify", "none", FALSE)

\* What becomes of the identity check of the provider.
Checks == {"unreachable", "not enabled", "refused", "mismatch", "blacklisted", "match"}

\* A check that was never made is neither a success nor a failure: a person decides.
StatusAfter(check) ==
  CASE check \in {"unreachable", "not enabled"} -> "REVIEW"
    [] check \in {"refused", "mismatch", "blacklisted"} -> "FAILED"
    [] check = "match" -> "VERIFIED"

VerifyIdentity(t) ==
  /\ At(t, "verify")
  /\ \E check \in Checks : Update(t, [row EXCEPT !.kyc = StatusAfter(check)])

\* An admin approves a review only of a confirmed account.
StartDecide(t, decision) ==
  /\ At(t, "idle")
  /\ row.kyc = "REVIEW"
  /\ decision = "approve" => row.confirmed
  /\ Read(t, decision, "none", FALSE)

DecideReview(t) ==
  /\ At(t, "approve") \/ At(t, "reject")
  /\ Update(t, [row EXCEPT !.kyc = IF At(t, "approve") THEN "VERIFIED" ELSE "FAILED"])

-----------------------------------------------------------------------------
(* Everything else *)

\* PATCH of an entertainer writes the number and the bank's name it is given, null and
\* empty ones too (a field that is not given keeps its value), and nothing else.
PatchAccount(a, named) ==
  /\ kind = "entertainer"
  /\ row' = [row EXCEPT !.account = a, !.named = named]
  /\ task' = [u \in Tasks |-> Outdated(u, row')]
  /\ clean' = (clean /\ (row.name = "none" \/ a = row.account))
  /\ UNCHANGED kind

\* A call or a statement throws, or the process dies.
Throw(t) ==
  /\ ~At(t, "idle")
  /\ task' = [task EXCEPT ![t] = IdleTask]
  /\ UNCHANGED <<kind, row, clean>>

Next ==
  \/ \E a \in Accounts \cup {"none"}, named \in BOOLEAN : PatchAccount(a, named)
  \/ \E t \in Tasks :
       \/ \E a \in Accounts : StartSubmit(t, a)
       \/ ReadVenueAgain(t) \/ SubmitBankDetails(t)
       \/ StartResolve(t) \/ ResolveAccount(t) \/ ResolveRefused(t)
       \/ StartConfirm(t) \/ ConfirmAccount(t)
       \/ StartVerify(t) \/ VerifyIdentity(t)
       \/ \E decision \in {"approve", "reject"} : StartDecide(t, decision)
       \/ DecideReview(t) \/ Throw(t)

Spec == Init /\ [][Next]_vars

-----------------------------------------------------------------------------
(* What others make of the row *)

\* toView: "True when payouts will actually be attempted".
PayoutsEnabled == row.confirmed /\ (kind = "entertainer" => row.kyc = "VERIFIED")

\* Mutant: whoever is VERIFIED has nothing left to do.
NextStepByStatus ==
  IF row.kyc = "VERIFIED" THEN "DONE"
  ELSE IF row.account = "none" \/ ~row.coded THEN "BANK_DETAILS"
  ELSE IF row.name = "none" THEN "RESOLVE_ACCOUNT"
  ELSE IF ~row.confirmed THEN "CONFIRM_ACCOUNT"
  ELSE IF kind = "venue" THEN "DONE" ELSE "VERIFY_IDENTITY"

\* nextStepFor: the first of the steps that is still to be done.
NextStep ==
  IF row.account = "none" \/ ~row.coded THEN "BANK_DETAILS"
  ELSE IF row.name = "none" THEN "RESOLVE_ACCOUNT"
  ELSE IF ~row.confirmed THEN "CONFIRM_ACCOUNT"
  ELSE IF kind = "venue" \/ row.kyc = "VERIFIED" THEN "DONE" ELSE "VERIFY_IDENTITY"

\* resolveDestination of the payouts service: hold until the gate is open; without the
\* bank's name, a number or a code the payout needs a human.  (Its guess of a code from
\* the bank's name is left out: what is confirmed has a code.)
Destination ==
  CASE ~PayoutsEnabled -> "hold"
    [] PayoutsEnabled /\ (~row.named \/ row.account = "none" \/ ~row.coded) -> "review"
    [] OTHER -> "send"

-----------------------------------------------------------------------------
(* Properties *)

\* Every variable has its type, and what is confirmed has a name.
TypeOK ==
  /\ kind \in {"entertainer", "venue"}
  /\ row \in Rows
  /\ row.confirmed => row.name # "none"
  /\ task \in [Tasks -> TaskStates]
  /\ clean \in BOOLEAN

\* "The name being confirmed must always be the name most recently returned" for the
\* account that is stored: as long as no update relied on an outdated row and no PATCH
\* moved the number underneath a name, a confirmed account is its holder's, whatever
\* else is submitted, resolved and confirmed concurrently.
ConfirmedIsTheHolder == clean /\ row.confirmed => row.name = Holder[row.account]

\* Under the same condition nobody is VERIFIED with an account nobody confirmed, but for
\* the entertainers who were verified before accounts were confirmed.
VerifiedIsConfirmed == clean /\ row.kyc = "VERIFIED" /\ row.coded => row.confirmed

\* A bank was submitted, and a PATCH took its name or the number away.
Emptied == row.coded /\ (row.account = "none" \/ ~row.named)

\* The owner is told that nothing is left to do, or that payouts are enabled, exactly when
\* a payout would be sent; in every interleaving, also with outdated updates, but for a
\* row that a PATCH emptied: then nothing is sent until the bank is submitted again,
\* whatever the owner is told.
ViewsAgree ==
  IF Emptied THEN Destination # "send"
  ELSE /\ NextStep = "DONE" <=> Destination = "send"
       /\ PayoutsEnabled <=> Destination = "send"
=============================================================================
