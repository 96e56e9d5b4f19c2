----------------------------- MODULE SplitTerms -----------------------------
(***************************************************************************)
(* What the rules of SplitRules say, and where the platform's share of     *)
(* them comes from: the checks of propose before its transaction, the      *)
(* validator of an override (src/split-rules), and the settings row        *)
(* (src/platform-settings/platform-settings.service.ts) that an admin may  *)
(* change meanwhile.                                                       *)
(*                                                                         *)
(* Left out: the parties of a rule, and the worked example and percentages *)
(* a proposal is shown with.                                               *)
(***************************************************************************)
EXTENDS SplitRules, FiniteSets

CONSTANTS
  Whole,       \* 10000 basis points
  Fees,        \* platform fees an admin may set
  DefaultFee,  \* DEFAULT_PLATFORM_FEE_BPS
  Offers       \* the shares a venue may ask for: pairs of the entertainer's and its own

ASSUME TermsAssumption ==
  /\ Whole \in Nat
  /\ Fees \subseteq 0 .. Whole
  /\ DefaultFee \in Fees
  /\ Offers \subseteq (0 .. Whole) \X (0 .. Whole)

VARIABLES
  settings,  \* the fee in the settings row; empty where there is no row
  request,   \* per task, the terms of its propose or override
  terms,     \* the terms of the committed rules
  inForce,   \* history: the fees there were since a request began
  overtaken  \* history: another rule came into force since the task read the active ones

termVars == <<settings, request, terms>>
allVars == <<vars, termVars, inForce, overtaken>>

RequestStates ==
  [pc : {"none", "fee", "heal", "check", "run"}, entertainer : 0 .. Whole, venue : 0 .. Whole,
   platform : 0 .. Whole]

NoRequest == [pc |-> "none", entertainer |-> 0, venue |-> 0, platform |-> 0]

InitAll ==
  /\ Init
  /\ settings \in {{}, {DefaultFee}}
  /\ request = [t \in Tasks |-> NoRequest]
  /\ terms = [r \in Rules |-> NoRequest]
  /\ inForce = [t \in Tasks |-> {}]
  /\ overtaken = [t \in Tasks |-> FALSE]

Asks(t, label) == At(t, "idle") /\ request[t].pc = label

-----------------------------------------------------------------------------
(* Platform settings *)

\* get: a missing row is created with the default fee.
Get ==
  /\ settings = {}
  /\ settings' = {DefaultFee}
  /\ UNCHANGED <<request, terms>>

\* update, once its own get has returned.
UpdateFee(f) ==
  /\ settings # {}
  /\ settings' = {f}
  /\ UNCHANGED <<request, terms>>

-----------------------------------------------------------------------------
(* propose, up to its transaction *)

Ask(t, offer) ==
  /\ Asks(t, "none")
  /\ request' = [request EXCEPT ![t] =
       [NoRequest EXCEPT !.pc = "fee", !.entertainer = offer[1], !.venue = offer[2]]]
  /\ UNCHANGED <<settings, terms>>

\* getPlatformFeeBps; the shares asked for must be what the fee leaves.
Charge(t, f) ==
  request' = [request EXCEPT ![t] =
    IF request[t].entertainer + request[t].venue # Whole - f THEN NoRequest
    ELSE [request[t] EXCEPT !.pc = "check", !.platform = f]]

ReadFee(t) ==
  /\ Asks(t, "fee")
  /\ IF settings = {} THEN request' = [request EXCEPT ![t].pc = "heal"]
     ELSE \E f \in settings : Charge(t, f)
  /\ UNCHANGED <<settings, terms>>

\* The row is created, unless another request has created it.
HealFee(t) ==
  /\ Asks(t, "heal")
  /\ IF settings = {} THEN settings' = {DefaultFee} /\ Charge(t, DefaultFee)
     ELSE request' = [request EXCEPT ![t] = NoRequest] /\ UNCHANGED settings
  /\ UNCHANGED terms

\* The entertainer is not there or not linked to the venue, or the process dies.
Refuse(t) ==
  /\ At(t, "idle") /\ request[t].pc # "none"
  /\ request' = [request EXCEPT ![t] = NoRequest]
  /\ UNCHANGED <<settings, terms>>

Propose(t) ==
  /\ Asks(t, "check")
  /\ StartPropose(t)
  /\ request' = [request EXCEPT ![t].pc = "run"]
  /\ UNCHANGED <<settings, terms>>

-----------------------------------------------------------------------------
(* override, and the transactions *)

\* SplitRuleSumValidator
SharesAreWhole(offer, f) == offer[1] + offer[2] + f = Whole

\* An override sets all three shares.
Override(t, offer, f) ==
  /\ Asks(t, "none")
  /\ SharesAreWhole(offer, f)
  /\ StartOverride(t)
  /\ request' = [request EXCEPT ![t] =
       [NoRequest EXCEPT !.pc = "run", !.entertainer = offer[1], !.venue = offer[2],
                         !.platform = f]]
  /\ UNCHANGED <<settings, terms>>

\* Mutant: the fee of the moment is written beside the shares that were checked.
StampLate(t) == [request[t] EXCEPT !.platform = CHOOSE f \in Fees : settings \subseteq {f}]

\* What create writes of a rule.
Stamp(t) == request[t]

\* The new rows of a transaction carry the terms of its request.
Record(t) ==
  terms' = [r \in Rules |->
    IF status[r] = "absent" /\ status'[r] # "absent" THEN Stamp(t) ELSE terms[r]]

Transact(t) ==
  /\ \/ Withdraw(t) \/ InsertRule(t) \/ Claim(t) \/ FindOutgoing(t) \/ CloseOut(t)
     \/ ClosedOut(t) \/ Commit(t) \/ Rollback(t)
     \/ \E r \in Rules : \E decision \in {"ACCEPT", "REJECT"} :
          request[t].pc = "none" /\ StartRespond(t, r, decision)
  /\ Record(t)
  /\ request' = [request EXCEPT ![t] = IF task'[t].pc = "idle" THEN NoRequest ELSE @]
  /\ UNCHANGED settings

-----------------------------------------------------------------------------
Step ==
  \/ \E t \in Tasks :
       \/ \E offer \in Offers : Ask(t, offer) /\ UNCHANGED vars
       \/ (ReadFee(t) \/ HealFee(t) \/ Refuse(t)) /\ UNCHANGED vars
       \/ Propose(t)
       \/ \E offer \in Offers : \E f \in Fees : Override(t, offer, f)
       \/ Transact(t)
  \/ (Get \/ \E f \in Fees : UpdateFee(f)) /\ UNCHANGED vars

Started == {r \in Rules : status[r] # "ACTIVE" /\ status'[r] = "ACTIVE"}

\* The fees during a request, and whether a rule came into force between closeOutActive's
\* findMany and the end of its transaction.
Watch ==
  /\ inForce' = [t \in Tasks |->
       IF request'[t].pc = "none" THEN {} ELSE inForce[t] \cup settings \cup settings']
  /\ overtaken' = [t \in Tasks |->
       /\ task[t].pc \in {"close", "insert", "commit"}
       /\ task[t].kind \in {"override", "ACCEPT"}
       /\ task'[t].pc # "idle"
       /\ overtaken[t] \/ Started # {}]

NextAll == Step /\ Watch

SpecAll == InitAll /\ [][NextAll]_allVars

-----------------------------------------------------------------------------
(* Properties *)

\* "There is never a moment with two active rules", as far as READ COMMITTED keeps it: an
\* override or an acceptance that no other rule overtook between its look at the active
\* rules and its commit leaves its own rule as the only one, also where an earlier race had
\* left two.
UnopposedDecisionLeavesOne ==
  [][\A t \in Tasks :
       Commit(t) /\ task[t].kind \in {"override", "ACCEPT"} /\ ~overtaken[t] =>
         /\ Cardinality(Active') = 1
         /\ task[t].kind = "ACCEPT" => Active' = {task[t].rule}]_allVars

\* Of every new rule the three shares are the whole, and a proposal charges a fee that was in
\* force while it was made, however the fee moves between the check and the insertion.
TermsAreSound ==
  [][\A t \in Tasks : \A r \in Rules :
       Commit(t) /\ status[r] = "absent" /\ status'[r] # "absent" =>
         /\ terms'[r].entertainer + terms'[r].venue + terms'[r].platform = Whole
         /\ status'[r] = "OPEN" => terms'[r].platform \in inForce[t]]_allVars
=============================================================================
