----------------------------- MODULE LoginLinks -----------------------------
(***************************************************************************)
(* How an entertainer signs in, and who is let through to her data:        *)
(* src/entertainer-auth/entertainer-auth.service.ts, the strategy that     *)
(* checks a token on every request, and the guards of the routes.          *)
(*                                                                         *)
(* A request is a task of several database statements, each atomic; other  *)
(* requests, and the admins' changes of the roster, come in between.       *)
(*                                                                         *)
(* Left out: the venues but one, the 12 hours of a session, passwords of   *)
(* admins (no code changes or deactivates their rows), and the tokens,     *)
(* which are unguessable: a link or a session is used by who was given it. *)
(***************************************************************************)
EXTENDS Integers

CONSTANTS
  Entertainers,  \* entertainers rows
  Links,         \* entertainer_login_tokens rows; their supply bounds a behaviour
  Tasks          \* concurrent requests

ASSUME PeopleAssumption ==
  /\ {"platform", "venue", "none"} \cap Entertainers = {}
  /\ "none" \notin Links

VARIABLES
  active,    \* entertainers.is_active
  performs,  \* whether a venue_entertainers row links her to the venue
  link,      \* the login tokens
  minted,    \* history: the sessions each link was exchanged for
  prior,     \* history: the links there were when the request that made a link began
  task,      \* the requests
  seen       \* history: per request, the facts that were true at some time during it

vars == <<active, performs, link, minted, prior, task, seen>>

Actors == {"platform", "venue"} \cup Entertainers
Operations == {"issue", "redeem", "read", "confirm"}
Facts == {"active", "performs", "unexpired"}

\* One row: while consumed_at is null, "live" or, LINK_TTL_MINUTES later, "expired".
LinkRows == [state : {"absent", "live", "expired", "consumed"}, owner : Entertainers \cup {"none"}]

TaskStates ==
  [pc : {"idle", "validate", "guard", "find", "supersede", "create", "check", "claim", "granted"},
   op : Operations, actor : Actors, who : Entertainers \cup {"none"}, link : Links \cup {"none"}, before : SUBSET Links]

IdleTask ==
  [pc |-> "idle", op |-> "read", actor |-> "platform",
   who |-> "none", link |-> "none", before |-> {}]

Exists(l) == link[l].state # "absent"
Unconsumed(l) == link[l].state \in {"live", "expired"}
HasSession(e) == \E l \in Links : link[l].owner = e /\ minted[l] > 0

Init ==
  /\ active = [e \in Entertainers |-> TRUE]
  /\ performs \in [Entertainers -> BOOLEAN]
  /\ link = [l \in Links |-> [state |-> "absent", owner |-> "none"]]
  /\ minted = [l \in Links |-> 0]
  /\ prior = [l \in Links |-> {}]
  /\ task = [t \in Tasks |-> IdleTask]
  /\ seen = [t \in Tasks |-> {}]

At(t, label) == task[t].pc = label
Goto(t, label) == task' = [task EXCEPT ![t].pc = label]
Leave(t) == task' = [task EXCEPT ![t] = IdleTask]

\* Goes on when a condition holds; otherwise the request is refused.
Require(t, condition, label) == IF condition THEN Goto(t, label) ELSE Leave(t)

roster == <<active, performs>>
tokens == <<link, minted, prior>>

-----------------------------------------------------------------------------
(* Authentication and guards *)

\* @Roles of the routes about one entertainer: her login links, her dashboard and KYC
\* status, and what only she may do, confirming her account and her identity.
IssueRoles == {"platform", "venue"}
ReadRoles == {"platform", "venue", "entertainer"}
ConfirmRoles == {"entertainer"}

\* RolesGuard
Roles(op) ==
  CASE op = "issue" -> IssueRoles [] op = "confirm" -> ConfirmRoles [] OTHER -> ReadRoles

\* An admin's request about entertainer e; the admin's own row never changes.
AdminRequest(t, op, role, e) ==
  /\ At(t, "idle")
  /\ role \in Roles(op)
  /\ task' = [task EXCEPT ![t] =
       [IdleTask EXCEPT !.pc = "guard", !.op = op, !.actor = role, !.who = e,
                        !.before = IF op = "issue" THEN {l \in Links : Exists(l)} ELSE {}]]
  /\ UNCHANGED <<roster, tokens>>

\* By holder, who has a session, about entertainer e.
EntertainerRequest(t, op, holder, e) ==
  /\ At(t, "idle")
  /\ "entertainer" \in Roles(op)
  /\ HasSession(holder)
  /\ task' = [task EXCEPT ![t] =
       [IdleTask EXCEPT !.pc = "validate", !.op = op, !.actor = holder, !.who = e]]
  /\ UNCHANGED <<roster, tokens>>

\* Mutant: the token is trusted until it expires.
ValidateTokenOnly(t) ==
  /\ At(t, "validate")
  /\ Goto(t, "guard")
  /\ UNCHANGED <<roster, tokens>>

\* JwtStrategy reads the entertainer of the token again.
Validate(t) ==
  /\ At(t, "validate")
  /\ Require(t, active[task[t].actor], "guard")
  /\ UNCHANGED <<roster, tokens>>

\* EntertainerScopedGuard: any for the platform, herself, or who performs at the venue.
InScope(actor, e) ==
  CASE actor = "platform" -> TRUE
    [] actor = "venue" -> performs[e]
    [] OTHER -> actor = e

Guard(t) ==
  /\ At(t, "guard")
  /\ Require(t, InScope(task[t].actor, task[t].who),
             IF task[t].op = "issue" THEN "find" ELSE "granted")
  /\ UNCHANGED <<roster, tokens>>

-----------------------------------------------------------------------------
(* issueLoginLink *)

FindEntertainer(t) ==
  /\ At(t, "find")
  /\ Require(t, active[task[t].who], "supersede")
  /\ UNCHANGED <<roster, tokens>>

\* Mutant: the outstanding links keep working.
SupersedeNone(t) ==
  /\ At(t, "supersede")
  /\ Goto(t, "create")
  /\ UNCHANGED <<roster, tokens>>

\* updateMany: her outstanding links are consumed, expired ones too.
Supersede(t) ==
  /\ At(t, "supersede")
  /\ link' = [l \in Links |-> IF Unconsumed(l) /\ link[l].owner = task[t].who
                              THEN [link[l] EXCEPT !.state = "consumed"] ELSE link[l]]
  /\ Goto(t, "create")
  /\ UNCHANGED <<roster, minted, prior>>

\* The new link; the answer carries its token.
CreateLink(t) ==
  /\ At(t, "create")
  /\ \E l \in Links :
       /\ ~Exists(l)
       /\ link' = [link EXCEPT ![l] = [state |-> "live", owner |-> task[t].who]]
       /\ prior' = [prior EXCEPT ![l] = task[t].before]
  /\ task' = [task EXCEPT ![t].pc = "granted", ![t].before = {}]
  /\ UNCHANGED <<roster, minted>>

-----------------------------------------------------------------------------
(* redeem *)

StartRedeem(t, l) ==
  /\ At(t, "idle")
  /\ Exists(l)
  /\ task' = [task EXCEPT ![t] =
       [IdleTask EXCEPT !.pc = "check", !.op = "redeem", !.who = link[l].owner, !.link = l]]
  /\ UNCHANGED <<roster, tokens>>

\* The row and its entertainer, and the three refusals.
CheckLink(t) ==
  /\ At(t, "check")
  /\ Require(t, link[task[t].link].state = "live" /\ active[task[t].who], "claim")
  /\ UNCHANGED <<roster, tokens>>

\* Mutant: the claim does not ask whether the link is still unconsumed.
ClaimAnyLink(t) ==
  /\ At(t, "claim")
  /\ link' = [link EXCEPT ![task[t].link].state = "consumed"]
  /\ minted' = [minted EXCEPT ![task[t].link] = @ + 1]
  /\ Goto(t, "granted")
  /\ UNCHANGED <<roster, prior>>

\* updateMany where consumedAt is null; only then a session is signed.
ClaimLink(t) ==
  /\ At(t, "claim")
  /\ IF Unconsumed(task[t].link)
     THEN /\ link' = [link EXCEPT ![task[t].link].state = "consumed"]
          /\ minted' = [minted EXCEPT ![task[t].link] = @ + 1]
          /\ Goto(t, "granted")
     ELSE Leave(t) /\ UNCHANGED <<link, minted>>
  /\ UNCHANGED <<roster, prior>>

\* The answer is sent.
Answer(t) ==
  /\ At(t, "granted")
  /\ Leave(t)
  /\ UNCHANGED <<roster, tokens>>

\* A statement throws, or the process dies.
Fail(t) ==
  /\ ~At(t, "idle") /\ ~At(t, "granted")
  /\ Leave(t)
  /\ UNCHANGED <<roster, tokens>>

-----------------------------------------------------------------------------
(* What changes beside the requests *)

\* deactivate, or an update that carries isActive.
SetActive(e, flag) ==
  /\ active' = [active EXCEPT ![e] = flag]
  /\ UNCHANGED <<performs, tokens, task>>

\* linkToVenue and unlinkFromVenue.
SetPerforms(e, flag) ==
  /\ performs' = [performs EXCEPT ![e] = flag]
  /\ UNCHANGED <<active, tokens, task>>

\* LINK_TTL_MINUTES have passed.
Expire(l) ==
  /\ link[l].state = "live"
  /\ link' = [link EXCEPT ![l].state = "expired"]
  /\ UNCHANGED <<roster, minted, prior, task>>

-----------------------------------------------------------------------------
Step ==
  \/ \E t \in Tasks :
       \/ \E op \in Operations \ {"redeem"} : \E e \in Entertainers :
            \/ \E role \in {"platform", "venue"} : AdminRequest(t, op, role, e)
            \/ \E holder \in Entertainers : EntertainerRequest(t, op, holder, e)
       \/ Validate(t) \/ Guard(t)
       \/ FindEntertainer(t) \/ Supersede(t) \/ CreateLink(t)
       \/ \E l \in Links : StartRedeem(t, l)
       \/ CheckLink(t) \/ ClaimLink(t) \/ Answer(t) \/ Fail(t)
  \/ \E e \in Entertainers : \E flag \in BOOLEAN : SetActive(e, flag) \/ SetPerforms(e, flag)
  \/ \E l \in Links : Expire(l)

\* What must have been true for a request to be granted.
Needs(k) ==
  {f \in Facts :
     \/ f = "active" /\ (k.op \in {"redeem", "issue"} \/ k.actor \in Entertainers)
     \/ f = "performs" /\ k.actor = "venue"
     \/ f = "unexpired" /\ k.op = "redeem"}

\* Those of the facts request k rests on that are true now.
FactsFor(k) ==
  {f \in Needs(k) :
     \/ f = "active" /\ active[k.who]
     \/ f = "performs" /\ performs[k.who]
     \/ f = "unexpired" /\ link[k.link].state = "live"}

\* Each request collects what was true from its start on.
Collect ==
  seen' = [t \in Tasks |->
    IF task'[t].pc = "idle" THEN {} ELSE seen[t] \cup FactsFor(task[t])']

Next == Step /\ Collect

Spec == Init /\ [][Next]_vars

-----------------------------------------------------------------------------
(* Properties *)

\* Every variable has its type.
TypeOK ==
  /\ active \in [Entertainers -> BOOLEAN]
  /\ performs \in [Entertainers -> BOOLEAN]
  /\ link \in [Links -> LinkRows]
  /\ minted \in [Links -> Nat]
  /\ prior \in [Links -> SUBSET Links]
  /\ task \in [Tasks -> TaskStates]
  /\ seen \in [Tasks -> SUBSET Facts]

\* "Two simultaneous taps cannot both mint a session": a link is exchanged once, however
\* its redemptions interleave.
OneSessionPerLink == \A l \in Links : minted[l] <= 1

\* Link n came of a request that began when l was already there, for the same entertainer.
Supersedes(n, l) == Exists(n) /\ l \in prior[n] /\ link[n].owner = link[l].owner

\* "An old one that leaked stops working the moment a new one is issued": no session is
\* minted from a link once a later request for a link of the same entertainer was answered,
\* not even by a redemption that had already checked it.  (Two requests that overlap may
\* each leave a working link.)
SupersededIsDead ==
  [][\A l, n \in Links : minted'[l] # minted[l] => ~Supersedes(n, l)]_vars

\* "Deactivating an entertainer locks them out immediately", and on the routes whose guard
\* checks the venue, it reaches only who performs there: whatever is granted, each fact it
\* rests on was true at some time during the request itself, and only she confirms her own
\* account.  (Routes that check the role alone are left out.)
EntitledDuringRequest ==
  \A t \in Tasks : At(t, "granted") =>
    /\ Needs(task[t]) \subseteq seen[t]
    /\ task[t].actor \in Entertainers => task[t].actor = task[t].who
    /\ task[t].op = "confirm" => task[t].actor = task[t].who
=============================================================================
