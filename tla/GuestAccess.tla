---------------------------- MODULE GuestAccess ----------------------------
(***************************************************************************)
(* From a QR code on the table to a payment that may be started: the codes *)
(* (src/qr-codes/qr-codes.service.ts), the guest's session (src/guest), the*)
(* checks before a payment (src/payments/payments.service.ts), and the     *)
(* admins who meanwhile retire codes, performers and the venue.            *)
(*                                                                         *)
(* A request is a task of several statements or one transaction; what a    *)
(* transaction writes is seen when it commits.  A find with what it        *)
(* includes is one step; if it is answered by several queries, each fact   *)
(* is read at its own moment of the request, which is all that is said of  *)
(* it.  Waiting for a row lock is left out: a code is only turned off.     *)
(*                                                                         *)
(* One venue.  Left out: who the admin is, the names and places shown to   *)
(* the guest, and what follows the creation of a payment (Settlement).     *)
(***************************************************************************)
EXTENDS Integers

CONSTANTS
  Performers,  \* entertainers rows
  Codes,       \* qr_codes rows; their supply bounds a behaviour
  Sessions,    \* guest_sessions rows; likewise
  Tasks        \* concurrent requests

ASSUME NamesAssumption ==
  "none" \notin Performers /\ "none" \notin Codes /\ "none" \notin Sessions

VARIABLES
  venueActive,  \* venues.is_active
  hasRule,      \* the venue has an active split rule
  active,       \* entertainers.is_active
  performs,     \* linked to the venue by a venue_entertainers row
  code,         \* the QR codes
  session,      \* the guest sessions
  retired,      \* history: the codes that an answered request was to turn off
  task,         \* the requests
  seen          \* history: per request, the facts that were true at some time during it

vars == <<venueActive, hasRule, active, performs, code, session, retired, task, seen>>

roster == <<venueActive, hasRule, active, performs>>

Facts == {"code", "venue", "performer", "session", "rule", "performs"}
Operations == {"none", "create", "deactivateCode", "regenerate", "deactivatePerformer", "scan", "pay"}

\* is_active, and the performer the code is of, if any.
CodeRows == [state : {"absent", "on", "off"}, performer : Performers \cup {"none"}]
SessionRows == [state : {"absent", "open", "expired"}, code : Codes \cup {"none"}]

\* todo: the codes to turn off at commit; before: those there were at the start.
TaskStates ==
  [pc : {"idle", "check", "load", "rule", "codes", "insert", "commit", "granted"},
   op : Operations, who : Performers \cup {"none"}, code : Codes \cup {"none"},
   session : Sessions \cup {"none"}, todo : SUBSET Codes, before : SUBSET Codes]

IdleTask ==
  [pc |-> "idle", op |-> "none", who |-> "none", code |-> "none", session |-> "none",
   todo |-> {}, before |-> {}]

Init ==
  /\ venueActive = TRUE
  /\ hasRule \in BOOLEAN
  /\ active = [e \in Performers |-> TRUE]
  /\ performs = [e \in Performers |-> TRUE]
  /\ code = [c \in Codes |-> [state |-> "absent", performer |-> "none"]]
  /\ session = [s \in Sessions |-> [state |-> "absent", code |-> "none"]]
  /\ retired = {}
  /\ task = [t \in Tasks |-> IdleTask]
  /\ seen = [t \in Tasks |-> {}]

At(t, label) == task[t].pc = label
Goto(t, label) == task' = [task EXCEPT ![t].pc = label]
Leave(t) == task' = [task EXCEPT ![t] = IdleTask]

\* Goes on when a condition holds; otherwise the request is refused.
Require(t, condition, label) == IF condition THEN Goto(t, label) ELSE Leave(t)

\* A request begins.
Begin(t, request) ==
  /\ At(t, "idle")
  /\ task' = [task EXCEPT ![t] = request]

Exists(c) == code[c].state # "absent"
IsOn(c) == code[c].state = "on"
CodesOf(e) == {c \in Codes : Exists(c) /\ code[c].performer = e}
PerformerActive(c) == code[c].performer = "none" \/ active[code[c].performer]

TurnOff(S) == [c \in Codes |-> IF c \in S THEN [code[c] EXCEPT !.state = "off"] ELSE code[c]]

-----------------------------------------------------------------------------
(* QR codes *)

\* For the venue itself, or for a performer.
StartCreate(t, e) ==
  /\ Begin(t, [IdleTask EXCEPT !.pc = "check", !.op = "create", !.who = e])
  /\ UNCHANGED <<roster, code, session, retired>>

\* The venue is there; a performer must be linked to it.  Neither need be active.
CheckPerformer(t) ==
  /\ At(t, "check")
  /\ Require(t, task[t].who = "none" \/ performs[task[t].who], "insert")
  /\ UNCHANGED <<roster, code, session, retired>>

InsertCode(t) ==
  /\ At(t, "insert") /\ task[t].op = "create"
  /\ \E c \in Codes :
       /\ ~Exists(c)
       /\ code' = [code EXCEPT ![c] = [state |-> "on", performer |-> task[t].who]]
  /\ Goto(t, "granted")
  /\ UNCHANGED <<roster, session, retired>>

StartDeactivateCode(t, c) ==
  /\ Exists(c)
  /\ Begin(t, [IdleTask EXCEPT !.pc = "commit", !.op = "deactivateCode", !.code = c])
  /\ UNCHANGED <<roster, code, session, retired>>

DeactivateCode(t) ==
  /\ At(t, "commit") /\ task[t].op = "deactivateCode"
  /\ code' = TurnOff({task[t].code})
  /\ retired' = retired \cup {task[t].code}
  /\ Leave(t)
  /\ UNCHANGED <<roster, session>>

StartRegenerate(t, c) ==
  /\ Exists(c)
  /\ Begin(t, [IdleTask EXCEPT !.pc = "commit", !.op = "regenerate", !.code = c])
  /\ UNCHANGED <<roster, code, session, retired>>

\* Mutant: the old code is only stamped, and stays on.
RegenerateKeepingOld(t) ==
  /\ At(t, "commit") /\ task[t].op = "regenerate"
  /\ \E c \in Codes :
       /\ ~Exists(c)
       /\ code' = [code EXCEPT ![c] =
            [state |-> "on", performer |-> code[task[t].code].performer]]
  /\ retired' = retired \cup {task[t].code}
  /\ Leave(t)
  /\ UNCHANGED <<roster, session>>

\* Off with the old code, whatever it was, and on with a new one of the same performer.
Regenerate(t) ==
  /\ At(t, "commit") /\ task[t].op = "regenerate"
  /\ \E c \in Codes :
       /\ ~Exists(c)
       /\ code' = [TurnOff({task[t].code}) EXCEPT ![c] =
            [state |-> "on", performer |-> code[task[t].code].performer]]
  /\ retired' = retired \cup {task[t].code}
  /\ Leave(t)
  /\ UNCHANGED <<roster, session>>

-----------------------------------------------------------------------------
(* entertainers.service: deactivate, one transaction *)

StartDeactivatePerformer(t, e) ==
  /\ Begin(t, [IdleTask EXCEPT !.pc = "codes", !.op = "deactivatePerformer", !.who = e,
                               !.before = CodesOf(e)])
  /\ UNCHANGED <<roster, code, session, retired>>

\* updateMany of the codes it finds; a code that is inserted later is not among them.
FindCodes(t) ==
  /\ At(t, "codes")
  /\ task' = [task EXCEPT ![t].pc = "commit", ![t].todo = CodesOf(task[t].who)]
  /\ UNCHANGED <<roster, code, session, retired>>

DeactivatePerformer(t) ==
  /\ At(t, "commit") /\ task[t].op = "deactivatePerformer"
  /\ active' = [active EXCEPT ![task[t].who] = FALSE]
  /\ code' = TurnOff(task[t].todo)
  /\ retired' = retired \cup task[t].before
  /\ Leave(t)
  /\ UNCHANGED <<venueActive, hasRule, performs, session>>

-----------------------------------------------------------------------------
(* guest.service: resolveQrCode *)

StartScan(t, c) ==
  /\ Exists(c)
  /\ Begin(t, [IdleTask EXCEPT !.pc = "load", !.op = "scan", !.code = c])
  /\ UNCHANGED <<roster, code, session, retired>>

\* The code with its venue and performer, and the three refusals.
Resolve(t) ==
  /\ At(t, "load") /\ task[t].op = "scan"
  /\ Require(t, IsOn(task[t].code) /\ venueActive /\ PerformerActive(task[t].code), "insert")
  /\ UNCHANGED <<roster, code, session, retired>>

InsertSession(t) ==
  /\ At(t, "insert") /\ task[t].op = "scan"
  /\ \E s \in Sessions :
       /\ session[s].state = "absent"
       /\ session' = [session EXCEPT ![s] = [state |-> "open", code |-> task[t].code]]
  /\ Goto(t, "granted")
  /\ UNCHANGED <<roster, code, retired>>

-----------------------------------------------------------------------------
(* payments.service: initializePayment, up to the row *)

StartPay(t, s) ==
  /\ session[s].state # "absent"
  /\ Begin(t, [IdleTask EXCEPT !.pc = "load", !.op = "pay", !.session = s,
                               !.code = session[s].code])
  /\ UNCHANGED <<roster, code, session, retired>>

\* Mutant: a session stands for the code it was opened with.
LoadSessionOnly(t) ==
  /\ At(t, "load") /\ task[t].op = "pay"
  /\ Require(t, session[task[t].session].state = "open" /\ venueActive, "rule")
  /\ UNCHANGED <<roster, code, session, retired>>

\* The session with its code, venue and performer, all of them checked again.
LoadSession(t) ==
  /\ At(t, "load") /\ task[t].op = "pay"
  /\ Require(t, /\ session[task[t].session].state = "open"
                /\ IsOn(task[t].code)
                /\ venueActive
                /\ PerformerActive(task[t].code), "rule")
  /\ UNCHANGED <<roster, code, session, retired>>

\* findActiveByVenue: "no active split rule for the venue = no payment".
FindRule(t) ==
  /\ At(t, "rule")
  /\ Require(t, hasRule, "insert")
  /\ UNCHANGED <<roster, code, session, retired>>

InsertPayment(t) ==
  /\ At(t, "insert") /\ task[t].op = "pay"
  /\ Goto(t, "granted")
  /\ UNCHANGED <<roster, code, session, retired>>

\* The answer is sent.
Answer(t) ==
  /\ At(t, "granted")
  /\ Leave(t)
  /\ UNCHANGED <<roster, code, session, retired>>

\* A statement throws, or the process dies: what is not committed is undone.
Fail(t) ==
  /\ ~At(t, "idle") /\ ~At(t, "granted")
  /\ Leave(t)
  /\ UNCHANGED <<roster, code, session, retired>>

-----------------------------------------------------------------------------
(* What changes beside the requests *)

\* venues.service: deactivate, or an update that carries isActive.
SetVenueActive(flag) ==
  /\ venueActive' = flag
  /\ UNCHANGED <<hasRule, active, performs, code, session, retired, task>>

\* entertainers.service: an update that carries isActive touches no code.
SetActive(e, flag) ==
  /\ active' = [active EXCEPT ![e] = flag]
  /\ UNCHANGED <<venueActive, hasRule, performs, code, session, retired, task>>

\* linkToVenue; unlinkFromVenue leaves the codes alone.
SetPerforms(e, flag) ==
  /\ performs' = [performs EXCEPT ![e] = flag]
  /\ UNCHANGED <<venueActive, hasRule, active, code, session, retired, task>>

\* The first split rule comes into force; there is always one afterwards (SplitRules).
AgreeRule ==
  /\ hasRule' = TRUE
  /\ UNCHANGED <<venueActive, active, performs, code, session, retired, task>>

\* 24 hours have passed.
ExpireSession(s) ==
  /\ session[s].state = "open"
  /\ session' = [session EXCEPT ![s].state = "expired"]
  /\ UNCHANGED <<roster, code, retired, task>>

-----------------------------------------------------------------------------
Step ==
  \/ \E t \in Tasks :
       \/ \E e \in Performers \cup {"none"} : StartCreate(t, e)
       \/ CheckPerformer(t) \/ InsertCode(t)
       \/ \E c \in Codes : StartDeactivateCode(t, c) \/ StartRegenerate(t, c) \/ StartScan(t, c)
       \/ DeactivateCode(t) \/ Regenerate(t)
       \/ \E e \in Performers : StartDeactivatePerformer(t, e)
       \/ FindCodes(t) \/ DeactivatePerformer(t)
       \/ Resolve(t) \/ InsertSession(t)
       \/ \E s \in Sessions : StartPay(t, s)
       \/ LoadSession(t) \/ FindRule(t) \/ InsertPayment(t)
       \/ Answer(t) \/ Fail(t)
  \/ \E flag \in BOOLEAN :
       \/ SetVenueActive(flag)
       \/ \E e \in Performers : SetActive(e, flag) \/ SetPerforms(e, flag)
  \/ AgreeRule
  \/ \E s \in Sessions : ExpireSession(s)

\* What must have been true for a request to be granted.
Needs(k) ==
  CASE k.op = "scan" -> {"code", "venue", "performer"}
    [] k.op = "pay" -> {"code", "venue", "performer", "session", "rule"}
    [] k.op = "create" /\ k.who # "none" -> {"performs"}
    [] OTHER -> {}

\* Those of them that are true now.
FactsFor(k) ==
  {f \in Needs(k) :
     \/ f = "code" /\ IsOn(k.code)
     \/ f = "venue" /\ venueActive
     \/ f = "performer" /\ PerformerActive(k.code)
     \/ f = "session" /\ session[k.session].state = "open"
     \/ f = "rule" /\ hasRule
     \/ f = "performs" /\ performs[k.who]}

\* Each request collects what was true from its start on.
Collect ==
  seen' = [t \in Tasks |->
    IF task'[t].pc = "idle" THEN {} ELSE seen[t] \cup FactsFor(task[t])']

Next == Step /\ Collect

Spec == Init /\ [][Next]_vars

-----------------------------------------------------------------------------
(* Properties *)

\* Every variable has its type.
TypeOK ==
  /\ venueActive \in BOOLEAN /\ hasRule \in BOOLEAN
  /\ active \in [Performers -> BOOLEAN] /\ performs \in [Performers -> BOOLEAN]
  /\ code \in [Codes -> CodeRows]
  /\ session \in [Sessions -> SessionRows]
  /\ retired \subseteq Codes
  /\ task \in [Tasks -> TaskStates]
  /\ seen \in [Tasks -> SUBSET Facts]

\* A code that was deactivated or replaced, and every code a performer had when an admin
\* asked to deactivate her, is off for good once the request was answered: neither
\* another request under way then, nor her return, puts it back on.
RetiredCodesAreOff == \A c \in retired : code[c].state = "off"

\* A guest is let in, and a payment is started, only on facts that were true at some time
\* during that very request: an open session is no pass for a code, a performer or a venue
\* that was retired before it, and without a split rule no payment exists.
EntitledDuringRequest ==
  \A t \in Tasks : At(t, "granted") => Needs(task[t]) \subseteq seen[t]
=============================================================================
