-------------------------- MODULE GuestAccessProofs --------------------------
(* What TLAPS proves of GuestAccess, for any performers, codes, sessions and   *)
(* concurrent requests: a retired code stays off, and what a request grants    *)
(* rests on facts that were true while it ran.                                 *)
EXTENDS GuestAccess, TLAPS

-----------------------------------------------------------------------------
(* The inductive invariant *)

IsOff(c) == code[c].state = "off"

\* What a request k knows of the codes it is to turn off.  A performer's codes are read
\* when her deactivation begins and again by its updateMany, which misses none of them.
CodesKnown(k) ==
  /\ k.op \in {"deactivateCode", "regenerate"} => k.code \in Codes /\ Exists(k.code)
  /\ k.op = "deactivatePerformer" =>
       /\ k.who \in Performers
       /\ \A c \in k.before : Exists(c) /\ code[c].performer = k.who
       /\ k.pc = "commit" => k.before \subseteq k.todo

\* Which operation is at each stage of a request k, and the facts s it has seen by then.
StageOK(k, s) ==
  /\ k.pc = "check" => k.op = "create"
  /\ k.pc = "load" => k.op \in {"scan", "pay"}
  /\ k.pc = "rule" => k.op = "pay" /\ {"code", "venue", "performer", "session"} \subseteq s
  /\ k.pc = "codes" => k.op = "deactivatePerformer"
  /\ k.pc \in {"insert", "granted"} => k.op \in {"create", "scan", "pay"} /\ Needs(k) \subseteq s

TasksOK == \A t \in Tasks : CodesKnown(task[t]) /\ StageOK(task[t], seen[t])

IInv == TypeOK /\ RetiredCodesAreOff /\ TasksOK

\* No code disappears, changes hands or comes back on.
CodesGrow ==
  \A c \in Codes : Exists(c) =>
    /\ Exists(c)' /\ code'[c].performer = code[c].performer
    /\ IsOff(c) => IsOff(c)'

\* The types of what a step writes, but for seen.
StepTypes ==
  /\ venueActive' \in BOOLEAN /\ hasRule' \in BOOLEAN
  /\ active' \in [Performers -> BOOLEAN] /\ performs' \in [Performers -> BOOLEAN]
  /\ code' \in [Codes -> CodeRows]
  /\ session' \in [Sessions -> SessionRows]
  /\ retired' \subseteq Codes
  /\ task' \in [Tasks -> TaskStates]

Labels == {"insert", "rule", "granted"}

-----------------------------------------------------------------------------
(* Types *)

\* Beginning, moving on, being refused and leaving keep the type of a task.
LEMMA TaskTypes ==
  ASSUME TypeOK, NEW t \in Tasks
  PROVE  /\ IdleTask \in TaskStates
         /\ Leave(t) => task' \in [Tasks -> TaskStates]
         /\ \A k \in TaskStates : Begin(t, k) => task' \in [Tasks -> TaskStates]
         /\ \A label \in Labels :
              /\ Goto(t, label) => task' \in [Tasks -> TaskStates]
              /\ \A c : Require(t, c, label) => task' \in [Tasks -> TaskStates]
<1>1. IdleTask \in TaskStates
  BY DEF IdleTask, TaskStates, Operations
<1>2. Leave(t) => task' \in [Tasks -> TaskStates]
  BY <1>1 DEF Leave, TypeOK
<1>3. ASSUME NEW label \in Labels, Goto(t, label)
      PROVE  task' \in [Tasks -> TaskStates]
  <2>1. [task[t] EXCEPT !.pc = label] \in TaskStates
    BY DEF TypeOK, TaskStates, Labels
  <2>2. task' = [task EXCEPT ![t] = [task[t] EXCEPT !.pc = label]]
    BY <1>3 DEF Goto
  <2> DEFINE k == [task[t] EXCEPT !.pc = label]
  <2>3. k \in TaskStates /\ task' = [task EXCEPT ![t] = k] /\ task \in [Tasks -> TaskStates]
    BY <2>1, <2>2 DEF TypeOK
  <2> HIDE DEF k
  <2>4. QED
    BY <2>3
<1>4. \A k \in TaskStates : Begin(t, k) => task' \in [Tasks -> TaskStates]
  BY DEF Begin, TypeOK
<1>5. QED
  BY <1>1, <1>2, <1>3, <1>4 DEF Require

\* The requests there are.
LEMMA RequestTypes ==
  ASSUME TypeOK
  PROVE  /\ \A e \in Performers \cup {"none"} :
              [IdleTask EXCEPT !.pc = "check", !.op = "create", !.who = e] \in TaskStates
         /\ \A op \in {"deactivateCode", "regenerate"}, c \in Codes :
              [IdleTask EXCEPT !.pc = "commit", !.op = op, !.code = c] \in TaskStates
         /\ \A e \in Performers :
              [IdleTask EXCEPT !.pc = "codes", !.op = "deactivatePerformer", !.who = e,
                               !.before = CodesOf(e)] \in TaskStates
         /\ \A c \in Codes :
              [IdleTask EXCEPT !.pc = "load", !.op = "scan", !.code = c] \in TaskStates
         /\ \A s \in Sessions :
              [IdleTask EXCEPT !.pc = "load", !.op = "pay", !.session = s,
                               !.code = session[s].code] \in TaskStates
<1>1. \A e \in Performers : CodesOf(e) \subseteq Codes
  BY DEF CodesOf
<1>2. \A s \in Sessions : session[s].code \in Codes \cup {"none"}
  BY DEF TypeOK, SessionRows
<1>3. QED
  BY <1>1, <1>2 DEF IdleTask, TaskStates, Operations

\* What TurnOff does to each code.
LEMMA TurnedOff ==
  ASSUME TypeOK, NEW S
  PROVE  /\ TurnOff(S) \in [Codes -> CodeRows]
         /\ \A c \in Codes : /\ TurnOff(S)[c].performer = code[c].performer
                             /\ TurnOff(S)[c].state = IF c \in S THEN "off" ELSE code[c].state
<1>1. \A c \in Codes : code[c] \in CodeRows
  BY DEF TypeOK
<1>2. QED
  BY <1>1 DEF TurnOff, CodeRows

\* Every request and every admin leaves every variable in its type.
LEMMA StepKeepsTypes == IInv /\ Step => StepTypes
<1> SUFFICES ASSUME TypeOK, TasksOK, Step PROVE StepTypes
  BY DEF IInv
<1> USE DEF TypeOK, StepTypes, roster
<1>0. \A t \in Tasks : task[t].op \in {"deactivateCode", "regenerate"} => task[t].code \in Codes
  BY DEF TasksOK, CodesKnown
<1>1. ASSUME NEW t \in Tasks, NEW e \in Performers \cup {"none"}, StartCreate(t, e) PROVE StepTypes
  BY <1>1, TaskTypes, RequestTypes DEF StartCreate
<1>2. ASSUME NEW t \in Tasks, NEW c \in Codes,
             StartDeactivateCode(t, c) \/ StartRegenerate(t, c) \/ StartScan(t, c)
      PROVE  StepTypes
  BY <1>2, TaskTypes, RequestTypes DEF StartDeactivateCode, StartRegenerate, StartScan
<1>3. ASSUME NEW t \in Tasks, NEW e \in Performers, StartDeactivatePerformer(t, e) PROVE StepTypes
  BY <1>3, TaskTypes, RequestTypes DEF StartDeactivatePerformer
<1>4. ASSUME NEW t \in Tasks, NEW s \in Sessions, StartPay(t, s) PROVE StepTypes
  BY <1>4, TaskTypes, RequestTypes DEF StartPay
<1>5. ASSUME NEW t \in Tasks,
             \/ CheckPerformer(t) \/ Resolve(t) \/ LoadSession(t) \/ FindRule(t)
             \/ InsertPayment(t) \/ Answer(t) \/ Fail(t)
      PROVE  StepTypes
  BY <1>5, TaskTypes DEF CheckPerformer, Resolve, LoadSession, FindRule, InsertPayment, Answer, Fail, Labels
<1>6. ASSUME NEW t \in Tasks, InsertCode(t) PROVE StepTypes
  <2>1. task' \in [Tasks -> TaskStates]
    BY <1>6, TaskTypes DEF InsertCode, Labels
  <2>2. task[t].who \in Performers \cup {"none"}
    BY DEF TaskStates
  <2>3. code' \in [Codes -> CodeRows]
    BY <1>6, <2>2 DEF InsertCode, CodeRows
  <2>4. QED
    BY <1>6, <2>1, <2>3 DEF InsertCode
<1>7. ASSUME NEW t \in Tasks, DeactivateCode(t) PROVE StepTypes
  BY <1>0, <1>7, TaskTypes, TurnedOff DEF DeactivateCode
<1>8. ASSUME NEW t \in Tasks, Regenerate(t) PROVE StepTypes
  <2>1. PICK c \in Codes : code' = [TurnOff({task[t].code}) EXCEPT ![c] =
                             [state |-> "on", performer |-> code[task[t].code].performer]]
    BY <1>8 DEF Regenerate
  <2>2. [state |-> "on", performer |-> code[task[t].code].performer] \in CodeRows
    BY <1>0, <1>8 DEF Regenerate, CodeRows
  <2>3. code' \in [Codes -> CodeRows]
    BY <2>1, <2>2, TurnedOff
  <2>4. task' \in [Tasks -> TaskStates]
    BY <1>8, TaskTypes DEF Regenerate
  <2>5. retired' \subseteq Codes
    BY <1>0, <1>8 DEF Regenerate
  <2>6. UNCHANGED <<venueActive, hasRule, active, performs, session>>
    BY <1>8 DEF Regenerate, roster
  <2>7. QED
    BY <2>3, <2>4, <2>5, <2>6
<1>9. ASSUME NEW t \in Tasks, FindCodes(t) PROVE StepTypes
  <2> DEFINE k == [task[t] EXCEPT !.pc = "commit", !.todo = CodesOf(task[t].who)]
  <2>1. k \in TaskStates
    BY DEF TaskStates, CodesOf
  <2>2. task' = [task EXCEPT ![t] = k]
    BY <1>9 DEF FindCodes
  <2> HIDE DEF k
  <2>3. QED
    BY <1>9, <2>1, <2>2 DEF FindCodes
<1>10. ASSUME NEW t \in Tasks, DeactivatePerformer(t) PROVE StepTypes
  <2>1. task[t].before \subseteq Codes
    BY DEF TaskStates
  <2>2. QED
    BY <1>10, <2>1, TaskTypes, TurnedOff DEF DeactivatePerformer
<1>11. ASSUME NEW t \in Tasks, InsertSession(t) PROVE StepTypes
  <2>1. task' \in [Tasks -> TaskStates]
    BY <1>11, TaskTypes DEF InsertSession, Labels
  <2>2. task[t].code \in Codes \cup {"none"}
    BY DEF TaskStates
  <2>3. session' \in [Sessions -> SessionRows]
    BY <1>11, <2>2 DEF InsertSession, SessionRows
  <2>4. QED
    BY <1>11, <2>1, <2>3 DEF InsertSession
<1>12. ASSUME NEW flag \in BOOLEAN,
              \/ SetVenueActive(flag) \/ AgreeRule
              \/ \E e \in Performers : SetActive(e, flag) \/ SetPerforms(e, flag)
       PROVE  StepTypes
  BY <1>12 DEF SetVenueActive, AgreeRule, SetActive, SetPerforms
<1>13. ASSUME NEW s \in Sessions, ExpireSession(s) PROVE StepTypes
  BY <1>13 DEF ExpireSession, SessionRows
<1>14. QED
  BY <1>1, <1>2, <1>3, <1>4, <1>5, <1>6, <1>7, <1>8, <1>9, <1>10, <1>11, <1>12, <1>13 DEF Step

-----------------------------------------------------------------------------
(* Codes *)

\* A step loses no code and puts none back on, and what it retires is off.
LEMMA StepKeepsCodes == IInv /\ Step => RetiredCodesAreOff' /\ CodesGrow
<1> SUFFICES ASSUME IInv, Step PROVE RetiredCodesAreOff' /\ CodesGrow
  OBVIOUS
<1> USE DEF RetiredCodesAreOff, CodesGrow, Exists, IsOff
<1>0. /\ TypeOK /\ retired \subseteq Codes /\ code \in [Codes -> CodeRows]
      /\ \A t \in Tasks : CodesKnown(task[t])
      /\ \A c \in retired : code[c].state = "off"
  BY DEF IInv, TypeOK, TasksOK
<1>1. ASSUME UNCHANGED <<code, retired>> PROVE RetiredCodesAreOff' /\ CodesGrow
  BY <1>0, <1>1
<1>2. ASSUME NEW t \in Tasks, InsertCode(t) PROVE RetiredCodesAreOff' /\ CodesGrow
  <2>1. PICK c \in Codes : code[c].state = "absent"
          /\ code' = [code EXCEPT ![c] = [state |-> "on", performer |-> task[t].who]]
    BY <1>2 DEF InsertCode
  <2>2. retired' = retired /\ \A d \in Codes \ {c} : code'[d] = code[d]
    BY <1>0, <1>2, <2>1 DEF InsertCode
  <2>3. QED
    BY <1>0, <2>1, <2>2
<1>3. ASSUME NEW t \in Tasks, DeactivateCode(t) PROVE RetiredCodesAreOff' /\ CodesGrow
  <2>1. /\ task[t].code \in Codes /\ retired' = retired \cup {task[t].code}
        /\ code' = TurnOff({task[t].code})
    BY <1>0, <1>3 DEF DeactivateCode, CodesKnown
  <2>2. QED
    BY <1>0, <2>1, TurnedOff
<1>4. ASSUME NEW t \in Tasks, Regenerate(t) PROVE RetiredCodesAreOff' /\ CodesGrow
  <2>1. PICK old \in Codes : old = task[t].code /\ code[old].state # "absent"
    BY <1>0, <1>4 DEF Regenerate, CodesKnown
  <2>2. PICK c \in Codes :
          /\ code[c].state = "absent"
          /\ code' = [TurnOff({old}) EXCEPT ![c] = [state |-> "on", performer |-> code[old].performer]]
    BY <1>4, <2>1 DEF Regenerate
  <2>3. retired' = retired \cup {old}
    BY <1>4, <2>1 DEF Regenerate
  <2>4. \A d \in Codes \ {c} : /\ code'[d].performer = code[d].performer
                               /\ code'[d].state = IF d = old THEN "off" ELSE code[d].state
    BY <1>0, <2>1, <2>2, TurnedOff
  <2>5. c # old /\ c \notin retired
    BY <1>0, <2>1, <2>2
  <2>6. RetiredCodesAreOff'
    BY <1>0, <2>3, <2>4, <2>5
  <2>7. CodesGrow
    BY <2>2, <2>4
  <2>8. QED
    BY <2>6, <2>7
<1>5. ASSUME NEW t \in Tasks, DeactivatePerformer(t) PROVE RetiredCodesAreOff' /\ CodesGrow
  <2>1. task[t].before \subseteq task[t].todo /\ task[t].before \subseteq Codes
    BY <1>0, <1>5 DEF DeactivatePerformer, At, CodesKnown, TypeOK, TaskStates
  <2>2. retired' = retired \cup task[t].before /\ code' = TurnOff(task[t].todo)
    BY <1>5 DEF DeactivatePerformer
  <2>3. \A c \in Codes : /\ code'[c].performer = code[c].performer
                         /\ code'[c].state = IF c \in task[t].todo THEN "off" ELSE code[c].state
    BY <1>0, <2>2, TurnedOff
  <2>4. QED
    BY <1>0, <2>1, <2>2, <2>3
<1>6. ASSUME ~\E t \in Tasks : \/ InsertCode(t) \/ DeactivateCode(t) \/ Regenerate(t)
                               \/ DeactivatePerformer(t)
      PROVE  UNCHANGED <<code, retired>>
  BY <1>6 DEF Step, StartCreate, CheckPerformer, StartDeactivateCode, StartRegenerate, StartScan,
              StartDeactivatePerformer, FindCodes, Resolve, InsertSession, StartPay, LoadSession,
              FindRule, InsertPayment, Answer, Fail, SetVenueActive, SetActive, SetPerforms,
              AgreeRule, ExpireSession
<1>7. QED
  BY <1>1, <1>2, <1>3, <1>4, <1>5, <1>6

-----------------------------------------------------------------------------
(* Requests *)

\* The facts each operation needs.
LEMMA NeedsOf ==
  ASSUME NEW k
  PROVE  /\ k.op = "scan" => Needs(k) = {"code", "venue", "performer"}
         /\ k.op = "pay" => Needs(k) = {"code", "venue", "performer", "session", "rule"}
         /\ k.op = "create" => Needs(k) = IF k.who = "none" THEN {} ELSE {"performs"}
         /\ k.op \notin {"create", "scan", "pay"} => Needs(k) = {}
         /\ Needs(k) \subseteq Facts
BY DEF Needs, Facts

\* What a request that goes on has seen.
LEMMA Seen ==
  ASSUME Collect, NEW t \in Tasks, task'[t].pc # "idle"
  PROVE  seen'[t] = seen[t] \cup FactsFor(task[t])'
BY DEF Collect

\* A request that a step leaves alone.
LEMMA Waiting ==
  ASSUME IInv, Collect, CodesGrow, NEW t \in Tasks, task'[t] = task[t]
  PROVE  CodesKnown(task[t])' /\ StageOK(task[t], seen[t])'
<1>1. CodesKnown(task[t])'
  <2>1. task[t].before \subseteq Codes /\ CodesKnown(task[t])
    BY DEF IInv, TypeOK, TaskStates, TasksOK
  <2>2. QED
    BY <2>1 DEF CodesGrow, CodesKnown
<1>2. StageOK(task[t], seen[t])'
  <2>1. StageOK(task[t], seen[t])
    BY DEF IInv, TasksOK
  <2>2. CASE task[t].pc = "idle"
    BY <2>2 DEF StageOK
  <2>3. CASE task[t].pc # "idle"
    BY <2>1, <2>3, Seen DEF StageOK
  <2>4. QED
    BY <2>2, <2>3
<1>3. QED
  BY <1>1, <1>2

\* A refused or finished request.
LEMMA Idle ==
  ASSUME TypeOK, NEW t \in Tasks, Leave(t)
  PROVE  /\ task'[t] = IdleTask
         /\ CodesKnown(task[t])' /\ StageOK(task[t], seen[t])'
         /\ \A u \in Tasks \ {t} : task'[u] = task[u]
<1>1. task'[t] = IdleTask /\ \A u \in Tasks \ {t} : task'[u] = task[u]
  BY DEF Leave, TypeOK
<1>2. IdleTask.pc = "idle" /\ IdleTask.op = "none"
  BY DEF IdleTask
<1>3. QED
  BY <1>1, <1>2 DEF CodesKnown, StageOK

\* What moving on changes of a request.
LEMMA GoesOn ==
  ASSUME TypeOK, NEW t \in Tasks, NEW label, Goto(t, label)
  PROVE  /\ task'[t].pc = label
         /\ task'[t].op = task[t].op /\ task'[t].who = task[t].who /\ task'[t].code = task[t].code
         /\ task'[t].session = task[t].session
         /\ task'[t].before = task[t].before /\ task'[t].todo = task[t].todo
         /\ Needs(task'[t]) = Needs(task[t])
         /\ \A u \in Tasks \ {t} : task'[u] = task[u]
<1>1. task[t] \in TaskStates /\ task' = [task EXCEPT ![t].pc = label]
  BY DEF TypeOK, Goto
<1>2. /\ task'[t].pc = label
      /\ task'[t].op = task[t].op /\ task'[t].who = task[t].who /\ task'[t].code = task[t].code
      /\ task'[t].session = task[t].session
      /\ task'[t].before = task[t].before /\ task'[t].todo = task[t].todo
      /\ \A u \in Tasks \ {t} : task'[u] = task[u]
  BY <1>1 DEF TypeOK, TaskStates
<1>3. Needs(task'[t]) = Needs(task[t])
  BY <1>2 DEF Needs
<1>4. QED
  BY <1>2, <1>3

\* A step leaves every request in order: it knows its codes, and saw what it needs so far.
LEMMA StepKeepsTasks == IInv /\ Step /\ Collect => TasksOK'
<1> SUFFICES ASSUME IInv, Step, Collect PROVE TasksOK'
  OBVIOUS
<1>0. TypeOK /\ CodesGrow /\ \A t \in Tasks : CodesKnown(task[t]) /\ StageOK(task[t], seen[t])
  BY StepKeepsCodes DEF IInv, TasksOK
\* Only the request that moves needs a look.
<1>1. ASSUME NEW t \in Tasks,
             CodesKnown(task[t])' /\ StageOK(task[t], seen[t])',
             \A u \in Tasks \ {t} : task'[u] = task[u]
      PROVE  TasksOK'
  BY <1>0, <1>1, Waiting DEF TasksOK
<1>2. ASSUME UNCHANGED task PROVE TasksOK'
  BY <1>0, <1>2, Waiting DEF TasksOK
<1>3. ASSUME NEW t \in Tasks, Leave(t) PROVE TasksOK'
  BY <1>0, <1>1, <1>3, Idle
<1>4. ASSUME NEW t \in Tasks, NEW k \in TaskStates, Begin(t, k), UNCHANGED code,
             k.pc \in {"check", "load", "codes", "commit"},
             k.pc = "check" => k.op = "create",
             k.pc = "load" => k.op \in {"scan", "pay"},
             k.pc = "codes" <=> k.op = "deactivatePerformer",
             CodesKnown(k)
      PROVE  TasksOK'
  <2>1. task'[t] = k /\ \A u \in Tasks \ {t} : task'[u] = task[u]
    BY <1>0, <1>4 DEF Begin, TypeOK
  <2>2. CodesKnown(task[t])' /\ StageOK(task[t], seen[t])'
    BY <1>4, <2>1 DEF CodesKnown, StageOK, Exists
  <2>3. QED
    BY <1>1, <2>1, <2>2
<1>5. ASSUME NEW t \in Tasks, NEW label \in Labels, Goto(t, label),
             task[t].op \in {"create", "scan", "pay"},
             label = "rule" => task[t].op = "pay" /\ {"code", "venue", "performer", "session"} \subseteq seen'[t],
             label # "rule" => Needs(task[t]) \subseteq seen'[t]
      PROVE  TasksOK'
  <2>1. /\ task'[t].pc = label /\ task'[t].op = task[t].op /\ Needs(task'[t]) = Needs(task[t])
        /\ \A u \in Tasks \ {t} : task'[u] = task[u]
    BY <1>0, <1>5, GoesOn
  <2>2. CodesKnown(task[t])' /\ StageOK(task[t], seen[t])'
    BY <1>5, <2>1 DEF CodesKnown, StageOK, Labels
  <2>3. QED
    BY <1>1, <2>1, <2>2
\* What a request has seen once it has gone on.
<1>6. ASSUME NEW t \in Tasks, NEW label \in Labels, Goto(t, label)
      PROVE  seen'[t] = seen[t] \cup FactsFor(task[t])'
  BY <1>0, <1>6, GoesOn, Seen DEF Labels
<1>7. ASSUME NEW t \in Tasks, NEW e \in Performers \cup {"none"}, StartCreate(t, e) PROVE TasksOK'
  <2> DEFINE k == [IdleTask EXCEPT !.pc = "check", !.op = "create", !.who = e]
  <2>1. k \in TaskStates /\ k.pc = "check" /\ k.op = "create"
    BY <1>0, RequestTypes DEF IdleTask
  <2>2. Begin(t, k) /\ UNCHANGED code
    BY <1>7 DEF StartCreate
  <2> HIDE DEF k
  <2>3. QED
    BY <1>4, <2>1, <2>2 DEF CodesKnown
<1>8. ASSUME NEW t \in Tasks, NEW c \in Codes, StartDeactivateCode(t, c) \/ StartRegenerate(t, c)
      PROVE  TasksOK'
  <2>1. PICK op \in {"deactivateCode", "regenerate"} :
          /\ Begin(t, [IdleTask EXCEPT !.pc = "commit", !.op = op, !.code = c])
          /\ Exists(c) /\ UNCHANGED code
    BY <1>8 DEF StartDeactivateCode, StartRegenerate
  <2> DEFINE k == [IdleTask EXCEPT !.pc = "commit", !.op = op, !.code = c]
  <2>2. k \in TaskStates /\ k.pc = "commit" /\ k.op = op /\ k.code = c
    BY <1>0, RequestTypes DEF IdleTask
  <2> HIDE DEF k
  <2>3. QED
    BY <1>4, <2>1, <2>2 DEF CodesKnown, k
<1>9. ASSUME NEW t \in Tasks, NEW c \in Codes, StartScan(t, c) PROVE TasksOK'
  <2> DEFINE k == [IdleTask EXCEPT !.pc = "load", !.op = "scan", !.code = c]
  <2>1. k \in TaskStates /\ k.pc = "load" /\ k.op = "scan"
    BY <1>0, RequestTypes DEF IdleTask
  <2>2. Begin(t, k) /\ UNCHANGED code
    BY <1>9 DEF StartScan
  <2> HIDE DEF k
  <2>3. QED
    BY <1>4, <2>1, <2>2 DEF CodesKnown
<1>10. ASSUME NEW t \in Tasks, NEW s \in Sessions, StartPay(t, s) PROVE TasksOK'
  <2> DEFINE k == [IdleTask EXCEPT !.pc = "load", !.op = "pay", !.session = s, !.code = session[s].code]
  <2>1. k \in TaskStates /\ k.pc = "load" /\ k.op = "pay"
    BY <1>0, RequestTypes DEF IdleTask
  <2>2. Begin(t, k) /\ UNCHANGED code
    BY <1>10 DEF StartPay
  <2> HIDE DEF k
  <2>3. QED
    BY <1>4, <2>1, <2>2 DEF CodesKnown
<1>11. ASSUME NEW t \in Tasks, NEW e \in Performers, StartDeactivatePerformer(t, e) PROVE TasksOK'
  <2> DEFINE k == [IdleTask EXCEPT !.pc = "codes", !.op = "deactivatePerformer", !.who = e,
                                   !.before = CodesOf(e)]
  <2>1. /\ k \in TaskStates /\ k.pc = "codes" /\ k.op = "deactivatePerformer"
        /\ k.who = e /\ k.before = CodesOf(e)
    BY <1>0, RequestTypes DEF IdleTask
  <2>2. Begin(t, k) /\ UNCHANGED code
    BY <1>11 DEF StartDeactivatePerformer
  <2> HIDE DEF k
  <2>3. QED
    BY <1>4, <2>1, <2>2 DEF CodesKnown, CodesOf
<1>12. ASSUME NEW t \in Tasks, FindCodes(t) PROVE TasksOK'
  <2>1. /\ task[t].op = "deactivatePerformer" /\ task[t].who \in Performers
        /\ \A c \in task[t].before : Exists(c) /\ code[c].performer = task[t].who
        /\ task[t].before \subseteq CodesOf(task[t].who)
    <3>1. task[t].op = "deactivatePerformer" /\ task[t].before \subseteq Codes
      BY <1>0, <1>12 DEF FindCodes, At, StageOK, TypeOK, TaskStates
    <3>2. QED
      BY <1>0, <3>1 DEF CodesKnown, CodesOf
  <2>2. /\ task'[t].pc = "commit" /\ task'[t].op = task[t].op /\ task'[t].who = task[t].who
        /\ task'[t].before = task[t].before /\ task'[t].todo = CodesOf(task[t].who)
        /\ \A u \in Tasks \ {t} : task'[u] = task[u]
    BY <1>0, <1>12 DEF FindCodes, TypeOK, TaskStates
  <2>3. code' = code
    BY <1>12 DEF FindCodes
  <2>4. CodesKnown(task[t])' /\ StageOK(task[t], seen[t])'
    BY <2>1, <2>2, <2>3 DEF CodesKnown, StageOK, Exists
  <2>5. QED
    BY <1>1, <2>2, <2>4
<1>13. ASSUME NEW t \in Tasks, InsertCode(t) \/ InsertSession(t) \/ InsertPayment(t) PROVE TasksOK'
  <2>1. At(t, "insert") /\ Goto(t, "granted")
    BY <1>13 DEF InsertCode, InsertSession, InsertPayment
  <2>2. task[t].op \in {"create", "scan", "pay"} /\ Needs(task[t]) \subseteq seen[t]
    BY <1>0, <2>1 DEF At, StageOK
  <2>3. "granted" \in Labels
    BY DEF Labels
  <2>4. seen[t] \subseteq seen'[t]
    BY <1>6, <2>1, <2>3
  <2>5. QED
    BY <1>5, <2>1, <2>2, <2>3, <2>4
<1>14. ASSUME NEW t \in Tasks, CheckPerformer(t), Goto(t, "insert"),
              task[t].who = "none" \/ performs[task[t].who]
       PROVE  TasksOK'
  <2>1. task[t].op = "create" /\ performs' = performs
    BY <1>0, <1>14 DEF CheckPerformer, At, StageOK, roster
  <2>2. "insert" \in Labels
    BY DEF Labels
  <2>3. task'[t].who = task[t].who /\ Needs(task'[t]) = Needs(task[t])
    BY <1>0, <1>14, GoesOn
  <2>4. task[t].who # "none" => "performs" \in FactsFor(task[t])'
    BY <1>14, <2>1, <2>3, NeedsOf DEF FactsFor
  <2>5. Needs(task[t]) \subseteq seen'[t]
    BY <1>6, <1>14, <2>1, <2>2, <2>4, NeedsOf
  <2>6. QED
    BY <1>5, <1>14, <2>1, <2>2, <2>5
<1>15. ASSUME NEW t \in Tasks, Resolve(t), Goto(t, "insert"),
              IsOn(task[t].code) /\ venueActive /\ PerformerActive(task[t].code)
       PROVE  TasksOK'
  <2>1. /\ task[t].op = "scan" /\ "insert" \in Labels
        /\ code' = code /\ venueActive' = venueActive /\ active' = active
    BY <1>15 DEF Resolve, roster, Labels
  <2>2. task'[t].code = task[t].code /\ Needs(task'[t]) = Needs(task[t])
    BY <1>0, <1>15, GoesOn
  <2>3. {"code", "venue", "performer"} \subseteq FactsFor(task[t])'
    BY <1>15, <2>1, <2>2, NeedsOf DEF FactsFor, IsOn, PerformerActive
  <2>4. Needs(task[t]) \subseteq seen'[t]
    BY <1>6, <1>15, <2>1, <2>3, NeedsOf
  <2>5. QED
    BY <1>5, <1>15, <2>1, <2>4
<1>16. ASSUME NEW t \in Tasks, LoadSession(t), Goto(t, "rule"),
              session[task[t].session].state = "open" /\ IsOn(task[t].code)
                /\ venueActive /\ PerformerActive(task[t].code)
       PROVE  TasksOK'
  <2>1. /\ task[t].op = "pay" /\ "rule" \in Labels /\ session' = session
        /\ code' = code /\ venueActive' = venueActive /\ active' = active
    BY <1>16 DEF LoadSession, roster, Labels
  <2>2. /\ task'[t].code = task[t].code /\ task'[t].session = task[t].session
        /\ Needs(task'[t]) = Needs(task[t])
    BY <1>0, <1>16, GoesOn
  <2>3. {"code", "venue", "performer", "session"} \subseteq FactsFor(task[t])'
    BY <1>16, <2>1, <2>2, NeedsOf DEF FactsFor, IsOn, PerformerActive
  <2>4. {"code", "venue", "performer", "session"} \subseteq seen'[t]
    BY <1>6, <1>16, <2>1, <2>3
  <2>5. QED
    BY <1>5, <1>16, <2>1, <2>4
<1>17. ASSUME NEW t \in Tasks, FindRule(t), Goto(t, "insert"), hasRule PROVE TasksOK'
  <2>1. /\ task[t].op = "pay" /\ {"code", "venue", "performer", "session"} \subseteq seen[t]
        /\ "insert" \in Labels /\ hasRule' = hasRule
    BY <1>0, <1>17 DEF FindRule, At, StageOK, roster, Labels
  <2>2. Needs(task'[t]) = Needs(task[t])
    BY <1>0, <1>17, GoesOn
  <2>3. "rule" \in FactsFor(task[t])'
    BY <1>17, <2>1, <2>2, NeedsOf DEF FactsFor
  <2>4. Needs(task[t]) \subseteq seen'[t]
    BY <1>6, <1>17, <2>1, <2>3, NeedsOf
  <2>5. QED
    BY <1>5, <1>17, <2>1, <2>4
<1>18. ASSUME NEW t \in Tasks, CheckPerformer(t) \/ Resolve(t) \/ LoadSession(t) \/ FindRule(t)
       PROVE  TasksOK'
  BY <1>3, <1>14, <1>15, <1>16, <1>17, <1>18 DEF CheckPerformer, Resolve, LoadSession, FindRule, Require
<1>19. ASSUME NEW t \in Tasks,
              \/ DeactivateCode(t) \/ Regenerate(t) \/ DeactivatePerformer(t)
              \/ Answer(t) \/ Fail(t)
       PROVE  TasksOK'
  BY <1>3, <1>19 DEF DeactivateCode, Regenerate, DeactivatePerformer, Answer, Fail
<1>20. ASSUME \/ \E flag \in BOOLEAN :
                   \/ SetVenueActive(flag)
                   \/ \E e \in Performers : SetActive(e, flag) \/ SetPerforms(e, flag)
              \/ AgreeRule
              \/ \E s \in Sessions : ExpireSession(s)
       PROVE  TasksOK'
  BY <1>2, <1>20 DEF SetVenueActive, SetActive, SetPerforms, AgreeRule, ExpireSession
<1>21. QED
  BY <1>7, <1>8, <1>9, <1>10, <1>11, <1>12, <1>13, <1>18, <1>19, <1>20 DEF Step

-----------------------------------------------------------------------------
(* The theorems *)

\* The invariant holds always.
LEMMA Invariant == Spec => []IInv
<1>1. Init => IInv
  <2> SUFFICES ASSUME Init PROVE IInv
    OBVIOUS
  <2>1. TypeOK
    <3>1. IdleTask \in TaskStates
      BY DEF IdleTask, TaskStates, Operations
    <3>2. QED
      BY <3>1 DEF Init, TypeOK, CodeRows, SessionRows
  <2>2. RetiredCodesAreOff
    BY DEF Init, RetiredCodesAreOff
  <2>3. TasksOK
    BY DEF Init, TasksOK, CodesKnown, StageOK, IdleTask
  <2>4. QED
    BY <2>1, <2>2, <2>3 DEF IInv
<1>2. IInv /\ [Next]_vars => IInv'
  <2> SUFFICES ASSUME IInv, [Next]_vars PROVE IInv'
    OBVIOUS
  <2>1. CASE Next
    <3>1. Step /\ Collect
      BY <2>1 DEF Next
    <3>2. seen' \in [Tasks -> SUBSET Facts]
      <4>1. \A t \in Tasks : FactsFor(task[t])' \subseteq Facts
        BY NeedsOf DEF FactsFor
      <4>2. QED
        BY <3>1, <4>1 DEF Collect, IInv, TypeOK
    <3>3. TypeOK'
      BY <3>1, <3>2, StepKeepsTypes DEF StepTypes, TypeOK
    <3>4. QED
      BY <3>1, <3>3, StepKeepsCodes, StepKeepsTasks DEF IInv
  <2>2. CASE UNCHANGED vars
    BY <2>2 DEF vars, IInv, TypeOK, RetiredCodesAreOff, TasksOK, CodesKnown, StageOK, Exists
  <2>3. QED
    BY <2>1, <2>2
<1>3. QED
  BY <1>1, <1>2, PTL DEF Spec

\* Type correctness, for any performers, codes, sessions and requests.
THEOREM TypeCorrect == Spec => []TypeOK
<1>1. IInv => TypeOK
  BY DEF IInv
<1>2. QED
  BY <1>1, Invariant, PTL

\* A code that was deactivated or replaced, and every code a performer had when her
\* deactivation began, stays off, whatever runs at the same time.
THEOREM RetiredStaysOff == Spec => []RetiredCodesAreOff
<1>1. IInv => RetiredCodesAreOff
  BY DEF IInv
<1>2. QED
  BY <1>1, Invariant, PTL

\* Whoever is let in, pays or gets a code did so on facts that held during the request.
THEOREM GrantsAreEntitled == Spec => []EntitledDuringRequest
<1>1. IInv => EntitledDuringRequest
  BY DEF IInv, TasksOK, StageOK, EntitledDuringRequest, At
<1>2. QED
  BY <1>1, Invariant, PTL

\* A code never comes back on, never changes hands and is never lost, in any step.
THEOREM CodesOnlyEnd == Spec => [][CodesGrow]_vars
<1>1. IInv /\ [Next]_vars => [CodesGrow]_vars
  BY StepKeepsCodes DEF Next
<1>2. Spec => [][Next]_vars
  BY PTL DEF Spec
<1>3. QED
  BY <1>1, <1>2, Invariant, PTL

=============================================================================
