-------------------------- MODULE LoginLinkProofs --------------------------
(* What TLAPS proves of LoginLinks, for any entertainers, links and concurrent *)
(* requests: a link mints one session, a superseded one none, and what is      *)
(* granted rests on facts that held during the request.                        *)
EXTENDS LoginLinks, TLAPS

-----------------------------------------------------------------------------
(* The inductive invariant *)

Consumed(l) == link[l].state = "consumed"

\* A link that was exchanged is spent, and it was exchanged once.
MintedOK ==
  \A l \in Links : minted[l] <= 1 /\ (minted[l] > 0 => Consumed(l))

\* What came before a link existed, and what it supersedes is spent.
PriorOK ==
  \A n, l \in Links : l \in prior[n] =>
    /\ Exists(l)
    /\ Exists(n) /\ link[n].owner = link[l].owner => Consumed(l)

LinksOK ==
  /\ \A l \in Links : Exists(l) => link[l].owner \in Entertainers
  /\ MintedOK
  /\ PriorOK

\* What a request knows of the links, k being its state.
BeforeOK(k) ==
  /\ \A l \in k.before : Exists(l)
  /\ k.pc = "create" => \A l \in k.before : link[l].owner = k.who => Consumed(l)

\* Who asks for what at each stage of a request k, and the facts s it has seen.
StageOK(k, s) ==
  /\ k.pc # "idle" => k.who \in Entertainers
  /\ k.pc = "validate" => k.actor \in Entertainers /\ k.op \in {"read", "confirm"}
  /\ k.pc = "guard" =>
       /\ k.op # "redeem"
       /\ k.actor \in Entertainers => k.op # "issue" /\ (k.actor = k.who => "active" \in s)
       /\ k.op = "confirm" => k.actor \in Entertainers
  /\ k.pc \in {"find", "supersede", "create"} =>
       /\ k.op = "issue" /\ k.actor \in {"platform", "venue"}
       /\ k.actor = "venue" => "performs" \in s
       /\ k.pc # "find" => "active" \in s
  /\ k.pc \in {"check", "claim"} =>
       /\ k.op = "redeem" /\ k.actor = "platform" /\ k.link \in Links
       /\ k.pc = "claim" => {"active", "unexpired"} \subseteq s
  /\ k.pc = "granted" =>
       /\ Needs(k) \subseteq s
       /\ k.actor \in Entertainers => k.actor = k.who
       /\ k.op = "confirm" => k.actor = k.who

TasksOK == \A t \in Tasks : BeforeOK(task[t]) /\ StageOK(task[t], seen[t])

IInv == TypeOK /\ LinksOK /\ TasksOK

\* No link disappears, changes hands or is given back.
LinksGrow ==
  \A l \in Links : Exists(l) =>
    /\ Exists(l)' /\ link'[l].owner = link[l].owner
    /\ Consumed(l) => Consumed(l)'

\* The types of what a step writes.
StepTypes ==
  /\ active' \in [Entertainers -> BOOLEAN]
  /\ performs' \in [Entertainers -> BOOLEAN]
  /\ link' \in [Links -> LinkRows]
  /\ minted' \in [Links -> Nat]
  /\ prior' \in [Links -> SUBSET Links]
  /\ task' \in [Tasks -> TaskStates]

-----------------------------------------------------------------------------
(* Types *)

\* Moving on, being refused and leaving keep the type of a task.
LEMMA TaskTypes ==
  ASSUME TypeOK, NEW t \in Tasks
  PROVE  /\ IdleTask \in TaskStates
         /\ Leave(t) => task' \in [Tasks -> TaskStates]
         /\ \A label \in {"guard", "find", "supersede", "create", "claim", "granted"} :
              /\ Goto(t, label) => task' \in [Tasks -> TaskStates]
              /\ \A c : Require(t, c, label) => task' \in [Tasks -> TaskStates]
<1>1. IdleTask \in TaskStates
  BY DEF IdleTask, TaskStates, Operations, Actors
<1>2. Leave(t) => task' \in [Tasks -> TaskStates]
  BY <1>1 DEF Leave, TypeOK
<1>3. ASSUME NEW label \in {"guard", "find", "supersede", "create", "claim", "granted"}, Goto(t, label)
      PROVE  task' \in [Tasks -> TaskStates]
  <2>1. [task[t] EXCEPT !.pc = label] \in TaskStates
    BY DEF TypeOK, TaskStates
  <2>2. task' = [task EXCEPT ![t] = [task[t] EXCEPT !.pc = label]]
    BY <1>3 DEF Goto
  <2>3. QED
    BY <2>1, <2>2 DEF TypeOK
<1>4. QED
  BY <1>1, <1>2, <1>3 DEF Require

\* Every request and every admin leaves every variable in its type.
LEMMA StepKeepsTypes == TypeOK /\ Step => StepTypes
<1> SUFFICES ASSUME TypeOK, Step PROVE StepTypes
  OBVIOUS
<1> USE DEF TypeOK, StepTypes, roster, tokens
<1>1. ASSUME NEW t \in Tasks, NEW op \in Operations, NEW e \in Entertainers,
             NEW role \in {"platform", "venue"}, AdminRequest(t, op, role, e)
      PROVE  StepTypes
  <2> DEFINE k == [IdleTask EXCEPT !.pc = "guard", !.op = op, !.actor = role, !.who = e,
                     !.before = IF op = "issue" THEN {l \in Links : Exists(l)} ELSE {}]
  <2>1. k \in TaskStates
    BY DEF IdleTask, TaskStates, Actors
  <2>2. task' = [task EXCEPT ![t] = k]
    BY <1>1 DEF AdminRequest
  <2> HIDE DEF k
  <2>3. QED
    BY <1>1, <2>1, <2>2 DEF AdminRequest
<1>2. ASSUME NEW t \in Tasks, NEW op \in Operations, NEW e \in Entertainers,
             NEW holder \in Entertainers, EntertainerRequest(t, op, holder, e)
      PROVE  StepTypes
  <2> DEFINE k == [IdleTask EXCEPT !.pc = "validate", !.op = op, !.actor = holder, !.who = e]
  <2>1. k \in TaskStates
    BY DEF IdleTask, TaskStates, Actors
  <2>2. task' = [task EXCEPT ![t] = k]
    BY <1>2 DEF EntertainerRequest
  <2> HIDE DEF k
  <2>3. QED
    BY <1>2, <2>1, <2>2 DEF EntertainerRequest
<1>3. ASSUME NEW t \in Tasks,
             \/ Validate(t) \/ Guard(t) \/ FindEntertainer(t) \/ CheckLink(t) \/ Answer(t) \/ Fail(t)
      PROVE  StepTypes
  BY <1>3, TaskTypes DEF Validate, Guard, FindEntertainer, CheckLink, Answer, Fail
<1>4. ASSUME NEW t \in Tasks, Supersede(t)
      PROVE  StepTypes
  BY <1>4, TaskTypes DEF Supersede, LinkRows
<1>5. ASSUME NEW t \in Tasks, CreateLink(t)
      PROVE  StepTypes
  <2> DEFINE k == [task[t] EXCEPT !.pc = "granted", !.before = {}]
  <2>1. k \in TaskStates
    BY DEF TaskStates
  <2>2. task' = [task EXCEPT ![t] = k]
    BY <1>5 DEF CreateLink
  <2>3. task[t].who \in Entertainers \cup {"none"} /\ task[t].before \in SUBSET Links
    BY DEF TaskStates
  <2>4. /\ link' \in [Links -> LinkRows] /\ prior' \in [Links -> SUBSET Links]
        /\ UNCHANGED <<active, performs, minted>>
    <3>1. PICK l \in Links :
            /\ link' = [link EXCEPT ![l] = [state |-> "live", owner |-> task[t].who]]
            /\ prior' = [prior EXCEPT ![l] = task[t].before]
      BY <1>5 DEF CreateLink
    <3>2. [state |-> "live", owner |-> task[t].who] \in LinkRows
      BY <2>3 DEF LinkRows
    <3>3. UNCHANGED <<active, performs, minted>>
      BY <1>5 DEF CreateLink, roster
    <3>4. QED
      BY <2>3, <3>1, <3>2, <3>3
  <2> HIDE DEF k
  <2>5. QED
    BY <2>1, <2>2, <2>4
<1>6. ASSUME NEW t \in Tasks, NEW l \in Links, StartRedeem(t, l)
      PROVE  StepTypes
  <2> DEFINE k == [IdleTask EXCEPT !.pc = "check", !.op = "redeem", !.who = link[l].owner, !.link = l]
  <2>1. k \in TaskStates
    BY DEF IdleTask, TaskStates, Actors, LinkRows, Operations
  <2>2. task' = [task EXCEPT ![t] = k]
    BY <1>6 DEF StartRedeem
  <2> HIDE DEF k
  <2>3. QED
    BY <1>6, <2>1, <2>2 DEF StartRedeem
<1>7. ASSUME NEW t \in Tasks, ClaimLink(t)
      PROVE  StepTypes
  <2>1. task' \in [Tasks -> TaskStates]
    BY <1>7, TaskTypes DEF ClaimLink
  <2>2. link' \in [Links -> LinkRows] /\ minted' \in [Links -> Nat]
    <3>1. CASE Unconsumed(task[t].link)
      BY <1>7, <3>1 DEF ClaimLink, LinkRows
    <3>2. CASE ~Unconsumed(task[t].link)
      BY <1>7, <3>2 DEF ClaimLink
    <3>3. QED
      BY <3>1, <3>2
  <2>3. QED
    BY <1>7, <2>1, <2>2 DEF ClaimLink
<1>8. ASSUME NEW e \in Entertainers, NEW flag \in BOOLEAN, SetActive(e, flag) \/ SetPerforms(e, flag)
      PROVE  StepTypes
  BY <1>8 DEF SetActive, SetPerforms
<1>9. ASSUME NEW l \in Links, Expire(l)
      PROVE  StepTypes
  BY <1>9 DEF Expire, LinkRows
<1>10. QED
  BY <1>1, <1>2, <1>3, <1>4, <1>5, <1>6, <1>7, <1>8, <1>9 DEF Step

-----------------------------------------------------------------------------
(* Links *)

\* A step leaves every link in order, and loses none.
LEMMA StepKeepsLinks == IInv /\ Step => LinksOK' /\ LinksGrow
<1> SUFFICES ASSUME IInv, Step PROVE LinksOK' /\ LinksGrow
  OBVIOUS
<1> USE DEF LinksOK, LinksGrow, Exists, Consumed
<1>1. ASSUME UNCHANGED tokens
      PROVE  LinksOK' /\ LinksGrow
  BY <1>1 DEF IInv, tokens, MintedOK, PriorOK
<1>2. ASSUME NEW t \in Tasks, Supersede(t)
      PROVE  LinksOK' /\ LinksGrow
  <2>1. /\ minted' = minted /\ prior' = prior
        /\ \A l \in Links : /\ link'[l].owner = link[l].owner
                            /\ Exists(l)' <=> Exists(l)
                            /\ Consumed(l) => Consumed(l)'
    <3> SUFFICES ASSUME NEW l \in Links
                 PROVE  /\ link'[l].owner = link[l].owner
                        /\ Exists(l)' <=> Exists(l)
                        /\ Consumed(l) => Consumed(l)'
      BY <1>2 DEF Supersede
    <3>1. link[l] \in LinkRows
      BY DEF IInv, TypeOK
    <3>2. link'[l] = IF Unconsumed(l) /\ link[l].owner = task[t].who
                     THEN [link[l] EXCEPT !.state = "consumed"] ELSE link[l]
      BY <1>2 DEF Supersede
    <3>3. QED
      BY <3>1, <3>2 DEF Unconsumed, LinkRows
  <2>2. QED
    BY <2>1 DEF IInv, TypeOK, MintedOK, PriorOK
<1>3. ASSUME NEW t \in Tasks, CreateLink(t)
      PROVE  LinksOK' /\ LinksGrow
  <2>1. PICK n \in Links :
          /\ ~Exists(n)
          /\ link' = [link EXCEPT ![n] = [state |-> "live", owner |-> task[t].who]]
          /\ prior' = [prior EXCEPT ![n] = task[t].before]
    BY <1>3 DEF CreateLink
  <2>2. /\ task[t].who \in Entertainers
        /\ \A l \in task[t].before : Exists(l) /\ (link[l].owner = task[t].who => Consumed(l))
        /\ task[t].before \subseteq Links
    BY <1>3 DEF CreateLink, At, IInv, TasksOK, BeforeOK, StageOK, TypeOK, TaskStates
  <2>3. /\ Exists(n)' /\ link'[n].owner = task[t].who /\ ~Consumed(n)' /\ prior'[n] = task[t].before
        /\ \A l \in Links \ {n} : link'[l] = link[l] /\ prior'[l] = prior[l]
    BY <2>1 DEF IInv, TypeOK
  <2>4. minted' = minted
    BY <1>3 DEF CreateLink
  <2>5. LinksGrow
    BY <2>1, <2>3
  <2>6. MintedOK'
    <3>1. ~Consumed(n)
      BY <2>1
    <3>2. QED
      BY <2>3, <2>4, <3>1 DEF MintedOK, IInv
  <2>7. PriorOK'
    <3> SUFFICES ASSUME NEW m \in Links, NEW l \in Links, l \in prior'[m]
                 PROVE  /\ Exists(l)'
                        /\ Exists(m)' /\ link'[m].owner = link'[l].owner => Consumed(l)'
      BY DEF PriorOK
    <3>1. CASE m = n
      BY <2>1, <2>2, <2>3, <3>1
    <3>2. CASE m # n
      BY <2>1, <2>3, <3>2 DEF IInv, PriorOK
    <3>3. QED
      BY <3>1, <3>2
  <2>8. \A l \in Links : Exists(l)' => link'[l].owner \in Entertainers
    BY <2>2, <2>3 DEF IInv
  <2>9. QED
    BY <2>5, <2>6, <2>7, <2>8
<1>4. ASSUME NEW t \in Tasks, ClaimLink(t)
      PROVE  LinksOK' /\ LinksGrow
  <2>0. PICK l \in Links : l = task[t].link
    BY <1>4 DEF ClaimLink, At, IInv, TasksOK, StageOK
  <2>1. CASE Unconsumed(l)
    <3>1. /\ prior' = prior
          /\ minted' = [minted EXCEPT ![l] = @ + 1]
          /\ link' = [link EXCEPT ![l].state = "consumed"]
      BY <1>4, <2>0, <2>1 DEF ClaimLink
    <3>2. /\ Consumed(l)' /\ link'[l].owner = link[l].owner
          /\ \A m \in Links \ {l} : link'[m] = link[m] /\ minted'[m] = minted[m]
      <4>1. link \in [Links -> LinkRows] /\ minted \in [Links -> Nat]
        BY DEF IInv, TypeOK
      <4>2. QED
        BY <3>1, <4>1 DEF LinkRows
    <3>3. minted'[l] = 1
      <4>1. minted[l] \in Nat /\ ~(minted[l] > 0)
        BY <2>1, <3>1 DEF Unconsumed, IInv, MintedOK, TypeOK
      <4>2. minted'[l] = minted[l] + 1
        BY <3>1 DEF IInv, TypeOK
      <4>3. QED
        BY <4>1, <4>2
    <3>4. MintedOK'
      BY <3>2, <3>3 DEF IInv, MintedOK
    <3>5. Exists(l)
      BY <2>1 DEF Unconsumed
    <3>6. LinksGrow
      BY <3>2
    <3>7. \A m \in Links : (Exists(m) <=> Exists(m)') /\ link'[m].owner = link[m].owner
      BY <3>2, <3>5
    <3>8. PriorOK'
      BY <3>1, <3>6, <3>7 DEF IInv, PriorOK, TypeOK
    <3>9. QED
      BY <3>4, <3>6, <3>7, <3>8 DEF IInv
  <2>2. CASE ~Unconsumed(l)
    <3>1. UNCHANGED tokens
      BY <1>4, <2>0, <2>2 DEF ClaimLink, tokens
    <3>2. QED
      BY <3>1, <1>1
  <2>3. QED
    BY <2>1, <2>2
<1>5. ASSUME NEW l \in Links, Expire(l)
      PROVE  LinksOK' /\ LinksGrow
  <2>1. /\ minted' = minted /\ prior' = prior
        /\ \A m \in Links : /\ link'[m].owner = link[m].owner
                            /\ Exists(m)' <=> Exists(m)
                            /\ Consumed(m) => Consumed(m)'
    <3>1. link \in [Links -> LinkRows] /\ link' = [link EXCEPT ![l].state = "expired"]
          /\ link[l].state = "live"
      BY <1>5 DEF Expire, IInv, TypeOK
    <3>2. \A m \in Links \ {l} : link'[m] = link[m]
      BY <3>1
    <3>3. link'[l].owner = link[l].owner /\ link'[l].state = "expired"
      BY <3>1 DEF LinkRows
    <3>4. QED
      BY <1>5, <3>1, <3>2, <3>3 DEF Expire
  <2>2. QED
    BY <2>1 DEF IInv, TypeOK, MintedOK, PriorOK
<1>6. \/ UNCHANGED tokens \/ \E l \in Links : Expire(l)
      \/ \E t \in Tasks : Supersede(t) \/ CreateLink(t) \/ ClaimLink(t)
  BY DEF Step, AdminRequest, EntertainerRequest, Validate, Guard, FindEntertainer, StartRedeem,
         CheckLink, Answer, Fail, SetActive, SetPerforms
<1>7. QED
  BY <1>1, <1>2, <1>3, <1>4, <1>5, <1>6

-----------------------------------------------------------------------------
(* What requests know of the links *)

\* What a request remembers stays right while it moves on, unless it comes to "create".
LEMMA BeforeKept ==
  ASSUME TypeOK, LinksGrow, NEW u \in Tasks, BeforeOK(task[u]),
         task'[u].before \subseteq task[u].before,
         task'[u].pc = "create" => task[u].pc = "create" /\ task'[u].who = task[u].who
  PROVE  BeforeOK(task[u])'
<1>1. task[u].before \subseteq Links
  BY DEF TypeOK, TaskStates
<1>2. QED
  BY <1>1 DEF BeforeOK, LinksGrow, Exists

\* The links a request found stay consumed once its own was created.
LEMMA StepKeepsBefore == IInv /\ Step => \A u \in Tasks : BeforeOK(task[u])'
<1> SUFFICES ASSUME IInv, Step, NEW u \in Tasks PROVE BeforeOK(task[u])'
  OBVIOUS
<1>1. LinksGrow /\ TypeOK /\ BeforeOK(task[u]) /\ BeforeOK(IdleTask)'
  BY StepKeepsLinks DEF IInv, TasksOK, BeforeOK, IdleTask
<1>2. ASSUME NEW t \in Tasks, NEW op \in Operations, NEW e \in Entertainers,
             NEW role \in {"platform", "venue"}, AdminRequest(t, op, role, e)
      PROVE  BeforeOK(task[u])'
  <2>1. link' = link
    BY <1>2 DEF AdminRequest, tokens
  <2>2. CASE u = t
    <3>1. task'[u].pc = "guard" /\ \A l \in task'[u].before : l \in Links /\ Exists(l)
      BY <1>1, <1>2, <2>2 DEF AdminRequest, IdleTask, TypeOK
    <3>2. QED
      BY <2>1, <3>1 DEF BeforeOK, Exists
  <2>3. CASE u # t
    BY <1>1, <1>2, <2>3, BeforeKept DEF AdminRequest, TypeOK
  <2>4. QED
    BY <2>2, <2>3
<1>3. ASSUME NEW t \in Tasks, Supersede(t)
      PROVE  BeforeOK(task[u])'
  <2>1. CASE u = t
    <3>1. /\ task'[u].before = task[u].before /\ task'[u].who = task[u].who
          /\ task[u].before \subseteq Links
      BY <1>1, <1>3, <2>1 DEF Supersede, Goto, TypeOK, TaskStates
    <3>2. \A l \in Links : Exists(l) /\ link[l].owner = task[u].who => Consumed(l)'
      BY <1>1, <1>3, <2>1 DEF Supersede, Unconsumed, Exists, Consumed, TypeOK, LinkRows
    <3>3. \A l \in task'[u].before : Exists(l) /\ Exists(l)' /\ link'[l].owner = link[l].owner
      BY <1>1, <3>1 DEF BeforeOK, LinksGrow
    <3>4. QED
      BY <3>1, <3>2, <3>3 DEF BeforeOK
  <2>2. CASE u # t
    BY <1>1, <1>3, <2>2, BeforeKept DEF Supersede, Goto, TypeOK
  <2>3. QED
    BY <2>1, <2>2
<1>4. ASSUME \/ task' = task
             \/ \E t \in Tasks : /\ \A v \in Tasks \ {t} : task'[v] = task[v]
                                 /\ task'[t].before \subseteq task[t].before /\ task'[t].pc # "create"
      PROVE  BeforeOK(task[u])'
  BY <1>1, <1>4, BeforeKept
<1>5. ASSUME NEW t \in Tasks,
             \/ Validate(t) \/ Guard(t) \/ FindEntertainer(t) \/ CreateLink(t) \/ CheckLink(t)
             \/ ClaimLink(t) \/ Answer(t) \/ Fail(t)
             \/ \E op \in Operations, holder, e \in Entertainers : EntertainerRequest(t, op, holder, e)
             \/ \E l \in Links : StartRedeem(t, l)
      PROVE  BeforeOK(task[u])'
  <2> DEFINE Moved == /\ \A v \in Tasks \ {t} : task'[v] = task[v]
                      /\ task'[t].before \subseteq task[t].before /\ task'[t].pc # "create"
  <2>1. /\ Leave(t) => Moved
        /\ \A label \in {"guard", "find", "supersede", "claim", "granted"} : Goto(t, label) => Moved
    BY <1>1 DEF Leave, Goto, IdleTask, TypeOK, TaskStates
  <2>2. Moved
    <3>1. CASE \/ Validate(t) \/ Guard(t) \/ FindEntertainer(t) \/ CheckLink(t)
               \/ ClaimLink(t) \/ Answer(t) \/ Fail(t)
      BY <2>1, <3>1 DEF Validate, Guard, FindEntertainer, CheckLink, ClaimLink, Answer, Fail, Require
    <3>2. CASE CreateLink(t)
      BY <1>1, <3>2 DEF CreateLink, TypeOK, TaskStates
    <3>3. ASSUME NEW op \in Operations, NEW holder \in Entertainers, NEW e \in Entertainers,
                 EntertainerRequest(t, op, holder, e)
          PROVE  Moved
      BY <1>1, <3>3 DEF EntertainerRequest, IdleTask, TypeOK
    <3>4. ASSUME NEW l \in Links, StartRedeem(t, l)
          PROVE  Moved
      BY <1>1, <3>4 DEF StartRedeem, IdleTask, TypeOK
    <3>5. QED
      BY <1>5, <3>1, <3>2, <3>3, <3>4
  <2>3. QED
    BY <1>4, <2>2
<1>6. ASSUME \/ \E e \in Entertainers : \E flag \in BOOLEAN : SetActive(e, flag) \/ SetPerforms(e, flag)
             \/ \E l \in Links : Expire(l)
      PROVE  BeforeOK(task[u])'
  <2>1. task' = task
    BY <1>6 DEF SetActive, SetPerforms, Expire
  <2>2. QED
    BY <1>4, <2>1
<1>7. QED
  BY <1>2, <1>3, <1>5, <1>6 DEF Step
-----------------------------------------------------------------------------
(* What requests have seen *)

\* A request that goes on keeps what it saw, and adds what its state rests on and is true now.
LEMMA Collected ==
  ASSUME StepTypes, Collect, NEW u \in Tasks, task'[u].pc # "idle"
  PROVE  /\ seen[u] \subseteq seen'[u]
         /\ (task'[u].op \in {"redeem", "issue"} \/ task'[u].actor \in Entertainers)
              /\ active'[task'[u].who] => "active" \in seen'[u]
         /\ task'[u].actor = "venue" /\ performs'[task'[u].who] => "performs" \in seen'[u]
         /\ task'[u].op = "redeem" /\ link'[task'[u].link].state = "live"
              => "unexpired" \in seen'[u]
<1>1. seen'[u] = seen[u] \cup FactsFor(task[u])'
  BY DEF Collect
<1>2. QED
  BY <1>1 DEF FactsFor, Needs, Facts

\* The facts seen are facts.
LEMMA CollectTypes == TypeOK /\ Collect => seen' \in [Tasks -> SUBSET Facts]
<1> SUFFICES ASSUME TypeOK, Collect, NEW u \in Tasks
             PROVE  seen'[u] \in SUBSET Facts
  BY DEF Collect
<1>1. FactsFor(task[u])' \subseteq Facts
  BY DEF FactsFor, Needs
<1>2. QED
  BY <1>1 DEF Collect, TypeOK

\* A request that does not move, and one that is over.
LEMMA StageKept ==
  ASSUME IInv, StepTypes, Collect, NEW u \in Tasks, task'[u] \in {task[u], IdleTask}
  PROVE  StageOK(task[u], seen[u])'
<1>1. CASE task'[u].pc = "idle"
  BY <1>1 DEF StageOK
<1>2. CASE task'[u].pc # "idle"
  <2>1. task'[u] = task[u] /\ seen[u] \subseteq seen'[u]
    BY <1>2, Collected DEF IdleTask
  <2>2. StageOK(task[u], seen[u])
    BY DEF IInv, TasksOK
  <2>3. Needs(task[u])' = Needs(task[u])
    BY <2>1 DEF Needs
  <2>4. QED
    BY <2>1, <2>2, <2>3 DEF StageOK
<1>3. QED
  BY <1>1, <1>2

\* What a step of the request t itself leaves it with.
LEMMA StageMoves ==
  ASSUME IInv, StepTypes, Collect, NEW t \in Tasks,
         \/ Validate(t) \/ Guard(t) \/ FindEntertainer(t) \/ Supersede(t) \/ CreateLink(t)
         \/ CheckLink(t) \/ ClaimLink(t)
  PROVE  StageOK(task[t], seen[t])'
<1> DEFINE k == task[t]
           n == task'[t]
<1>1. StageOK(k, seen[t]) /\ k \in TaskStates
  BY DEF IInv, TasksOK, TypeOK
<1>2. SUFFICES ASSUME n # IdleTask PROVE StageOK(task[t], seen[t])'
  BY StageKept
<1>3. PICK label \in {"guard", "find", "supersede", "create", "claim", "granted"} :
        n.pc = label /\ n.op = k.op /\ n.actor = k.actor /\ n.who = k.who /\ n.link = k.link
  <2>1. /\ Leave(t) => n = IdleTask
        /\ \A label \in {"guard", "find", "supersede", "create", "claim", "granted"} :
             Goto(t, label) => n = [k EXCEPT !.pc = label]
    BY DEF Leave, Goto, IInv, TypeOK
  <2>2. CreateLink(t) => n = [k EXCEPT !.pc = "granted", !.before = {}]
    BY DEF CreateLink, IInv, TypeOK
  <2>3. QED
    BY <1>1, <1>2, <2>1, <2>2 DEF Validate, Guard, FindEntertainer, Supersede, CheckLink, ClaimLink,
                                  Require, TaskStates
<1>4. /\ n.pc # "idle"
      /\ seen[t] \subseteq seen'[t]
      /\ (k.op \in {"redeem", "issue"} \/ k.actor \in Entertainers) /\ active'[k.who]
           => "active" \in seen'[t]
      /\ k.actor = "venue" /\ performs'[k.who] => "performs" \in seen'[t]
      /\ k.op = "redeem" /\ link'[k.link].state = "live" => "unexpired" \in seen'[t]
  BY <1>3, Collected
<1>5. Goto(t, n.pc) \/ CreateLink(t)
  <2>1. ~Leave(t)
    BY <1>2 DEF Leave, IInv, TypeOK
  <2>2. \A next \in {"guard", "find", "supersede", "create", "claim", "granted"} :
          Goto(t, next) => n.pc = next
    BY <1>1 DEF Goto, IInv, TypeOK, TaskStates
  <2>3. QED
    BY <2>1, <2>2 DEF Validate, Guard, FindEntertainer, Supersede, CheckLink, ClaimLink, Require
<1> HIDE DEF k, n
<1>6. CASE Validate(t)
  <2>1. k.pc = "validate" /\ active'[k.actor] /\ n.pc = "guard"
    BY <1>2, <1>6 DEF Validate, At, Require, Leave, Goto, roster, k, n, IInv, TypeOK, TaskStates
  <2>2. QED
    BY <1>1, <1>3, <1>4, <2>1 DEF StageOK, n
<1>7. CASE Guard(t)
  <2>1. /\ k.pc = "guard" /\ InScope(k.actor, k.who)
        /\ n.pc = IF k.op = "issue" THEN "find" ELSE "granted"
        /\ performs' = performs
    BY <1>2, <1>7 DEF Guard, At, Require, Leave, Goto, roster, k, n, IInv, TypeOK, TaskStates
  <2>2. k.who \in Entertainers /\ performs' \in [Entertainers -> BOOLEAN] /\ k.actor \in Actors
    BY <1>1, <2>1 DEF StageOK, StepTypes, TaskStates
  <2>3. k.actor = "venue" => "performs" \in seen'[t]
    BY <1>4, <2>1, <2>2 DEF InScope
  <2>4. k.actor \in Entertainers => k.actor = k.who
    BY <2>1, PeopleAssumption DEF InScope
  <2>5. k.op # "redeem" /\ (k.op = "confirm" => k.actor \in Entertainers)
        /\ (k.actor \in Entertainers => k.op # "issue" /\ "active" \in seen'[t])
    BY <1>1, <1>4, <2>1, <2>4 DEF StageOK
  <2>6. CASE k.op = "issue"
    <3>1. n.pc = "find" /\ n.who \in Entertainers /\ n.op = "issue" /\ n.actor \in {"platform", "venue"}
          /\ (n.actor = "venue" => "performs" \in seen'[t])
      BY <1>3, <2>1, <2>2, <2>3, <2>5, <2>6 DEF Actors
    <3>2. QED
      BY <3>1 DEF StageOK, n
  <2>7. CASE k.op # "issue"
    <3>1. n.pc = "granted" /\ n.who \in Entertainers
      BY <1>3, <2>1, <2>2, <2>7
    <3>2. Needs(n) \subseteq seen'[t]
      BY <1>3, <2>3, <2>5, <2>7 DEF Needs
    <3>3. (n.actor \in Entertainers => n.actor = n.who) /\ (n.op = "confirm" => n.actor = n.who)
      BY <1>3, <2>4, <2>5
    <3>4. QED
      BY <3>1, <3>2, <3>3 DEF StageOK, n, Needs
  <2>8. QED
    BY <2>6, <2>7
<1>8. CASE FindEntertainer(t) \/ Supersede(t)
  <2>1. /\ k.pc \in {"find", "supersede"} /\ n.pc \in {"supersede", "create"}
        /\ k.pc = "find" => active'[k.who]
    BY <1>2, <1>8 DEF FindEntertainer, Supersede, At, Require, Leave, Goto, roster, k, n, IInv, TypeOK, TaskStates
  <2>2. n.op = "issue" /\ n.actor \in {"platform", "venue"} /\ n.who \in Entertainers
        /\ (n.actor = "venue" => "performs" \in seen'[t]) /\ "active" \in seen'[t]
    BY <1>1, <1>3, <1>4, <2>1 DEF StageOK
  <2>3. QED
    BY <2>1, <2>2 DEF StageOK, n
<1>9. CASE CreateLink(t)
  <2>1. k.pc = "create" /\ n.pc = "granted"
    BY <1>9 DEF CreateLink, At, k, n, IInv, TypeOK, TaskStates
  <2>2. n.op = "issue" /\ n.actor \in {"platform", "venue"} /\ n.who \in Entertainers
        /\ (n.actor = "venue" => "performs" \in seen'[t]) /\ "active" \in seen'[t]
    BY <1>1, <1>3, <1>4, <2>1 DEF StageOK
  <2>3. n.actor \notin Entertainers /\ Needs(n) \subseteq seen'[t]
    BY <2>2, PeopleAssumption DEF Needs
  <2>4. QED
    BY <2>1, <2>2, <2>3 DEF StageOK, n, Needs
<1>10. CASE CheckLink(t)
  <2>1. k.pc = "check" /\ n.pc = "claim" /\ link'[k.link].state = "live" /\ active'[k.who]
    BY <1>2, <1>10 DEF CheckLink, At, Require, Leave, Goto, roster, tokens, k, n, IInv, TypeOK, TaskStates
  <2>2. n.op = "redeem" /\ n.actor = "platform" /\ n.link \in Links /\ n.who \in Entertainers
        /\ {"active", "unexpired"} \subseteq seen'[t]
    BY <1>1, <1>3, <1>4, <2>1 DEF StageOK
  <2>3. QED
    BY <2>1, <2>2 DEF StageOK, n
<1>11. CASE ClaimLink(t)
  <2>1. k.pc = "claim" /\ n.pc = "granted"
    BY <1>2, <1>11 DEF ClaimLink, At, Leave, Goto, k, n, IInv, TypeOK, TaskStates
  <2>2. n.op = "redeem" /\ n.actor = "platform" /\ n.who \in Entertainers
        /\ {"active", "unexpired"} \subseteq seen'[t]
    BY <1>1, <1>3, <1>4, <2>1 DEF StageOK
  <2>3. n.actor \notin Entertainers /\ Needs(n) \subseteq seen'[t]
    BY <2>2, PeopleAssumption DEF Needs
  <2>4. QED
    BY <2>1, <2>2, <2>3 DEF StageOK, n, Needs
<1>12. QED
  BY <1>6, <1>7, <1>8, <1>9, <1>10, <1>11

\* A request keeps, at each stage, the facts it rests on.
LEMMA StepKeepsStages ==
  ASSUME IInv, StepTypes, Step, Collect, NEW u \in Tasks
  PROVE  StageOK(task[u], seen[u])'
<1>1. ASSUME NEW t \in Tasks, NEW op \in Operations \ {"redeem"}, NEW e \in Entertainers,
             NEW role \in {"platform", "venue"}, AdminRequest(t, op, role, e)
      PROVE  StageOK(task[u], seen[u])'
  <2>1. CASE u = t
    <3>1. task'[t].pc = "guard" /\ task'[t].op = op /\ task'[t].actor = role /\ task'[t].who = e
      BY <1>1 DEF AdminRequest, IdleTask, IInv, TypeOK
    <3>2. op # "confirm" /\ role \notin Entertainers
      BY <1>1, PeopleAssumption DEF AdminRequest, Roles, ConfirmRoles
    <3>3. QED
      BY <2>1, <3>1, <3>2 DEF StageOK
  <2>2. CASE u # t
    BY <1>1, <2>2, StageKept DEF AdminRequest, IInv, TypeOK
  <2>3. QED
    BY <2>1, <2>2
<1>2. ASSUME NEW t \in Tasks, NEW op \in Operations \ {"redeem"}, NEW e \in Entertainers,
             NEW holder \in Entertainers, EntertainerRequest(t, op, holder, e)
      PROVE  StageOK(task[u], seen[u])'
  <2>1. CASE u = t
    <3>1. task'[t].pc = "validate" /\ task'[t].op = op /\ task'[t].actor = holder /\ task'[t].who = e
      BY <1>2 DEF EntertainerRequest, IdleTask, IInv, TypeOK
    <3>2. op \in {"read", "confirm"}
      BY <1>2 DEF EntertainerRequest, Roles, IssueRoles, Operations
    <3>3. QED
      BY <2>1, <3>1, <3>2 DEF StageOK
  <2>2. CASE u # t
    BY <1>2, <2>2, StageKept DEF EntertainerRequest, IInv, TypeOK
  <2>3. QED
    BY <2>1, <2>2
<1>3. ASSUME NEW t \in Tasks, NEW l \in Links, StartRedeem(t, l)
      PROVE  StageOK(task[u], seen[u])'
  <2>1. CASE u = t
    <3>1. /\ task'[t].pc = "check" /\ task'[t].op = "redeem" /\ task'[t].actor = "platform"
          /\ task'[t].who = link[l].owner /\ task'[t].link = l
      BY <1>3 DEF StartRedeem, IdleTask, IInv, TypeOK
    <3>2. link[l].owner \in Entertainers
      BY <1>3 DEF StartRedeem, IInv, LinksOK
    <3>3. QED
      BY <2>1, <3>1, <3>2 DEF StageOK
  <2>2. CASE u # t
    BY <1>3, <2>2, StageKept DEF StartRedeem, IInv, TypeOK
  <2>3. QED
    BY <2>1, <2>2
<1>4. ASSUME NEW t \in Tasks,
             \/ Validate(t) \/ Guard(t) \/ FindEntertainer(t) \/ Supersede(t) \/ CreateLink(t)
             \/ CheckLink(t) \/ ClaimLink(t)
      PROVE  StageOK(task[u], seen[u])'
  <2>1. CASE u = t
    BY <1>4, <2>1, StageMoves
  <2>2. CASE u # t
    <3>1. task'[u] = task[u]
      BY <1>4, <2>2 DEF Validate, Guard, FindEntertainer, Supersede, CreateLink, CheckLink, ClaimLink,
                        Require, Goto, Leave, IInv, TypeOK
    <3>2. QED
      BY <3>1, StageKept
  <2>3. QED
    BY <2>1, <2>2
<1>5. ASSUME NEW t \in Tasks, Answer(t) \/ Fail(t)
      PROVE  StageOK(task[u], seen[u])'
  BY <1>5, StageKept DEF Answer, Fail, Leave, IInv, TypeOK
<1>6. ASSUME \/ \E e \in Entertainers : \E flag \in BOOLEAN : SetActive(e, flag) \/ SetPerforms(e, flag)
             \/ \E l \in Links : Expire(l)
      PROVE  StageOK(task[u], seen[u])'
  BY <1>6, StageKept DEF SetActive, SetPerforms, Expire
<1>7. QED
  BY <1>1, <1>2, <1>3, <1>4, <1>5, <1>6 DEF Step

-----------------------------------------------------------------------------
(* Theorems *)

\* Without links and requests the invariant holds.
THEOREM Initially == Init => IInv
<1> SUFFICES ASSUME Init PROVE IInv
  OBVIOUS
<1> USE DEF Init
<1>1. TypeOK
  BY DEF TypeOK, LinkRows, TaskStates, IdleTask, Operations, Actors
<1>2. LinksOK
  BY DEF LinksOK, MintedOK, PriorOK, Exists, Consumed
<1>3. TasksOK
  BY DEF TasksOK, BeforeOK, StageOK, IdleTask
<1>4. QED
  BY <1>1, <1>2, <1>3 DEF IInv

\* Every step keeps the invariant.
THEOREM Inductive == IInv /\ [Next]_vars => IInv'
<1> SUFFICES ASSUME IInv, [Next]_vars PROVE IInv'
  OBVIOUS
<1>1. CASE Next
  <2>1. Step /\ Collect /\ TypeOK
    BY <1>1 DEF Next, IInv
  <2>2. StepTypes
    BY <2>1, StepKeepsTypes
  <2>3. TypeOK'
    BY <2>1, <2>2, CollectTypes DEF StepTypes, TypeOK
  <2>4. LinksOK'
    BY <2>1, StepKeepsLinks
  <2>5. TasksOK'
    BY <2>1, <2>2, StepKeepsBefore, StepKeepsStages DEF TasksOK
  <2>6. QED
    BY <2>3, <2>4, <2>5 DEF IInv
<1>2. CASE UNCHANGED vars
  BY <1>2 DEF vars, IInv, TypeOK, LinksOK, MintedOK, PriorOK, TasksOK, BeforeOK, StageOK, Exists,
              Consumed, Needs
<1>3. QED
  BY <1>1, <1>2

\* The invariant holds always.
THEOREM Invariance == Spec => []IInv
<1>1. QED
  BY Initially, Inductive, PTL DEF Spec

\* Type correctness of entertainer-auth, for any entertainers, links and requests.
THEOREM TypeCorrect == Spec => []TypeOK
<1>1. IInv => TypeOK
  BY DEF IInv
<1>2. QED
  BY <1>1, Invariance, PTL

\* redeem mints one session per link, for any number of simultaneous taps.
THEOREM LinksMintOnce == Spec => []OneSessionPerLink
<1>1. IInv => OneSessionPerLink
  BY DEF IInv, LinksOK, MintedOK, OneSessionPerLink
<1>2. QED
  BY <1>1, Invariance, PTL

\* No step mints a session from a link that a later request has replaced.
THEOREM SupersededLinksAreDead == Spec => SupersededIsDead
<1>1. IInv /\ [Next]_vars
        => [\A l, n \in Links : minted'[l] # minted[l] => ~Supersedes(n, l)]_vars
  <2> SUFFICES ASSUME IInv, Next, NEW l \in Links, NEW n \in Links, minted'[l] # minted[l]
               PROVE  ~Supersedes(n, l)
    OBVIOUS
  <2>1. PICK t \in Tasks : ClaimLink(t) /\ Unconsumed(task[t].link)
    BY DEF Next, Step, AdminRequest, EntertainerRequest, Validate, Guard, FindEntertainer, Supersede,
           CreateLink, StartRedeem, CheckLink, ClaimLink, Answer, Fail, SetActive, SetPerforms, Expire,
           tokens
  <2>2. task[t].link = l
    BY <2>1 DEF ClaimLink, IInv, TypeOK
  <2>3. ~Consumed(l)
    BY <2>1, <2>2 DEF Unconsumed, Consumed
  <2>4. QED
    BY <2>3 DEF Supersedes, IInv, LinksOK, PriorOK
<1>2. QED
  BY <1>1, Invariance, PTL DEF Spec, SupersededIsDead

\* What JwtStrategy, the guards, issueLoginLink and redeem grant rests on facts that held
\* during the request, and only an entertainer confirms her own account.
THEOREM GrantsAreEntitled == Spec => []EntitledDuringRequest
<1>1. IInv => EntitledDuringRequest
  BY DEF IInv, TasksOK, StageOK, EntitledDuringRequest, At
<1>2. QED
  BY <1>1, Invariance, PTL
=============================================================================
