---------------------------- MODULE PayoutHistory ----------------------------
(***************************************************************************)
(* The payout engine with a memory: which attempts were taken for dead     *)
(* although their request to the provider was still to come.               *)
(*                                                                         *)
(* processPayout asks the provider about the reference on the row and, if  *)
(* the transfer is unknown, goes on to a new attempt.  Unknown is also a   *)
(* reference whose POST is still on the network, or about to be sent by a  *)
(* worker whose job was handed out a second time; nothing in the code can  *)
(* tell.  The history variable makes it possible to say, of the engine in  *)
(* every environment, that nothing else leads to a second transfer.        *)
(***************************************************************************)
EXTENDS Payout

VARIABLE early  \* history: <<payout, attempt>> taken for dead before its request had landed

historyVars == <<vars, early>>

\* The request of attempt n is on the network, or a task is about to make it.
RequestToCome(p, n) ==
  \/ transfer[p][n] = "inflight"
  \/ \E t \in Tasks : At(p, t, "send") /\ Ref(p, t) = n

\* A job that asked about attempt n goes on to a new one.
TakenForDead(p, n) ==
  \E t \in Tasks : At(p, t, "verify") /\ Ref(p, t) = n /\ task'[p][t].pc = "resolve"

HistoryNext ==
  /\ Next
  /\ early' = early \cup
       {a \in Payouts \X Attempts : TakenForDead(a[1], a[2]) /\ RequestToCome(a[1], a[2])}

HistoryInit == Init /\ early = {}

HistorySpec == HistoryInit /\ [][HistoryNext]_historyVars

FairHistorySpec == HistorySpec /\ Fairness

-----------------------------------------------------------------------------
(* Properties *)

\* "Any existing reference is verified with the provider before a new attempt starts": in
\* every environment, a transfer that moves money, or may yet, is the one the row names,
\* unless it was asked about before its request had landed.  No crash, lost webhook,
\* bounce, operator's retry or race of workers leaves one behind otherwise.
StrayTransfersCameLate ==
  \A p \in Payouts : \A n \in Attempts :
    transfer[p][n] \in Live \cup {"inflight"} => n = attempts[p] \/ <<p, n>> \in early

\* So of two transfers of one payout that both move money, one came late in that sense.
DoubleTransfersCameLate ==
  \A p \in Payouts : \A m, n \in Attempts :
    transfer[p][m] \in Live /\ transfer[p][n] \in Live =>
      m = n \/ <<p, m>> \in early \/ <<p, n>> \in early

\* A new attempt is claimed when every earlier transfer is over without having moved money
\* and nobody is about to ask for it, but for the ones that came late.
AttemptsFollowTheDead ==
  [][\A p \in Payouts : attempts'[p] # attempts[p] =>
       /\ attempts'[p] = attempts[p] + 1
       /\ \A n \in Attempts : <<p, n>> \in early \/
            /\ transfer[p][n] \in {"none", "failed", "reversed"}
            /\ \A t \in Tasks : At(p, t, "send") => Ref(p, t) # n]_historyVars
=============================================================================
