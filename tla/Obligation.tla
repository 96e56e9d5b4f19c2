----------------------------- MODULE Obligation -----------------------------
(***************************************************************************)
(* What the payout engine promises of the obligations in the ledger,       *)
(* whatever its queue, its workers and the provider do: an obligation is   *)
(* written off only against a transfer the bank delivered, comes back only *)
(* after a delivered transfer bounced, and is written off and restored     *)
(* strictly in turns, so that its balance is never negative and never      *)
(* counted twice.                                                          *)
(***************************************************************************)
EXTENDS Integers

CONSTANTS Payouts, Attempts

VARIABLES
  owed,       \* per payout, how many times its amount stands in the payable account
  delivered,  \* per payout, the transfers the bank has ever delivered
  bounced     \* per payout, the delivered transfers that came back

vars == <<owed, delivered, bounced>>

Init ==
  /\ owed = [p \in Payouts |-> 1]
  /\ delivered = [p \in Payouts |-> {}]
  /\ bounced = [p \in Payouts |-> {}]

Deliver(p, n) ==
  /\ n \notin delivered[p]
  /\ delivered' = [delivered EXCEPT ![p] = @ \cup {n}]
  /\ UNCHANGED <<owed, bounced>>

Bounce(p, n) ==
  /\ n \in delivered[p] \ bounced[p]
  /\ bounced' = [bounced EXCEPT ![p] = @ \cup {n}]
  /\ UNCHANGED <<owed, delivered>>

\* The ledger takes the obligation off the books.
WriteOff(p) ==
  /\ owed[p] = 1
  /\ delivered[p] # {}
  /\ owed' = [owed EXCEPT ![p] = 0]
  /\ UNCHANGED <<delivered, bounced>>

\* The ledger puts it back.
Restore(p) ==
  /\ owed[p] = 0
  /\ bounced[p] # {}
  /\ owed' = [owed EXCEPT ![p] = 1]
  /\ UNCHANGED <<delivered, bounced>>

Next ==
  \E p \in Payouts :
    \/ WriteOff(p) \/ Restore(p)
    \/ \E n \in Attempts : Deliver(p, n) \/ Bounce(p, n)

Spec == Init /\ [][Next]_vars
=============================================================================
