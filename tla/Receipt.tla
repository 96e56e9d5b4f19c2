------------------------------ MODULE Receipt ------------------------------
(***************************************************************************)
(* What settlement promises of the guests' money, whoever asks for it and  *)
(* how often: a charge is entered in the ledger only once the provider has *)
(* taken exactly the amount asked for, it is entered once, together with   *)
(* the payouts it owes, and it is never taken back; and money taken is     *)
(* entered eventually, or left to a human.                                 *)
(***************************************************************************)
CONSTANTS Payments, Shares

VARIABLES
  taken,   \* payments whose amount the provider holds
  booked,  \* per payment, how often it was posted
  owed,    \* per payment, the payees a payout was created for
  parked   \* payments left to a human

vars == <<taken, booked, owed, parked>>

Init ==
  /\ taken = {}
  /\ booked = [p \in Payments |-> 0]
  /\ owed = [p \in Payments |-> {}]
  /\ parked = {}

Take(p) ==
  /\ p \notin taken
  /\ taken' = taken \cup {p}
  /\ UNCHANGED <<booked, owed, parked>>

Book(p) ==
  /\ p \in taken
  /\ booked[p] = 0
  /\ booked' = [booked EXCEPT ![p] = 1]
  /\ owed' = [owed EXCEPT ![p] = Shares[p]]
  /\ UNCHANGED <<taken, parked>>

\* The attempts to enter it are used up.  It may still be entered, but nothing sees to it.
Park(p) ==
  /\ p \in taken \ parked
  /\ parked' = parked \cup {p}
  /\ UNCHANGED <<taken, booked, owed>>

Next == \E p \in Payments : Take(p) \/ Book(p) \/ Park(p)

Spec == Init /\ [][Next]_vars /\ \A p \in Payments : WF_vars(p \notin parked /\ Book(p))

Safety == Init /\ [][Next]_vars
=============================================================================
