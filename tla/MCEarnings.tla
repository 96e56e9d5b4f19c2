----------------------------- MODULE MCEarnings -----------------------------
(* A small instance of Earnings for TLC. *)
EXTENDS Earnings

\* A tip that its performer shares with the platform, and one for the venue.
MCTerms ==
  {[gross |-> 7, hasEntertainer |-> TRUE, entertainerBps |-> 8, venueBps |-> 0, platformBps |-> 2],
   [gross |-> 7, hasEntertainer |-> FALSE, entertainerBps |-> 5, venueBps |-> 3, platformBps |-> 2]}
=============================================================================
