---------------------------- MODULE VouchedValve ----------------------------
(***************************************************************************)
(* What the node promises of a latching valve, whatever happens to it:     *)
(* a valve whose position is vouched for does not move, and a position is  *)
(* vouched for only where the valve stands.  A node moves a valve by       *)
(* withdrawing its word first and giving it again once the pulse is sure.  *)
(***************************************************************************)

VARIABLES
  vouched,  \* the position the node vouches for, or "none"
  actual    \* where the valve stands

Init == vouched = "none" /\ actual \in {"open", "closed"}

\* A pulse begins, a FAULT, an unclean end.
Withdraw == vouched # "none" /\ vouched' = "none" /\ UNCHANGED actual

\* Only a valve nobody vouches for moves.
Move == vouched = "none" /\ actual' \in {"open", "closed"} /\ UNCHANGED vouched

\* A pulse that ran its full length with its supply.
Vouch == vouched = "none" /\ vouched' = actual /\ UNCHANGED actual

Next == Withdraw \/ Move \/ Vouch

Spec == Init /\ [][Next]_<<vouched, actual>>
============================================================================
