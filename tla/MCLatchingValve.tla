--------------------------- MODULE MCLatchingValve ---------------------------
(***************************************************************************)
(* Instances of LatchingValve for TLC.                                     *)
(***************************************************************************)
EXTENDS LatchingValve

CONSTANTS r1, r2  \* model values

\* Two people pressing Reset: both can be in flight, and both in one pass.
TwoResets == {r1, r2}
=============================================================================
