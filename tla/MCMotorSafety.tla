---------------------------- MODULE MCMotorSafety ----------------------------
(***************************************************************************)
(* Instances of MotorSafety for TLC.                                       *)
(***************************************************************************)
EXTENDS MotorSafety

\* A wall clock that a boot may find right or behind: one that is right and not known to be is loaded on
\* as one that is behind, and its records are loaded as those of a trusted one.
AnyClock == {"trusted", "behind"}
\* One that every boot finds unproven, until NTP has set it.
UnprovenClocks == {"untrusted"}

NoneFails  == {}
AnyMayFail == {"button", "reset", "mains"}
=============================================================================
