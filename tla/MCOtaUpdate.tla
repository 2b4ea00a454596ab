----------------------------- MODULE MCOtaUpdate -----------------------------
(***************************************************************************)
(* Instances of OtaUpdate for TLC.                                         *)
(***************************************************************************)
EXTENDS OtaUpdate
=============================================================================
