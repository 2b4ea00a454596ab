---------------------------- MODULE MCProgramHost ----------------------------
(***************************************************************************)
(* Instances of ProgramHost for TLC.                                       *)
(***************************************************************************)
EXTENDS ProgramHost
=============================================================================
