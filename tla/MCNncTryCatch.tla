---------------------------- MODULE MCNncTryCatch ----------------------------
(***************************************************************************)
(* NncTryCatch for TLC: a limit of four TRY statements, so that the last   *)
(* level and the one beyond it are reached.                                *)
(***************************************************************************)
EXTENDS NncTryCatch
==============================================================================
