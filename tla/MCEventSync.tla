------------------------------ MODULE MCEventSync ------------------------------
(***************************************************************************)
(* The event pipeline on a small instance for TLC.                         *)
(***************************************************************************)
EXTENDS EventSync
=============================================================================
