------------------------ MODULE MCCredentialRegistry ------------------------
(***************************************************************************)
(* The two registries together on a small instance for TLC: one EU root,   *)
(* one account that is an institution and a holder, accreditations below   *)
(* ministries the root accredits itself.                                   *)
(***************************************************************************)
EXTENDS CredentialRegistry
=============================================================================
