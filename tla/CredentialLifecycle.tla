------------------------- MODULE CredentialLifecycle -------------------------
(***************************************************************************)
(* What the credential registry promises about every credential, whoever   *)
(* calls it and whatever happens to its issuer: it is recorded once, may   *)
(* be suspended and reactivated any number of times, and a revocation is   *)
(* the end of it.  One step concerns one credential.                       *)
(***************************************************************************)
CONSTANT Credentials

VARIABLE status

Init == status = [c \in Credentials |-> "None"]

Change(c, from, to) ==
  status[c] \in from /\ status' = [status EXCEPT ![c] = to]

Record(c) == Change(c, {"None"}, "Active")

Suspend(c) == Change(c, {"Active"}, "Suspended")

Reactivate(c) == Change(c, {"Suspended"}, "Active")

Revoke(c) == Change(c, {"Active", "Suspended"}, "Revoked")

Next ==
  \E c \in Credentials : Record(c) \/ Suspend(c) \/ Reactivate(c) \/ Revoke(c)

Spec == Init /\ [][Next]_status
=============================================================================
