--------------------------- MODULE MCRequestExchange ---------------------------
EXTENDS RequestExchange, TLC

(* Approvals are interchangeable: no property tells them apart. *)
ApprovalSymmetry == Permutations(Approvals)
=============================================================================
