----------------------- MODULE MCEnterpriseRegistration -----------------------
(***************************************************************************)
(* Enterprise requests on a small instance for TLC.                        *)
(***************************************************************************)
EXTENDS EnterpriseRegistration, TLC

\* Requests and reviewers are interchangeable.
Symmetry == Permutations(Requests) \cup Permutations(Reviewers)
=============================================================================
