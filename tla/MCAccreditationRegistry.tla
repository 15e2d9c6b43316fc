----------------------- MODULE MCAccreditationRegistry -----------------------
(***************************************************************************)
(* The accreditation registry on a small instance for TLC.                 *)
(***************************************************************************)
EXTENDS AccreditationRegistry

CONSTANTS root, alice, anyPermission

\* An id the owner can compute before it is issued: naming it as a parent makes
\* the dangling and, once it is issued under its own descendant, circular chains.
PredictedIds ==
  {AccreditationId(root, root, "MemberState", anyPermission, 1)}
=============================================================================
