---------------------------- MODULE MCPresentation ----------------------------
(***************************************************************************)
(* Two approvals over one bridge.  "master" is shaped like the requests    *)
(* the app itself builds, a proof and a credential without a callbackUrl;  *)
(* "posted" names a callbackUrl, and asks for a document and two proofs,   *)
(* and between these for something the app does not know.                  *)
(***************************************************************************)
EXTENDS Presentation

MCApprovals == {1, 2}
MCRequests == {"master", "posted"}
MCRequirements ==
  [r \in MCRequests |->
     IF r = "master" THEN <<"zkp", "credential-ref">>
     ELSE <<"full-disclosure", "zkp", "unknown", "zkp">>]
MCHasCallback == {"posted"}
MCCalls == MCApprovals \X (1 .. 4) \X {"prove", "verify"}
=============================================================================
