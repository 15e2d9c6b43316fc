---------------------------- MODULE MCWalletSetup ----------------------------
(***************************************************************************)
(* Setting up one wallet, on a small instance for TLC.                     *)
(***************************************************************************)
EXTENDS WalletSetup, TLC

\* Requests are interchangeable.
Symmetry == Permutations(Requests)
=============================================================================
