---------------------------- MODULE MCWalletProfile ----------------------------
EXTENDS WalletProfile, TLC

(* No property tells two saves, two loads or two values apart. *)
ProfileSymmetry == Permutations(Saves) \cup Permutations(Loads) \cup Permutations(Values)
=============================================================================
