--------------------------------- MODULE Doors ---------------------------------
(***************************************************************************)
(* What the two locks of the wallet promise: a door opens only by a proof  *)
(* (a right PIN, a biometric check) given for that door, each proof opens  *)
(* it once, and the wallet's door is never open while the app's is shut.   *)
(***************************************************************************)
EXTENDS Naturals

Doors == {"app", "wallet"}

VARIABLES
  open,     \* doors that are open
  proofs    \* proofs given for a door and not used yet

doorVars == <<open, proofs>>

DoorInit == open = {} /\ proofs = [d \in Doors |-> 0]

Prove(d) == proofs' = [proofs EXCEPT ![d] = @ + 1] /\ UNCHANGED open

(* The owner's own wallet is opened by having been set up. *)
Open(d) ==
  /\ proofs[d] > 0
  /\ d = "wallet" => "app" \in open
  /\ open' = open \cup {d}
  /\ proofs' = [proofs EXCEPT ![d] = @ - 1]

CloseWallet == open' = open \ {"wallet"} /\ UNCHANGED proofs

(* Shutting the app's door voids what was proved to the wallet's. *)
CloseApp ==
  /\ open' = {}
  /\ proofs' = [proofs EXCEPT !["wallet"] = 0]

Restart == open' = {} /\ proofs' = [d \in Doors |-> 0]

DoorNext ==
  \/ \E d \in Doors : Prove(d) \/ Open(d)
  \/ CloseWallet
  \/ CloseApp
  \/ Restart

DoorSpec == DoorInit /\ [][DoorNext]_doorVars
=============================================================================
