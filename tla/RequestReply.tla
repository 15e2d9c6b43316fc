----------------------------- MODULE RequestReply -----------------------------
(***************************************************************************)
(* What a bridge to a worker owes its callers: a call is made once, gets   *)
(* one reply at most, keeps it, and the reply is the worker's answer to    *)
(* that call and to no other.                                              *)
(***************************************************************************)
CONSTANTS Calls, AnswerKinds

VARIABLES asked, reply

Init == asked = {} /\ reply = [c \in {} |-> {}]

Ask(c) ==
  /\ c \notin asked
  /\ asked' = asked \cup {c}
  /\ reply' = reply

Reply(c, kind) ==
  /\ c \in asked \ DOMAIN reply
  /\ reply' = [d \in DOMAIN reply \cup {c} |->
                 IF d = c THEN [of |-> c, kind |-> kind] ELSE reply[d]]
  /\ asked' = asked

Next == \E c \in Calls : Ask(c) \/ \E kind \in AnswerKinds : Reply(c, kind)

Spec == Init /\ [][Next]_<<asked, reply>>
=============================================================================
