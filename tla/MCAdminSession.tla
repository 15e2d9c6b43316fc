---------------------------- MODULE MCAdminSession ----------------------------
EXTENDS AdminSession, TLC

CONSTANTS state1, ministry1

(* A member state has one accreditation to fetch, a ministry has two. *)
MCScope == [a \in Accounts |-> IF a = state1 THEN "MemberState" ELSE "Ministry"]
MCFetches == [a \in Accounts |-> IF a = state1 THEN 1 ELSE 2]

SessionSymmetry == Permutations(Conns) \cup Permutations(Inits)
=============================================================================
