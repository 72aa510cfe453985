------------------------------ MODULE MCRateLimit ------------------------------
(* Instances of RateLimit for TLC.                                           *)
EXTENDS RateLimit, TLC

CONSTANTS c1, c2, c3, ann

(* Calls of one owner are told apart by nothing.                             *)
CallSymmetry == Permutations(Calls)

MCTraffic == {[c \in Calls |-> p] : p \in Paths}
MCOwner == [c \in Calls |-> ann]
MCLimit == [q \in Quotas |-> 1]
MCWindow == [q \in {"burst", "token"} |-> 2]
===============================================================================
