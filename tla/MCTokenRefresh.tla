---------------------------- MODULE MCTokenRefresh ----------------------------
(* Instances of TokenRefresh for TLC.                                        *)
EXTENDS TokenRefresh, TLC

CONSTANTS c1, c2

(* Callers are told apart by nothing.                                        *)
CallerSymmetry == Permutations(Callers)
===============================================================================
