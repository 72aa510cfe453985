------------------------------- MODULE MCBridge -------------------------------
(* Instances of Bridge for TLC: one tab, whose page is reloaded or not.      *)
EXTENDS Bridge, TLC

CONSTANTS t1, p1, p2, r1, r2, c1, c2

OneTab == [p \in Ports |-> t1]

(* Each of two successive pages sends a request and a CANCEL.                *)
ReloadPortOf == (r1 :> p1 @@ r2 :> p2 @@ c1 :> p1 @@ c2 :> p2)

(* One page sends everything.                                                *)
PagePortOf == [m \in Requests \cup Cancels |-> p1]
===============================================================================
