----------------------------- MODULE MCDraftSession -----------------------------
(* Instances of DraftSession for TLC.                                        *)
EXTENDS DraftSession, TLC

CONSTANTS call1, call2, editor, search

(* Inputs are told apart by nothing.                                         *)
DraftSymmetry == Permutations(Inputs)

(* "one" is "fix the bug"; "two" is "fix the bug" and "add a test" on two    *)
(* lines, and "reworded" the same with "log" for "bug".                      *)
MCPositions == {"0-11", "4-11", "12-22"}

(* Where the clauses of "two" are.                                           *)
MCTwoPositions == {"0-11", "12-22"}

MCSplit ==
  [t \in Texts |->
     CASE t = "empty" -> <<>>
       [] t = "one" -> <<"0-11">>
       [] t \in {"two", "reworded"} -> <<"0-11", "12-22">>]

(* The backend may leave out a verb, or a clause, or give nothing.           *)
MCSections ==
  [t \in Texts |->
     CASE t = "empty" -> {<<>>}
       [] t = "one" -> {<<"0-11">>, <<"4-11">>}
       [] t \in {"two", "reworded"} -> {<<>>, <<"12-22">>}]

(* The backend may give the clauses of the script back.                      *)
MCSameSections == [t \in Texts |-> {MCSplit[t]}]

MCWording ==
  [t \in Texts |->
     [p \in Positions |->
        CASE p = "12-22" -> "add a test"
          [] p # "12-22" /\ t = "reworded" -> "log"
          [] p # "12-22" /\ t # "reworded" -> "bug"]]
===============================================================================
