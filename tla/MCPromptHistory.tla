---------------------------- MODULE MCPromptHistory ----------------------------
(* Instances of PromptHistory for TLC.                                       *)
EXTENDS PromptHistory, TLC

CONSTANTS a, b, c, d, page, popup, other

(* Texts and operations are told apart by nothing.                           *)
HistorySymmetry == Permutations(Prompts) \cup Permutations(Callers)
===============================================================================
