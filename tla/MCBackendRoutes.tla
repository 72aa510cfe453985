---------------------------- MODULE MCBackendRoutes ----------------------------
(* Instances of BackendRoutes for TLC.                                       *)
EXTENDS BackendRoutes

Labels == <<{"task"}, {"output_format"}, {"edge", "limit"}>>
Indices == 0..2
Lists == {<<>>} \cup {<<i>> : i \in Indices} \cup {<<i, j>> : i, j \in Indices}
ShortLists == {<<>>, <<0>>, <<2>>, <<-1, 1>>, <<3, 0>>, <<0, 0, 2>>}

Classification(texts, deps) ==
  [n \in 1..3 |-> [text |-> texts[n], label |-> Labels[n], deps |-> deps[n]]]

(* Three different texts with every list of at most two dependencies; equal *)
(* or blank texts and indices out of range; and no section at all.          *)
MCAnswers ==
  {<<>>}
  \cup {Classification(<<"a", "b", "c">>, deps) : deps \in [1..3 -> Lists]}
  \cup {Classification(texts, deps) : texts \in {<<"a", "a", "b">>, <<"a", Blank, "b">>},
          deps \in [1..3 -> ShortLists]}

FewAnswers == {<<>>}

MCSegments == <<"a", "b">>
===============================================================================
