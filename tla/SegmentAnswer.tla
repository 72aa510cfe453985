----------------------------- MODULE SegmentAnswer -----------------------------
(***************************************************************************)
(* What POST /segment makes of a classification (services/segment.ts): the *)
(* ids of the sections, their goal types and slots, and the dependencies   *)
(* that are kept.  A classification is a sequence of records with a text   *)
(* (after trim), a label, and deps, the indices it depends on.             *)
(***************************************************************************)
EXTENDS Integers, Sequences, FiniteSets, SequencesExt, TLC

Blank == ""   \* a text of white space, once trimmed

(* CANONICAL_SLOT_INDEX.                                                    *)
SlotOrder ==
  <<"context", "tech_stack", "constraint", "action", "output_format", "edge_case">>

GoalTypes == {SlotOrder[n] : n \in DOMAIN SlotOrder}

canonicalSlotForGoalType(goal) == CHOOSE n \in DOMAIN SlotOrder : SlotOrder[n] = goal

(* Labels that name a goal type, or a synonym of one; a label is the set of *)
(* its words, and the words of a goal type's own name are one word here.    *)
GoalOfWord ==
  [n \in GoalTypes |-> n] @@
  [background |-> "context", stack |-> "tech_stack", requirement |-> "constraint",
   task |-> "action", format |-> "output_format", exception |-> "edge_case"]

(* For any other label, the first row with one of its words decides.        *)
WordsOfGoal ==
  << <<"tech_stack", {"tech_stack", "tech", "stack", "framework"}>>,
     <<"output_format", {"output_format", "output", "format", "schema"}>>,
     <<"edge_case", {"edge_case", "edge", "corner", "exception"}>>,
     <<"constraint", {"constraint", "requirement", "limit"}>>,
     <<"context", {"context", "background"}>> >>

normalizeGoalType(label) ==
  LET hits == {n \in DOMAIN WordsOfGoal : label \cap WordsOfGoal[n][2] # {}}
  IN CASE \E w \in DOMAIN GoalOfWord : label = {w} ->
            GoalOfWord[CHOOSE w \in label : TRUE]
       [] hits # {} -> WordsOfGoal[Min(hits)][1]
       [] OTHER -> "action"

(* A section of a classification, as its schema lets it through: "other"  *)
(* is every word that is in neither table.                                  *)
Words ==
  GoalTypes \cup DOMAIN GoalOfWord
  \cup UNION {WordsOfGoal[n][2] : n \in DOMAIN WordsOfGoal} \cup {"other"}

Sections == [text : STRING, label : SUBSET Words, deps : Seq(Int)]

(* deriveStableSectionId: the text, and its occurrences so far.             *)
SectionIds(raw) ==
  [n \in DOMAIN raw |->
     <<raw[n].text, Cardinality({m \in 1..(n - 1) : raw[m].text = raw[n].text})>>]

(* The code's indices start at 0.                                           *)
translateDependencyIndices(deps, ids) ==
  LET translated[d \in 0..Len(deps)] ==
        IF d = 0 THEN <<>>
        ELSE IF deps[d] \in 0..(Len(ids) - 1)
        THEN Append(translated[d - 1], ids[deps[d] + 1])
        ELSE translated[d - 1]
  IN translated[Len(deps)]

Neighbors(edges, S) == UNION {ToSet(edges[id]) : id \in S}

(* Mutant: only direct dependencies are looked at.                          *)
hasEdge(from, target, edges) == target \in ToSet(edges[from])

(* The code's stack walk: everything that n rounds reach.                   *)
hasPath(from, target, edges) ==
  LET rounds == Cardinality(DOMAIN edges)
      reached[n \in 0..rounds] ==
        IF n = 0 THEN {from}
        ELSE LET before == reached[n - 1] IN before \cup Neighbors(edges, before)
  IN target \in reached[rounds]

Keep(edges, id, dep) ==
  IF dep = id \/ dep \in ToSet(edges[id]) \/ hasPath(dep, id, edges)
  THEN edges
  ELSE [edges EXCEPT ![id] = Append(@, dep)]

(* The dependencies of one section are taken in their order, each against   *)
(* those kept so far, and the sections in theirs.                           *)
KeepAll(edges, id, deps) ==
  LET kept[d \in 0..Len(deps)] ==
        IF d = 0 THEN edges ELSE Keep(kept[d - 1], id, deps[d])
  IN kept[Len(deps)]

sanitizeDependencies(ids, translated) ==
  LET kept[n \in 0..Len(ids)] ==
        IF n = 0 THEN [id \in ToSet(ids) |-> <<>>]
        ELSE KeepAll(kept[n - 1], ids[n], translated[n])
  IN kept[Len(ids)]

(* normalizeSegmentClassificationIntermediate.                              *)
Normalized(raw) ==
  LET ids == SectionIds(raw)
      kept == sanitizeDependencies(ids,
                [n \in DOMAIN raw |-> translateDependencyIndices(raw[n].deps, ids)])
  IN [n \in DOMAIN raw |->
        LET goal == normalizeGoalType(raw[n].label)
        IN [id |-> ids[n], text |-> raw[n].text, goal_type |-> goal,
            canonical_order |-> canonicalSlotForGoalType(goal),
            depends_on |-> kept[ids[n]]]]

(* segmentResponseSchema: a text, which is kept but for trim, is not empty. *)
MatchesSchema(raw) == \A n \in DOMAIN raw : raw[n].text # Blank

(* createDeterministicSegmentFallbackIntermediate.                          *)
FallbackFor(segments) ==
  [n \in DOMAIN segments |-> [text |-> segments[n], label |-> {"context"}, deps |-> <<>>]]

-------------------------------------------------------------------------------
(* What the answer is meant to be, stated without the walk.                 *)

Edges(sections) ==
  {e \in (DOMAIN sections) \X (DOMAIN sections) :
     sections[e[2]].id \in ToSet(sections[e[1]].depends_on)}

(* The sections can be put in an order that respects every dependency.      *)
CanBeOrdered(n, edges) ==
  \E rank \in [1..n -> 1..n] : \A e \in edges : rank[e[2]] < rank[e[1]]

Asked(raw) ==
  {e \in (DOMAIN raw) \X (DOMAIN raw) :
     e[1] # e[2] /\ (e[2] - 1) \in ToSet(raw[e[1]].deps)}

(* Ids are unique, dependencies are listed once and form no cycle, and one  *)
(* that was asked for is left out only if it would close a cycle.           *)
IsSound(raw, sections) ==
  LET edges == Edges(sections)
  IN /\ Len(sections) = Len(raw)
     /\ \A s, t \in DOMAIN sections : sections[s].id = sections[t].id => s = t
     /\ \A s \in DOMAIN sections : IsInjective(sections[s].depends_on)
     /\ edges \subseteq Asked(raw)
     /\ CanBeOrdered(Len(raw), edges)
     /\ \A e \in Asked(raw) \ edges : ~CanBeOrdered(Len(raw), edges \cup {e})
===============================================================================
