----------------------------- MODULE DraftProofs -----------------------------
(* Theorems of DraftSession, for all texts, clauses, inputs and bind calls  *)
(* and every bound on edits and tokens: the bind gate, the bind and the     *)
(* expansions of a draft session.                                           *)
EXTENDS DraftTypeProofs

-------------------------------------------------------------------------------
(* What a change of the active object leaves of the objects and expansions  *)
(* that are not its own.                                                    *)

(* No other object has the boxes that are chosen for the new one.           *)
LEMMA BoxesAreFree ==
  ASSUME TypeInv
  PROVE  /\ \A s \in DOMAIN states : states[s].box # FreshBox
         /\ \A s \in DOMAIN states \ {active} : states[s].box # OwnBox
<1>1. IsFiniteSet({states[s].box : s \in DOMAIN states})
  BY BoxesAreFinite, Zenon DEF TypeInv
<1>2. IsFiniteSet(DOMAIN states \ {active})
  BY FS_Subset DEF TypeInv
<1>3. IsFiniteSet({states[s].box : s \in DOMAIN states \ {active}})
  BY <1>2, BoxesAreFinite, Zenon
<1>4. FreshBox \notin {states[s].box : s \in DOMAIN states}
  BY <1>1, UnusedIsFree, Zenon DEF FreshBox
<1>5. OwnBox \notin {states[s].box : s \in DOMAIN states \ {active}}
  BY <1>3, UnusedIsFree, Zenon DEF OwnBox
<1>6. QED
  BY <1>4, <1>5, Zenon

(* n shares its acceptances with no object that o does not share them with, *)
(* and names of o's expansions those whose clauses it has.                  *)
Kept(o, n) ==
  /\ n.box \in {o.box, OwnBox}
  /\ \A q \in Positions : n.activeEnhance[q] # NoRequest =>
       /\ n.activeEnhance[q] = o.activeEnhance[q]
       /\ q \in ClausesOf(o) => q \in ClausesOf(n)

LEMMA SameKept ==
  ASSUME NEW o, NEW n, n.box = o.box, n.activeEnhance = o.activeEnhance,
         n.draftSegments = o.draftSegments
  PROVE  Kept(o, n)
BY DEF Kept, ClausesOf

LEMMA KeptTwice ==
  ASSUME NEW o, NEW m, NEW n, Kept(o, m), Kept(m, n)
  PROVE  Kept(o, n)
BY DEF Kept

LEMMA OperatorsKeep ==
  ASSUME TextsAssumption, NEW o \in InputState, NEW r
  PROVE  /\ Kept(o, BindCancelled(o)) /\ Kept(o, WorkCleared(o))
         /\ Kept(o, Interrupted(o)) /\ Kept(o, Copied(o)) /\ Kept(o, DraftCleared(o))
         /\ Kept(o, BindDone(o)) /\ Kept(o, BindFailed(o)) /\ Kept(o, EnhanceEnded(o, r))
<1>1. \A m \in InputState :
        /\ BindCancelled(m).box = m.box /\ BindCancelled(m).activeEnhance = m.activeEnhance
        /\ BindCancelled(m).draftSegments = m.draftSegments
  BY DEF BindCancelled, InputState
<1>2. \A m \in InputState :
        /\ WorkCleared(m).box = m.box /\ WorkCleared(m).activeEnhance = m.activeEnhance
        /\ WorkCleared(m).draftSegments = m.draftSegments
  BY DEF WorkCleared, InputState
<1>3. Kept(o, BindCancelled(o)) /\ Kept(o, WorkCleared(o))
  BY <1>1, <1>2, SameKept
<1>4. /\ Interrupted(o).box = o.box /\ Interrupted(o).activeEnhance = o.activeEnhance
      /\ Interrupted(o).draftSegments = o.draftSegments
  <2> DEFINE w == WorkCleared(BindCancelled(o))
  <2>1. /\ w \in InputState /\ w.box = o.box /\ w.activeEnhance = o.activeEnhance
        /\ w.draftSegments = o.draftSegments
    BY <1>1, <1>2, BindCancelledType, WorkClearedType
  <2> HIDE DEF w
  <2>2. Interrupted(o) = [w EXCEPT !.draftIsStale = TRUE,
                                   !.hasStaleAccepted = @ \/ o.accepted # {}]
    BY DEF Interrupted, w
  <2>3. QED
    BY <2>1, <2>2 DEF InputState
<1>5. /\ Copied(o).box = o.box /\ Copied(o).activeEnhance = o.activeEnhance
      /\ Copied(o).draftSegments = o.draftSegments
  BY <1>4, InterruptedType DEF Copied, InputState
<1>6. Kept(o, DraftCleared(o))
  <2>1. /\ DraftCleared(o).box = o.box
        /\ \A q \in Positions : DraftCleared(o).activeEnhance[q] = NoRequest
    BY DEF DraftCleared, InputState
  <2>2. QED
    BY <2>1 DEF Kept
<1>7. Kept(o, BindDone(o)) /\ Kept(o, BindFailed(o))
  <2>1. /\ BindDone(o).box = o.box /\ BindDone(o).activeEnhance = o.activeEnhance
        /\ BindDone(o).draftSegments = o.draftSegments
    BY DEF BindDone, InputState
  <2>2. /\ BindFailed(o).box = o.box /\ BindFailed(o).activeEnhance = o.activeEnhance
        /\ BindFailed(o).draftSegments = o.draftSegments
    BY DEF BindFailed, InputState
  <2>3. QED
    BY <2>1, <2>2, SameKept
<1>8. Kept(o, EnhanceEnded(o, r))
  <2> DEFINE n == EnhanceEnded(o, r)
  <2>1. /\ n.box = o.box /\ n.draftSegments = o.draftSegments
        /\ n.activeEnhance = [q \in Positions |-> IF o.activeEnhance[q] = r THEN NoRequest
                                                  ELSE o.activeEnhance[q]]
    BY DEF EnhanceEnded, InputState
  <2> HIDE DEF n
  <2>2. Kept(o, n)
    BY <2>1 DEF Kept, ClausesOf
  <2>3. QED
    BY <2>2 DEF n
<1>9. QED
  BY <1>3, <1>4, <1>5, <1>6, <1>7, <1>8, SameKept

(* A migration keeps the expansions of the clauses that both drafts have,   *)
(* so that the object may get either draft.                                 *)
LEMMA MigratedKept ==
  ASSUME TextsAssumption, NEW o \in InputState, NEW new \in Seq(Positions), OwnBox \in Nat
  PROVE  LET m == Migrated(o, new)
         IN  /\ m \in InputState /\ m.box = OwnBox /\ m.draftSegments = o.draftSegments
             /\ \A q \in Positions : m.activeEnhance[q] # NoRequest =>
                  /\ m.activeEnhance[q] = o.activeEnhance[q]
                  /\ q \in {new[k] : k \in DOMAIN new}
<1> DEFINE m == Migrated(o, new)
           upstream == Undiverged(o.draftSegments, new)
           Live(q) == \/ o.activeEnhance[q] = NoRequest
                      \/ \E k \in upstream : new[k] = q
           enhances == [q \in Positions |-> IF Live(q) THEN o.activeEnhance[q] ELSE NoRequest]
           expansions == [q \in Positions |-> IF Live(q) THEN o.enhancedText[q] ELSE NoText]
           kept == MigratedAcceptance(o, new)
           stale == ~(kept \subseteq upstream) \/ (o.hasStaleAccepted /\ kept # {})
<1>1. m = [o EXCEPT !.accepted = kept, !.box = OwnBox, !.hasStaleAccepted = stale,
                    !.activeEnhance = enhances, !.enhancedText = expansions]
  BY DEF Migrated, InputState
<1>2. upstream \subseteq DOMAIN new
  <2>1. Len(new) \in Nat /\ DOMAIN new = 1..Len(new)
    BY LenProperties
  <2>2. Len(o.draftSegments) \in Nat
    BY LenProperties DEF InputState
  <2> DEFINE a == Len(o.draftSegments)
             b == Len(new)
  <2>3. upstream \subseteq 1..SmallerOf(a, b)
    BY DEF Undiverged
  <2> HIDE DEF a, b
  <2>4. a \in Nat /\ b \in Nat => 1..SmallerOf(a, b) \subseteq 1..b
    BY DEF SmallerOf
  <2>5. QED
    BY <2>1, <2>2, <2>3, <2>4 DEF a, b
<1>3. \A q \in Positions : enhances[q] # NoRequest =>
        enhances[q] = o.activeEnhance[q] /\ q \in {new[k] : k \in DOMAIN new}
  <2> HIDE DEF upstream
  <2>1. QED
    BY <1>2
<1> HIDE DEF kept, stale, enhances, expansions, m
<1>4. m.box = OwnBox /\ m.draftSegments = o.draftSegments /\ m.activeEnhance = enhances
  BY <1>1 DEF InputState
<1>5. m \in InputState
  BY MigratedType DEF m
<1>6. QED
  BY <1>3, <1>4, <1>5 DEF m

(* m, with the draft it has, is rendered or not.                            *)
LEMMA RenderedKept ==
  ASSUME TextsAssumption, NEW o \in InputState, NEW new \in Seq(Positions), OwnBox \in Nat,
         NEW m \in InputState, m.box = Migrated(o, new).box,
         m.activeEnhance = Migrated(o, new).activeEnhance, m.draftSegments = o.draftSegments
  PROVE  /\ Kept(o, m) /\ Kept(o, DraftCleared(m))
         /\ \A text, stale : Kept(o, Rendered(m, text, new, stale))
<1>1. /\ m.box = OwnBox
      /\ \A q \in Positions : m.activeEnhance[q] # NoRequest =>
           /\ m.activeEnhance[q] = o.activeEnhance[q]
           /\ q \in {new[k] : k \in DOMAIN new}
  BY MigratedKept
<1>2. Kept(o, m)
  BY <1>1 DEF Kept, ClausesOf
<1>3. Kept(o, DraftCleared(m))
  BY <1>2, OperatorsKeep, KeptTwice
<1>4. ASSUME NEW text, NEW stale
      PROVE  Kept(o, [m EXCEPT !.draftText = text, !.draftSegments = new, !.draftIsStale = stale])
  <2> DEFINE n == [m EXCEPT !.draftText = text, !.draftSegments = new, !.draftIsStale = stale]
  <2>1. n.box = m.box /\ n.activeEnhance = m.activeEnhance /\ n.draftSegments = new
    BY DEF InputState
  <2> HIDE DEF n
  <2>2. Kept(o, n)
    BY <1>1, <2>1 DEF Kept, ClausesOf
  <2>3. QED
    BY <2>2 DEF n
<1>5. QED
  BY <1>2, <1>3, <1>4 DEF Rendered

(* A step in which the active object stays, changed in such a way or not.   *)
ObjectKept ==
  /\ active' = active
  /\ \/ UNCHANGED states
     \/ active # 0 /\ \E n \in InputState : Update(n) /\ Kept(Current, n)

LEMMA UpdatedKept ==
  ASSUME TypeInv, TypeInv', active # 0, active' = active, NEW n, Update(n), Kept(Current, n)
  PROVE  ObjectKept
<1>1. active \in DOMAIN states
  BY CurrentType
<1>2. states'[active] = n /\ active \in DOMAIN states'
  BY <1>1 DEF Update
<1>3. n \in InputState
  BY <1>2 DEF TypeInv, TypeOK
<1>4. QED
  BY <1>3 DEF ObjectKept

(* The other fields of o leave box, draft and expansions alone.             *)
LEMMA FieldsKeep ==
  ASSUME NEW o \in InputState, NEW a, NEW b
  PROVE  \A n : n \in {[o EXCEPT !.focused = a],
                       [o EXCEPT !.debounce = a, !.extracted = b],
                       [o EXCEPT !.accepted = a, !.focused = b],
                       [o EXCEPT !.accepted = a, !.hasStaleAccepted = b],
                       [o EXCEPT !.bindPhase = a, !.pendingGhostText = b],
                       [o EXCEPT !.activeSegment = a],
                       [o EXCEPT !.input = a]} => Kept(o, n)
<1>1. ASSUME NEW n, n \in {[o EXCEPT !.focused = a],
                           [o EXCEPT !.debounce = a, !.extracted = b],
                           [o EXCEPT !.accepted = a, !.focused = b],
                           [o EXCEPT !.accepted = a, !.hasStaleAccepted = b],
                           [o EXCEPT !.bindPhase = a, !.pendingGhostText = b],
                           [o EXCEPT !.activeSegment = a],
                           [o EXCEPT !.input = a]}
      PROVE  /\ n.box = o.box /\ n.activeEnhance = o.activeEnhance
             /\ n.draftSegments = o.draftSegments
  BY <1>1 DEF InputState
<1>2. QED
  BY <1>1, SameKept

LEMMA ReviewKeeps ==
  ASSUME TextsAssumption, TypeInv, TypeInv',
         \/ DebounceFires
         \/ \E direction \in {"forward", "backward"} : FocusSegment(direction)
         \/ AcceptFocusedSegment
         \/ UnacceptSegment
         \/ Escape
  PROVE  ObjectKept
<1> DEFINE o == Current
<1>1. active # 0 /\ o \in InputState /\ active' = active
  BY CurrentType DEF DebounceFires, FocusSegment, AcceptFocusedSegment, UnacceptSegment, Escape,
                     Reviewing, HasKeys
<1>2. ASSUME NEW n, Update(n), Kept(o, n)
      PROVE  ObjectKept
  BY <1>1, <1>2, UpdatedKept
<1>3. CASE DebounceFires
  <2> DEFINE text == typed[o.source]
             n == [o EXCEPT !.debounce = "reading", !.extracted = text]
  <2>1. Update(n)
    BY <1>3 DEF DebounceFires
  <2> HIDE DEF text
  <2>2. Kept(o, n)
    BY <1>1, FieldsKeep, Zenon
  <2>3. QED
    BY <1>2, <2>1, <2>2
<1>4. ASSUME NEW direction \in {"forward", "backward"}, FocusSegment(direction)
      PROVE  ObjectKept
  <2>1. PICK next : Update([o EXCEPT !.focused = next])
    BY <1>4, Zenon DEF FocusSegment
  <2>2. Kept(o, [o EXCEPT !.focused = next])
    BY <1>1, FieldsKeep, Zenon
  <2>3. QED
    BY <1>2, <2>1, <2>2
<1>5. CASE AcceptFocusedSegment
  <2>1. PICK set, next : Update([o EXCEPT !.accepted = set, !.focused = next])
    BY <1>5, Zenon DEF AcceptFocusedSegment
  <2>2. Kept(o, [o EXCEPT !.accepted = set, !.focused = next])
    BY <1>1, FieldsKeep, Zenon
  <2>3. QED
    BY <1>2, <2>1, <2>2
<1>6. CASE UnacceptSegment
  <2>1. PICK set, stale : Update([o EXCEPT !.accepted = set, !.hasStaleAccepted = stale])
    BY <1>1, <1>6 DEF UnacceptSegment, InputState
  <2>2. Kept(o, [o EXCEPT !.accepted = set, !.hasStaleAccepted = stale])
    BY <1>1, FieldsKeep, Zenon
  <2>3. QED
    BY <1>2, <2>1, <2>2
<1>7. CASE Escape
  <2>1. CASE Update(BindCancelled(o))
    BY <1>1, <1>2, <2>1, OperatorsKeep
  <2>2. CASE Update([o EXCEPT !.focused = 0])
    <3>1. Kept(o, [o EXCEPT !.focused = 0])
      BY <1>1, FieldsKeep, Zenon
    <3>2. QED
      BY <1>2, <2>2, <3>1
  <2>3. QED
    BY <1>7, <2>1, <2>2 DEF Escape
<1>8. QED
  BY <1>3, <1>4, <1>5, <1>6, <1>7

LEMMA DebounceKeeps ==
  ASSUME TextsAssumption, TypeInv, TypeInv', DebounceResumes
  PROVE  ObjectKept
<1> DEFINE o == Current
           text == o.extracted
           new == Split[text]
           moved == [Migrated(o, new) EXCEPT
                       !.debounce = "none", !.focused = 0, !.extracted = EmptyText]
           r == FreshRequest("SEGMENT")
           drawn == [moved EXCEPT !.activeSegment = r]
           paused == [moved EXCEPT !.activeSegment = NoRequest, !.draftIsStale = TRUE]
           left == [moved EXCEPT !.activeSegment = NoRequest]
<1>1. active # 0 /\ o \in InputState /\ active' = active /\ OwnBox \in Nat
  BY CurrentType, FreshNumbers DEF DebounceResumes
<1>2. text \in Texts /\ new \in Seq(Positions) /\ r \in RequestIds
  BY <1>1, FreshRequestIsFree
    DEF InputState, TextsAssumption, RequestKinds, TypeInv, RequestsTyped
<1>3. \/ Update(Rendered(drawn, text, new, FALSE))
      \/ Update(paused)
      \/ Update(DraftCleared(left))
  <2>1. PICK context \in Contexts :
          CASE context = "ok" -> Update(Rendered(drawn, text, new, FALSE))
            [] context = "paused" -> Update(paused)
            [] context = "signedOut" -> Update(DraftCleared(left))
    BY Zenon DEF DebounceResumes
  <2>2. context \in {"ok", "paused", "signedOut"}
    BY DEF TextsAssumption
  <2> HIDE DEF drawn, paused, left, text, new
  <2>3. QED
    BY <2>1, <2>2
<1>4. /\ moved \in InputState /\ moved.box = Migrated(o, new).box
      /\ moved.activeEnhance = Migrated(o, new).activeEnhance
      /\ moved.draftSegments = o.draftSegments
  <2>1. Migrated(o, new) \in InputState /\ Migrated(o, new).draftSegments = o.draftSegments
    <3> HIDE DEF o, new
    <3>1. QED
      BY <1>1, <1>2, MigratedKept
  <2> DEFINE m == Migrated(o, new)
  <2> HIDE DEF m
  <2>2. m \in InputState /\ m.draftSegments = o.draftSegments
    BY <2>1 DEF m
  <2>3. /\ [m EXCEPT !.debounce = "none", !.focused = 0, !.extracted = EmptyText] \in InputState
        /\ [m EXCEPT !.debounce = "none", !.focused = 0, !.extracted = EmptyText].box = m.box
        /\ [m EXCEPT !.debounce = "none", !.focused = 0,
                     !.extracted = EmptyText].activeEnhance = m.activeEnhance
        /\ [m EXCEPT !.debounce = "none", !.focused = 0,
                     !.extracted = EmptyText].draftSegments = m.draftSegments
    BY <2>2 DEF InputState, TextsAssumption
  <2>4. QED
    BY <2>2, <2>3 DEF m
<1> HIDE DEF moved, r
<1>5. ASSUME NEW n \in {drawn, paused, left}
      PROVE  /\ n \in InputState /\ n.box = Migrated(o, new).box
             /\ n.activeEnhance = Migrated(o, new).activeEnhance
             /\ n.draftSegments = o.draftSegments
  <2> DEFINE m == Migrated(o, new)
  <2> HIDE DEF m
  <2>1. /\ moved \in InputState /\ moved.box = m.box
        /\ moved.activeEnhance = m.activeEnhance
        /\ moved.draftSegments = o.draftSegments
    BY <1>4 DEF m
  <2>2. /\ n \in InputState /\ n.box = moved.box /\ n.activeEnhance = moved.activeEnhance
        /\ n.draftSegments = moved.draftSegments
    <3>1. r \in RequestIds /\ NoRequest \in RequestIds /\ moved \in InputState
      BY <1>2, <2>1, NoRequestType
    <3>2. CASE n = drawn
      BY <3>1, <3>2 DEF InputState
    <3>3. CASE n = paused
      BY <3>1, <3>3 DEF InputState
    <3>4. CASE n = left
      BY <3>1, <3>4 DEF InputState
    <3>5. QED
      BY <3>2, <3>3, <3>4
  <2>3. QED
    BY <2>1, <2>2 DEF m
<1> HIDE DEF drawn, paused, left, new, o, text
<1>6. Kept(o, Rendered(drawn, text, new, FALSE))
  BY <1>1, <1>2, <1>5, RenderedKept
<1>7. Kept(o, paused)
  BY <1>1, <1>2, <1>5, RenderedKept
<1>8. Kept(o, DraftCleared(left))
  BY <1>1, <1>2, <1>5, RenderedKept
<1>9. QED
  BY <1>1, <1>3, <1>6, <1>7, <1>8, UpdatedKept DEF o

LEMMA SegmentsKeep ==
  ASSUME TextsAssumption, TypeInv, TypeInv', NEW r \in DOMAIN requests, ReceiveSegments(r)
  PROVE  ObjectKept
<1> DEFINE o == [Current EXCEPT !.activeSegment = NoRequest]
           M(new) == Rendered(Migrated(o, new), o.draftText, new, o.draftIsStale)
<1>1. active' = active
  BY DEF ReceiveSegments
<1>2. CASE ~(active # 0 /\ Current.activeSegment = r)
  BY <1>1, <1>2 DEF ReceiveSegments, ObjectKept
<1>3. CASE active # 0 /\ Current.activeSegment = r
  <2>1. PICK new \in Answers(r) : Update(o) \/ Update(M(new))
    BY <1>3, Zenon DEF ReceiveSegments
  <2>2. Current \in InputState /\ OwnBox \in Nat
    BY <1>3, CurrentType, FreshNumbers
  <2>3. o \in InputState
    BY <2>2, NoRequestType DEF InputState
  <2>4. Kept(Current, o)
    BY <2>2, FieldsKeep, Zenon
  <2>5. new \in Seq(Positions)
    <3>1. requests[r] \in Request /\ requests[r].verb = "SEGMENT"
      BY DEF TypeInv, RequestsTyped, ReceiveSegments
    <3>2. requests[r].text \in Texts
      BY <3>1 DEF Request
    <3>3. QED
      BY <3>2, AnswersType
  <2> HIDE DEF o
  <2>6. Migrated(o, new) \in InputState /\ Migrated(o, new).draftSegments = o.draftSegments
    BY <2>2, <2>3, <2>5, MigratedKept
  <2>7. Kept(o, M(new))
    BY <2>2, <2>3, <2>5, <2>6, RenderedKept
  <2> HIDE DEF M
  <2>8. Kept(Current, M(new))
    BY <2>4, <2>7, KeptTwice
  <2>9. QED
    BY <1>1, <1>3, <2>1, <2>4, <2>8, UpdatedKept
<1>4. QED
  BY <1>2, <1>3

LEMMA EventKeeps ==
  ASSUME TextsAssumption, TypeInv, TypeInv', NEW r \in DOMAIN requests,
         ReceiveEnhanceToken(r) \/ ReceiveBindToken(r) \/ ReceiveDone(r) \/ ReceiveError(r)
  PROVE  ObjectKept
<1> DEFINE o == Current
<1>1. active' = active /\ (active # 0 => o \in InputState)
  BY CurrentType DEF ReceiveEnhanceToken, ReceiveBindToken, ReceiveDone, ReceiveError
<1>2. CASE UNCHANGED states
  BY <1>1, <1>2 DEF ObjectKept
<1>3. ASSUME ReceiveEnhanceToken(r)
      PROVE  ObjectKept
  <2>1. active # 0
    BY <1>3 DEF ReceiveEnhanceToken
  <2>2. PICK q \in Positions :
          Update([o EXCEPT !.enhancedText[q] = IF @ = NoText THEN requests[r].text ELSE @])
    BY <1>3 DEF ReceiveEnhanceToken, Names
  <2> DEFINE n == [o EXCEPT !.enhancedText[q] = IF @ = NoText THEN requests[r].text ELSE @]
  <2>3. n.box = o.box /\ n.activeEnhance = o.activeEnhance /\ n.draftSegments = o.draftSegments
    BY <1>1, <2>1 DEF InputState
  <2>4. Update(n)
    BY <2>2
  <2> HIDE DEF n
  <2>5. QED
    BY <1>1, <2>1, <2>3, <2>4, SameKept, UpdatedKept
<1>4. CASE active # 0 /\ \E tokens : Update([o EXCEPT !.bindPhase = "BINDING",
                                                    !.pendingGhostText = tokens])
  BY <1>1, <1>4, FieldsKeep, UpdatedKept, Zenon
<1>5. CASE /\ active # 0
           /\ \/ Update(BindDone(o)) \/ Update(BindFailed(o)) \/ Update(EnhanceEnded(o, r))
  BY <1>1, <1>5, OperatorsKeep, UpdatedKept
<1>6. CASE active # 0 /\ Update([o EXCEPT !.activeSegment = NoRequest])
  BY <1>1, <1>6, FieldsKeep, UpdatedKept, Zenon
<1>7. ASSUME ReceiveBindToken(r)
      PROVE  ObjectKept
  <2>1. active # 0 /\ Update([o EXCEPT !.bindPhase = "BINDING", !.pendingGhostText = @ + 1])
    BY <1>7 DEF ReceiveBindToken
  <2>2. PICK tokens : Update([o EXCEPT !.bindPhase = "BINDING", !.pendingGhostText = tokens])
    BY <1>1, <2>1 DEF InputState
  <2>3. QED
    BY <1>4, <2>1, <2>2
<1>8. ASSUME ReceiveDone(r) \/ ReceiveError(r)
      PROVE  ObjectKept
  BY <1>2, <1>5, <1>6, <1>8 DEF ReceiveDone, ReceiveError
<1>9. QED
  BY <1>3, <1>7, <1>8

LEMMA PageKeeps ==
  ASSUME TextsAssumption, TypeInv, TypeInv', WorkerDies \/ PortDisconnects \/ PageChanges
  PROVE  ObjectKept
<1> DEFINE o == Current
<1>1. active' = active /\ (active # 0 => o \in InputState)
  BY CurrentType DEF WorkerDies, PortDisconnects, PageChanges
<1>2. CASE UNCHANGED states
  BY <1>1, <1>2 DEF ObjectKept
<1>3. CASE PortDisconnects /\ active # 0
  <2> DEFINE n == [o EXCEPT !.activeEnhance = [q \in Positions |-> NoRequest]]
  <2>1. Update(n)
    BY <1>3 DEF PortDisconnects
  <2>2. n.box = o.box /\ \A q \in Positions : n.activeEnhance[q] = NoRequest
    BY <1>1, <1>3 DEF InputState
  <2> HIDE DEF n
  <2>3. Kept(o, n)
    BY <2>2 DEF Kept
  <2>4. QED
    BY <1>1, <1>3, <2>1, <2>3, UpdatedKept
<1>4. CASE active # 0 /\ Detach
  <2> DEFINE w == WorkCleared(o)
             b == BindCancelled(w)
  <2>1. Update(DraftCleared(b))
    BY <1>4 DEF Detach
  <2>2. w \in InputState /\ b \in InputState
    BY <1>1, <1>4, WorkClearedType, BindCancelledType
  <2>3. Kept(o, w) /\ Kept(w, b) /\ Kept(b, DraftCleared(b))
    <3>1. Kept(o, w)
      BY <1>1, <1>4, OperatorsKeep
    <3> HIDE DEF o
    <3>2. Kept(w, b)
      <4> HIDE DEF w
      <4>1. QED
        BY <2>2, OperatorsKeep
    <3> HIDE DEF b
    <3>3. QED
      BY <2>2, <3>1, <3>2, OperatorsKeep
  <2> HIDE DEF b, w
  <2>4. Kept(o, DraftCleared(b))
    BY <2>3, KeptTwice
  <2>5. QED
    BY <1>1, <1>4, <2>1, <2>4, UpdatedKept
<1>5. CASE active # 0 /\ \E j : Update([o EXCEPT !.input = j])
  BY <1>1, <1>5, FieldsKeep, UpdatedKept, Zenon
<1>6. CASE active # 0 /\ Update(DraftCleared(o))
  BY <1>1, <1>6, OperatorsKeep, UpdatedKept
<1>7. CASE PageChanges
  <2>1. /\ active # 0
        /\ \/ UNCHANGED states \/ Detach \/ Orphan \/ \E left : Reattach(left)
    BY <1>7 DEF PageChanges
  <2>2. CASE \E left : Reattach(left)
    BY <1>5, <2>1, <2>2 DEF Reattach
  <2>3. CASE Orphan
    BY <1>2, <1>6, <2>1, <2>3 DEF Orphan
  <2>4. QED
    BY <1>2, <1>4, <2>1, <2>2, <2>3
<1>8. QED
  BY <1>2, <1>3, <1>7 DEF WorkerDies, PortDisconnects

-------------------------------------------------------------------------------
(* A bind call that still awaits is on the active object or has lost its    *)
(* gate for good, unless what took the object away is what the history      *)
(* names: that is why BindResumes can look at the gate alone.               *)

(* The gate of s stays closed: nothing unmarks what is stale, and an empty  *)
(* set that the active object does not share stays empty.                   *)
Shut(s) ==
  \/ states[s].hasStaleAccepted
  \/ states[s].accepted = {} /\ (active # 0 => states[s].box # Current.box)

CallsAreStopped ==
  \A c \in BindCalls : bindCalls[c] # NoCall /\ ~bindCalls[c].outlived =>
    bindCalls[c].state = active \/ Shut(bindCalls[c].state)

(* A step that writes at most the active object, and gives it no other's    *)
(* acceptances.                                                             *)
BoxKept ==
  /\ active' = active
  /\ \/ UNCHANGED states
     \/ active # 0 /\ \E n \in InputState : Update(n) /\ n.box \in {Current.box, OwnBox}

LEMMA ShutStays ==
  ASSUME TypeInv, BoxKept, NEW s \in DOMAIN states, s # active, Shut(s)
  PROVE  Shut(s)'
<1>1. active' = active
  BY DEF BoxKept
<1>2. CASE UNCHANGED states
  BY <1>1, <1>2 DEF Shut, Current
<1>3. CASE active # 0 /\ \E n \in InputState : Update(n) /\ n.box \in {Current.box, OwnBox}
  <2>1. PICK n \in InputState : Update(n) /\ n.box \in {Current.box, OwnBox}
    BY <1>3
  <2>2. active \in DOMAIN states /\ states[s] \in InputState
    BY <1>3, CurrentType DEF TypeInv, TypeOK
  <2>3. Current' = n
    BY <1>1, <2>1, <2>2 DEF Current, Update
  <2>4. states'[s] = IF states[s].box = n.box
                     THEN [states[s] EXCEPT !.accepted = n.accepted] ELSE states[s]
    BY <2>1 DEF Update
  <2>5. states'[s].hasStaleAccepted = states[s].hasStaleAccepted
    BY <2>2, <2>4 DEF InputState
  <2>6. states[s].box # OwnBox /\ n.box \in {Current.box, OwnBox}
    BY <2>1, BoxesAreFree
  <2>7. CASE states[s].hasStaleAccepted
    BY <2>5, <2>7 DEF Shut
  <2>8. CASE states[s].accepted = {} /\ states[s].box # Current.box
    <3>1. states[s].box # n.box /\ states'[s] = states[s]
      BY <2>4, <2>6, <2>8
    <3>2. QED
      BY <2>3, <2>8, <3>1 DEF Shut
  <2>9. QED
    BY <1>3, <2>7, <2>8 DEF Shut
<1>4. QED
  BY <1>2, <1>3 DEF BoxKept

LEMMA LeftBehindFields ==
  ASSUME NEW o
  PROVE  /\ LeftBehind(o).accepted = o.accepted /\ LeftBehind(o).box = o.box
         /\ LeftBehind(o).hasStaleAccepted = o.hasStaleAccepted
BY DEF LeftBehind, NewState

LEMMA ResetFields ==
  ASSUME TextsAssumption, NEW o \in InputState, FreshBox \in Nat
  PROVE  Reset(o).accepted = {} /\ Reset(o).box = FreshBox
<1> DEFINE e == [o EXCEPT !.accepted = {}, !.box = FreshBox, !.hasStaleAccepted = FALSE,
                  !.focused = 0, !.activeSegment = NoRequest, !.activeBind = NoRequest,
                  !.basis = NoBasis, !.pendingGhostText = 0, !.ghostStreamComplete = FALSE]
<1>1. e \in InputState /\ e.accepted = {} /\ e.box = FreshBox
  BY NoRequestType, BasisType DEF InputState
<1> HIDE DEF e
<1>2. WorkCleared(e) \in InputState /\ WorkCleared(e).accepted = {} /\ WorkCleared(e).box = FreshBox
  BY <1>1, WorkClearedType DEF WorkCleared, InputState
<1>3. \A w \in InputState : DraftCleared(w).accepted = w.accepted /\ DraftCleared(w).box = w.box
  BY DEF DraftCleared, InputState
<1>4. QED
  BY <1>2, <1>3 DEF Reset, e

(* The original and the copy, after an input event.                         *)
LEMMA InterruptedBox ==
  ASSUME TextsAssumption, NEW o \in InputState
  PROVE  /\ Interrupted(o) \in InputState
         /\ Copied(o).box = o.box
         /\ o.accepted # {} => Interrupted(o).hasStaleAccepted
<1> DEFINE w == WorkCleared(BindCancelled(o))
<1>1. w \in InputState /\ w.box = o.box
  <2>1. BindCancelled(o) \in InputState /\ BindCancelled(o).box = o.box
    BY BindCancelledType DEF BindCancelled, InputState
  <2>2. \A m \in InputState : WorkCleared(m) \in InputState /\ WorkCleared(m).box = m.box
    BY WorkClearedType DEF WorkCleared, InputState
  <2>3. QED
    BY <2>1, <2>2
<1> HIDE DEF w
<1>2. Interrupted(o) = [w EXCEPT !.draftIsStale = TRUE, !.hasStaleAccepted = @ \/ o.accepted # {}]
  BY DEF Interrupted, w
<1>3. Interrupted(o).box = o.box /\ (o.accepted # {} => Interrupted(o).hasStaleAccepted)
  BY <1>1, <1>2 DEF InputState
<1>4. QED
  BY <1>3, InterruptedType DEF Copied, InputState

(* The active object gives way: what o shares, the active object shared.    *)
LEMMA ShutLeft ==
  ASSUME TypeInv, NEW left, NEW o, o.box = FreshBox \/ (active # 0 /\ o.box = Current.box),
         Supersede(left, o), NEW s \in Held, s # active, Shut(s)
  PROVE  Shut(s)'
<1>1. active' # 0 /\ active' \notin DOMAIN states /\ s \in DOMAIN states
  BY FreshNumbers DEF Supersede, Held, TypeInv, TypeOK
<1>2. states'[s] = states[s] /\ Current' = o
  BY <1>1 DEF Supersede, Current
<1>3. states[s].box # FreshBox
  BY <1>1, BoxesAreFree
<1>4. QED
  BY <1>2, <1>3 DEF Shut

LEMMA StoppedInit == Init => CallsAreStopped
BY DEF Init, CallsAreStopped

LEMMA InputStopped ==
  ASSUME TextsAssumption, TypeInv, CallsAreStopped, NEW i \in Inputs, NEW text \in Texts,
         Input(i, text)
  PROVE  CallsAreStopped'
<1> SUFFICES ASSUME NEW c \in BindCalls, bindCalls'[c] # NoCall, ~bindCalls'[c].outlived,
                    NEW s, s = bindCalls'[c].state
             PROVE  Shut(s)'
  BY DEF CallsAreStopped, Shut
<1>1. /\ bindCalls[c] # NoCall /\ bindCalls[c].state = s /\ ~bindCalls[c].outlived
      /\ bindCalls' = Outlived => s # active \/ active = 0
  <2>1. bindCalls' = Outlived \/ UNCHANGED bindCalls
    BY DEF Input
  <2>2. bindCalls[c] # NoCall /\ bindCalls[c].state = s /\ bindCalls[c] \in BindCall
    BY <2>1, OutlivedKeepsCalls DEF CallsKept, TypeInv, TypeOK
  <2>3. CASE UNCHANGED bindCalls /\ bindCalls' # Outlived
    BY <2>2, <2>3
  <2>4. CASE bindCalls' = Outlived
    BY <2>2, <2>4 DEF Outlived, BindCall
  <2>5. QED
    BY <2>1, <2>2, <2>3, <2>4
<1>2. /\ s \in Held /\ s \in DOMAIN states /\ s # 0
      /\ s # active => Shut(s)
  BY <1>1 DEF Held, TypeInv, TypeOK, CallsAreStopped
<1>3. NewState(i).box = FreshBox
  BY DEF NewState
<1>4. CASE active # 0 /\ Current.input = i
  <2> DEFINE o == Copied(Current)
             left == Interrupted(Current)
  <2>1. Supersede(left, o) /\ Current \in InputState
    BY <1>4, CurrentType DEF Input
  <2>2. o.box = Current.box
    BY <2>1, InterruptedBox
  <2>3. CASE s # active
    BY <1>1, <1>2, <1>4, <2>1, <2>2, <2>3, ShutLeft
  <2>4. CASE s = active
    <3>1. Current.accepted # {}
      BY <1>1, <1>4, <2>4 DEF Input
    <3>2. left.hasStaleAccepted
      BY <2>1, <3>1, InterruptedBox
    <3>3. states'[s].hasStaleAccepted
      <4>1. states'[s] = LeftBehind(left)
        <5>1. active' # s
          BY <1>2, <2>1, FreshNumbers DEF Supersede
        <5>2. QED
          BY <1>2, <2>1, <2>4, <5>1 DEF Supersede
      <4> HIDE DEF left
      <4>2. LeftBehind(left).hasStaleAccepted = left.hasStaleAccepted
        BY LeftBehindFields
      <4>3. QED
        BY <3>2, <4>1, <4>2
    <3>4. QED
      BY <1>1, <3>3 DEF Shut
  <2>5. QED
    BY <2>3, <2>4
<1>5. CASE active # 0 /\ Current.input # i
  <2>1. Supersede(DraftCleared(WorkCleared(Current)), NewState(i)) /\ s # active
    BY <1>1, <1>5 DEF Input
  <2>2. QED
    BY <1>1, <1>2, <1>3, <2>1, ShutLeft
<1>6. CASE active = 0
  <2>1. Supersede(NewState(i), NewState(i)) /\ s # active
    BY <1>2, <1>6 DEF Input
  <2>2. QED
    BY <1>1, <1>2, <1>3, <2>1, ShutLeft
<1>7. QED
  BY <1>4, <1>5, <1>6

LEMMA CommitStopped ==
  ASSUME TextsAssumption, TypeInv, CallsAreStopped, CommitGhostText
  PROVE  CallsAreStopped'
<1> SUFFICES ASSUME NEW c \in BindCalls, bindCalls'[c] # NoCall, ~bindCalls'[c].outlived,
                    NEW s, s = bindCalls'[c].state
             PROVE  Shut(s)'
  BY DEF CallsAreStopped, Shut
<1> DEFINE o == Copied(Current)
           left == Reset(Interrupted(Current))
<1>1. /\ bindCalls' = bindCalls /\ Supersede(left, o)
      /\ active # 0 /\ Current \in InputState
  BY CurrentType DEF CommitGhostText, HasKeys
<1>2. /\ s \in Held /\ s \in DOMAIN states /\ s # 0
      /\ s # active => Shut(s)
  BY <1>1 DEF Held, TypeInv, TypeOK, CallsAreStopped
<1>3. o.box = Current.box
  BY <1>1, InterruptedBox
<1>4. CASE s # active
  BY <1>1, <1>2, <1>3, <1>4, ShutLeft
<1>5. CASE s = active
  <2>1. left.accepted = {} /\ left.box = FreshBox
    BY <1>1, InterruptedBox, ResetFields, FreshNumbers
  <2>2. active' # 0 /\ active' # s
    BY <1>1, <1>2, FreshNumbers DEF Supersede
  <2>3. states'[s] = LeftBehind(left) /\ Current' = o
    BY <1>1, <1>2, <1>5, <2>2 DEF Supersede, Current
  <2> HIDE DEF left
  <2>4. states'[s].accepted = {} /\ states'[s].box = FreshBox
    BY <2>1, <2>3, LeftBehindFields
  <2>5. Current.box # FreshBox
    BY <1>1, CurrentType, BoxesAreFree DEF Current
  <2>6. QED
    BY <1>1, <1>3, <2>3, <2>4, <2>5 DEF Shut
<1>6. QED
  BY <1>4, <1>5

LEMMA SignOutStopped ==
  ASSUME TextsAssumption, TypeInv, CallsAreStopped, SignOut
  PROVE  CallsAreStopped'
<1> SUFFICES ASSUME NEW c \in BindCalls, bindCalls'[c] # NoCall, ~bindCalls'[c].outlived,
                    NEW s, s = bindCalls'[c].state
             PROVE  Shut(s)'
  BY DEF CallsAreStopped, Shut
<1>1. bindCalls' = Outlived /\ active # 0 /\ active' = 0
  BY DEF SignOut
<1>2. /\ bindCalls[c] # NoCall /\ bindCalls[c].state = s /\ bindCalls[c] \in BindCall
  BY <1>1, OutlivedKeepsCalls DEF CallsKept, TypeInv, TypeOK
<1>3. s # active /\ ~bindCalls[c].outlived
  BY <1>1, <1>2 DEF Outlived, BindCall
<1>4. Shut(s) /\ s \in Held
  BY <1>2, <1>3 DEF CallsAreStopped, Held
<1>5. states'[s] = states[s]
  BY <1>3, <1>4 DEF SignOut
<1>6. QED
  BY <1>1, <1>2, <1>4, <1>5 DEF Shut

LEMMA BindResumesStopped ==
  ASSUME TextsAssumption, TypeInv, CallsAreStopped, NEW c \in BindCalls, BindResumes(c)
  PROVE  CallsAreStopped'
<1> SUFFICES ASSUME NEW d \in BindCalls, bindCalls'[d] # NoCall, ~bindCalls'[d].outlived,
                    NEW s, s = bindCalls'[d].state
             PROVE  s = active' \/ Shut(s)'
  BY DEF CallsAreStopped, Shut
<1> DEFINE b == bindCalls[c].basis
           r == FreshRequest("BIND")
<1>1. /\ bindCalls' = [bindCalls EXCEPT ![c] = NoCall] /\ active' = active
      /\ \/ states' = [q \in Forget(c) |-> IF q = bindCalls[c].state
                                           THEN Binding(states[q], r, b) ELSE states[q]]
         \/ states' = [q \in Forget(c) |-> states[q]]
  BY Zenon DEF BindResumes
<1> HIDE DEF b, r
<1>2. /\ bindCalls[d] # NoCall /\ ~bindCalls[d].outlived /\ bindCalls[d].state = s
      /\ s \in Forget(c) /\ s \in DOMAIN states
  BY <1>1, ForgetType
<1>3. \A q \in Forget(c) :
        /\ states'[q].hasStaleAccepted = states[q].hasStaleAccepted
        /\ states'[q].accepted = states[q].accepted /\ states'[q].box = states[q].box
  <2>1. \A o \in InputState :
          /\ Binding(o, r, b).hasStaleAccepted = o.hasStaleAccepted
          /\ Binding(o, r, b).accepted = o.accepted /\ Binding(o, r, b).box = o.box
    BY DEF Binding, InputState
  <2>2. \A q \in Forget(c) : states[q] \in InputState
    BY ForgetType DEF TypeInv, TypeOK
  <2>3. QED
    BY <1>1, <2>1, <2>2
<1>4. active # 0 => Current'.box = Current.box
  BY <1>1, <1>3, ForgetType DEF Current
<1>5. s = active \/ Shut(s)
  BY <1>2 DEF CallsAreStopped
<1>6. QED
  BY <1>1, <1>2, <1>3, <1>4, <1>5 DEF Shut

LEMMA EnhanceResumesKeeps ==
  ASSUME TextsAssumption, TypeInv, TypeInv', active # 0, NEW call \in enhanceCalls,
         EnhanceResumes(call)
  PROVE  /\ active' = active /\ bindCalls' = bindCalls
         /\ \/ UNCHANGED states
            \/ \E n \in InputState : Update(n) /\ n.box = Current.box
<1> DEFINE n == [Current EXCEPT !.activeEnhance[call.position] = FreshRequest(call.position)]
<1>1. active' = active /\ bindCalls' = bindCalls /\ (UNCHANGED states \/ Update(n))
  BY DEF EnhanceResumes
<1>2. active \in DOMAIN states /\ Current \in InputState
  BY CurrentType
<1>3. n.box = Current.box
  BY <1>2 DEF InputState
<1> HIDE DEF n
<1>4. Update(n) => n \in InputState
  <2>1. Update(n) => states'[active] = n /\ active \in DOMAIN states'
    BY <1>2 DEF Update
  <2>2. QED
    BY <2>1 DEF TypeInv, TypeOK
<1>5. QED
  BY <1>1, <1>3, <1>4

LEMMA BoxKeptStopped ==
  ASSUME TypeInv, CallsAreStopped, BoxKept,
         \A c \in BindCalls : bindCalls'[c] # NoCall =>
           bindCalls'[c] = bindCalls[c] \/ bindCalls'[c].state = active
  PROVE  CallsAreStopped'
<1> SUFFICES ASSUME NEW c \in BindCalls, bindCalls'[c] # NoCall, ~bindCalls'[c].outlived,
                    NEW s, s = bindCalls'[c].state, s # active
             PROVE  Shut(s)'
  BY DEF CallsAreStopped, Shut, BoxKept
<1>1. bindCalls'[c] = bindCalls[c] /\ s \in DOMAIN states /\ Shut(s)
  BY DEF CallsAreStopped, TypeInv, TypeOK
<1>2. QED
  BY <1>1, ShutStays

LEMMA StoppedNext ==
  ASSUME TextsAssumption, TypeInv, TypeInv', EnhanceCallsAreActive, CallsAreStopped, [Next]_vars
  PROVE  CallsAreStopped'
<1>1. CASE Edit
  BY <1>1, InputStopped DEF Edit
<1>2. CASE CommitGhostText \/ SignOut
  BY <1>2, CommitStopped, SignOutStopped
<1>3. CASE \E c \in BindCalls : BindResumes(c)
  BY <1>3, BindResumesStopped
<1>4. ObjectKept => BoxKept
  BY DEF ObjectKept, Kept, BoxKept
<1>5. CASE ObjectKept /\ bindCalls' = bindCalls
  BY <1>4, <1>5, BoxKeptStopped
<1>6. CASE \E c \in BindCalls : DispatchBind(c)
  <2>1. PICK c \in BindCalls : DispatchBind(c)
    BY <1>6
  <2>2. BoxKept
    BY <2>1 DEF DispatchBind, BoxKept
  <2>3. \E basis :
          bindCalls' = [bindCalls EXCEPT ![c] = [state |-> active, basis |-> basis,
                                                 outlived |-> FALSE]]
    BY <2>1, Zenon DEF DispatchBind
  <2>4. \A d \in BindCalls : bindCalls'[d] = bindCalls[d] \/ bindCalls'[d].state = active
    BY <2>3 DEF TypeInv, TypeOK
  <2>5. QED
    BY <2>2, <2>4, BoxKeptStopped
<1>7. CASE \E call \in enhanceCalls : EnhanceResumes(call)
  <2>1. active # 0
    BY <1>7 DEF EnhanceCallsAreActive
  <2>2. BoxKept /\ bindCalls' = bindCalls
    BY <1>7, <2>1, EnhanceResumesKeeps DEF BoxKept
  <2>3. QED
    BY <2>2, BoxKeptStopped
<1>8. CASE \/ DebounceFires \/ DebounceResumes
           \/ \E direction \in {"forward", "backward"} : FocusSegment(direction)
           \/ AcceptFocusedSegment \/ UnacceptSegment \/ Escape
           \/ WorkerDies \/ PortDisconnects \/ PageChanges
  <2>1. ObjectKept
    BY <1>8, ReviewKeeps, DebounceKeeps, PageKeeps
  <2>2. bindCalls' = bindCalls
    BY <1>8 DEF DebounceFires, DebounceResumes, FocusSegment, AcceptFocusedSegment,
                UnacceptSegment, Escape, WorkerDies, PortDisconnects, PageChanges
  <2>3. QED
    BY <1>5, <2>1, <2>2
<1>9. CASE \E r \in DOMAIN requests : Receive(r)
  <2>1. ObjectKept
    BY <1>9, SegmentsKeep, EventKeeps DEF Receive
  <2>2. bindCalls' = bindCalls
    BY <1>9 DEF Receive, ReceiveSegments, ReceiveEnhanceToken, ReceiveBindToken, ReceiveDone,
                ReceiveError
  <2>3. QED
    BY <1>5, <2>1, <2>2
<1>10. CASE UNCHANGED vars
  BY <1>5, <1>10 DEF vars, ObjectKept
<1>11. QED
  BY <1>1, <1>2, <1>3, <1>6, <1>7, <1>8, <1>9, <1>10 DEF Next

(* A call that has not been outlived finds its gate open only if its object *)
(* is the active one.                                                       *)
LEMMA StoppedGate ==
  ASSUME CallsAreStopped, NEW c \in BindCalls, bindCalls[c] # NoCall, ~bindCalls[c].outlived,
         IsStillOpen(states[bindCalls[c].state])
  PROVE  bindCalls[c].state = active
BY DEF CallsAreStopped, Shut, IsStillOpen, IsBindGateOpen

-------------------------------------------------------------------------------
(* An expansion that is streamed has its clause in the draft.               *)

Streaming(rs) == {r \in DOMAIN rs : rs[r].verb = "ENHANCE" /\ ~rs[r].cancelled /\ ~rs[r].late}

Streamed(o, rs) ==
  \A q \in Positions : o.activeEnhance[q] \in Streaming(rs) => q \in ClausesOf(o)

StreamsHaveClauses == active # 0 => Streamed(Current, requests)

(* No operator on the requests but the post of an ENHANCE adds a stream.    *)
LEMMA RequestsKeep ==
  ASSUME NEW rs, RequestsTyped(rs), NEW ended, NEW o
  PROVE  /\ Streaming(Cancel(rs, ended)) \subseteq Streaming(rs)
         /\ Streaming(Disown(rs, ended)) \subseteq Streaming(rs)
         /\ Streaming(Abandon(rs, o)) \subseteq Streaming(rs)
         /\ \A r, request : request.verb # "ENHANCE" =>
              Streaming(Post(rs, r, request)) \subseteq Streaming(rs)
<1>1. Streaming(Cancel(rs, ended)) \subseteq Streaming(rs)
  BY DEF Streaming, Cancel
<1>2. ASSUME NEW q \in Request
      PROVE  /\ [q EXCEPT !.cancelled = TRUE].verb = q.verb
             /\ [q EXCEPT !.abandoned = TRUE].verb = q.verb
             /\ q.verb = "ENHANCE" => /\ [q EXCEPT !.cancelled = TRUE].cancelled
                                      /\ [q EXCEPT !.abandoned = TRUE] = q
  <2>1. CASE q \in [verb : {"SEGMENT"}, text : Texts]
    BY <2>1
  <2>2. CASE q \in [verb : {"ENHANCE"}, text : Texts, cancelled : BOOLEAN, late : BOOLEAN]
    BY <2>2
  <2>3. CASE q \in [verb : {"BIND"}, tokens : 0..MaxTokens, abandoned : BOOLEAN]
    BY <2>3
  <2>4. QED
    BY <2>1, <2>2, <2>3 DEF Request
<1>3. \A q \in DOMAIN rs : rs[q] \in Request
  BY DEF RequestsTyped
<1>4. Streaming(Disown(rs, ended)) \subseteq Streaming(rs)
  BY <1>2, <1>3 DEF Streaming, Disown
<1>5. Streaming(Abandon(rs, o)) \subseteq Streaming(rs)
  BY <1>2, <1>3 DEF Streaming, Abandon
<1>6. ASSUME NEW r, NEW request, request.verb # "ENHANCE"
      PROVE  Streaming(Post(rs, r, request)) \subseteq Streaming(rs)
  BY <1>6 DEF Streaming, Post
<1>7. QED
  BY <1>1, <1>4, <1>5, <1>6

LEMMA KeptStreamed ==
  ASSUME NEW o, NEW n, NEW rs, NEW new, Kept(o, n), Streamed(o, rs),
         Streaming(new) \subseteq Streaming(rs), NoRequest \notin DOMAIN rs
  PROVE  Streamed(n, new)
BY DEF Kept, Streamed, Streaming

(* The request with which an expansion is asked for is the only new stream. *)
FewerStreams == Streaming(requests') \subseteq Streaming(requests)

LEMMA DebounceStreams ==
  ASSUME TextsAssumption, TypeInv, DebounceResumes
  PROVE  FewerStreams
<1> DEFINE segments == Split[Current.extracted]
           moved == [Migrated(Current, segments) EXCEPT
                       !.debounce = "none", !.focused = 0, !.extracted = EmptyText]
           r == FreshRequest("SEGMENT")
           n1 == Rendered([moved EXCEPT !.activeSegment = r], Current.extracted, segments, FALSE)
           n2 == [moved EXCEPT !.activeSegment = NoRequest, !.draftIsStale = TRUE]
           n3 == DraftCleared([moved EXCEPT !.activeSegment = NoRequest])
           request == [verb |-> "SEGMENT", text |-> Current.extracted]
<1>1. PICK context \in Contexts :
        CASE context = "ok" ->
               Update(n1) /\ requests' = Post(Cancel(requests, GivenUp(Current, n1)), r, request)
          [] context = "paused" -> Update(n2) /\ requests' = Cancel(requests, GivenUp(Current, n2))
          [] context = "signedOut" -> Update(n3) /\ requests' = Cancel(requests, GivenUp(Current, n3))
  BY Zenon DEF DebounceResumes
<1>2. context \in {"ok", "paused", "signedOut"}
  BY DEF TextsAssumption
<1>3. request.verb # "ENHANCE"
  OBVIOUS
<1> HIDE DEF n1, n2, n3, r, request
<1>4. PICK ended : requests' \in {Cancel(requests, ended), Post(Cancel(requests, ended), r, request)}
  BY <1>1, <1>2
<1>5. RequestsTyped(requests) /\ RequestsTyped(Cancel(requests, ended))
  BY CancelType DEF TypeInv
<1>6. /\ Streaming(Cancel(requests, ended)) \subseteq Streaming(requests)
      /\ Streaming(Post(Cancel(requests, ended), r, request)) \subseteq Streaming(Cancel(requests, ended))
  BY <1>3, <1>5, RequestsKeep
<1>7. QED
  BY <1>4, <1>6 DEF FewerStreams

LEMMA ReceiveStreams ==
  ASSUME TextsAssumption, TypeInv, NEW r \in DOMAIN requests, Receive(r)
  PROVE  FewerStreams
<1>1. CASE UNCHANGED requests
  BY <1>1 DEF FewerStreams
<1>2. CASE \E ended : requests' = Cancel(requests, ended)
  BY <1>2, RequestsKeep DEF FewerStreams, TypeInv
<1>3. CASE ReceiveBindToken(r)
  <2>1. requests[r].verb = "BIND" /\ requests' = [requests EXCEPT ![r].tokens = @ + 1]
    BY <1>3 DEF ReceiveBindToken
  <2>2. requests[r] \in [verb : {"BIND"}, tokens : 0..MaxTokens, abandoned : BOOLEAN]
    BY <2>1 DEF TypeInv, RequestsTyped, Request
  <2>3. /\ DOMAIN requests' = DOMAIN requests /\ requests'[r].verb = "BIND"
        /\ \A q \in DOMAIN requests : q # r => requests'[q] = requests[q]
    BY <2>1, <2>2
  <2>4. QED
    BY <2>3 DEF FewerStreams, Streaming
<1>4. CASE ReceiveSegments(r)
  <2> DEFINE o == [Current EXCEPT !.activeSegment = NoRequest]
             M(new) == Rendered(Migrated(o, new), o.draftText, new, o.draftIsStale)
  <2>1. \/ requests' = Ended(r)
        \/ \E new : requests' = Cancel(requests, {r} \cup GivenUp(o, M(new)))
    BY <1>4, Zenon DEF ReceiveSegments
  <2> HIDE DEF o, M
  <2>2. QED
    BY <1>2, <2>1 DEF Ended
<1>5. QED
  BY <1>1, <1>2, <1>3, <1>4
    DEF Receive, ReceiveEnhanceToken, ReceiveDone, ReceiveError, Ended

LEMMA StreamsFewer ==
  ASSUME TextsAssumption, TypeInv, [Next]_vars
  PROVE  FewerStreams \/ \E call \in enhanceCalls : EnhanceResumes(call)
<1>1. CASE UNCHANGED requests
  BY <1>1 DEF FewerStreams
<1>2. RequestsTyped(requests) /\ \A ended : RequestsTyped(Cancel(requests, ended))
  BY CancelType DEF TypeInv
<1>3. CASE \E ended : requests' \in {Cancel(requests, ended), Disown(requests, ended)}
  BY <1>2, <1>3, RequestsKeep DEF FewerStreams
<1>4. CASE \E ended, o : requests' = Abandon(Cancel(requests, ended), o)
  <2>1. PICK ended, o : requests' = Abandon(Cancel(requests, ended), o)
    BY <1>4
  <2>2. /\ Streaming(Cancel(requests, ended)) \subseteq Streaming(requests)
        /\ Streaming(Abandon(Cancel(requests, ended), o)) \subseteq Streaming(Cancel(requests, ended))
    BY <1>2, RequestsKeep
  <2>3. QED
    BY <2>1, <2>2 DEF FewerStreams
<1>5. CASE Edit \/ SignOut
  BY <1>1, <1>3, <1>4, <1>5 DEF Edit, Input, SignOut
<1>6. CASE CommitGhostText \/ Escape
  BY <1>1, <1>3, <1>6 DEF CommitGhostText, Escape
<1>7. CASE \E c \in BindCalls : BindResumes(c)
  <2>1. PICK c \in BindCalls : BindResumes(c)
    BY <1>7
  <2> DEFINE r == FreshRequest("BIND")
             request == [verb |-> "BIND", tokens |-> 0, abandoned |-> bindCalls[c].outlived]
  <2>2. requests' = requests \/ requests' = Post(requests, r, request)
    BY <2>1, Zenon DEF BindResumes
  <2>3. request.verb # "ENHANCE"
    OBVIOUS
  <2> HIDE DEF r, request
  <2>4. Streaming(Post(requests, r, request)) \subseteq Streaming(requests)
    BY <1>2, <2>3, RequestsKeep
  <2>5. QED
    BY <1>1, <2>2, <2>4 DEF FewerStreams
<1>8. CASE WorkerDies
  BY <1>8 DEF WorkerDies, NoRequests, FewerStreams, Streaming
<1>9. CASE PageChanges
  BY <1>1, <1>3, <1>9 DEF PageChanges, Detach, Reattach, Orphan
<1>10. CASE DebounceResumes \/ \E r \in DOMAIN requests : Receive(r)
  BY <1>10, DebounceStreams, ReceiveStreams
<1>11. CASE \/ DebounceFires
            \/ \E direction \in {"forward", "backward"} : FocusSegment(direction)
            \/ AcceptFocusedSegment \/ UnacceptSegment
            \/ \E c \in BindCalls : DispatchBind(c)
            \/ PortDisconnects \/ UNCHANGED vars
  BY <1>1, <1>11 DEF DebounceFires, FocusSegment, AcceptFocusedSegment, UnacceptSegment,
                     DispatchBind, PortDisconnects, vars
<1>12. QED
  BY <1>5, <1>6, <1>7, <1>8, <1>9, <1>10, <1>11 DEF Next

(* A step that gives the active object another's place or its own.          *)
ActiveKept ==
  \/ active' = 0
  \/ active # 0 /\ active' # 0 /\ Kept(Current, Current')
  \/ active' # 0 /\ \A q \in Positions : Current'.activeEnhance[q] = NoRequest

LEMMA ObjectActiveKept ==
  ASSUME TypeInv, ObjectKept
  PROVE  ActiveKept
<1>1. CASE active = 0
  BY <1>1 DEF ObjectKept, ActiveKept
<1>2. CASE active # 0
  <2>1. CASE UNCHANGED states
    <3>1. Current' = Current
      BY <2>1 DEF ObjectKept, Current
    <3>2. Kept(Current, Current)
      BY SameKept
    <3>3. QED
      BY <1>2, <3>1, <3>2 DEF ActiveKept, ObjectKept
  <2>2. CASE \E n \in InputState : Update(n) /\ Kept(Current, n)
    <3>1. PICK n \in InputState : Update(n) /\ Kept(Current, n)
      BY <2>2
    <3>2. Current' = n
      BY <1>2, <3>1, CurrentType DEF ObjectKept, Current, Update
    <3>3. QED
      BY <1>2, <3>1, <3>2 DEF ActiveKept, ObjectKept
  <2>3. QED
    BY <2>1, <2>2 DEF ObjectKept
<1>3. QED
  BY <1>1, <1>2

LEMMA SupersededKept ==
  ASSUME TextsAssumption, TypeInv, Edit \/ CommitGhostText
  PROVE  ActiveKept
<1>1. ASSUME NEW left, NEW o, Supersede(left, o)
      PROVE  active' # 0 /\ Current' = o
  BY <1>1, FreshNumbers DEF Supersede, Current
<1>2. ASSUME active # 0, NEW left, Supersede(left, Copied(Current))
      PROVE  ActiveKept
  <2>1. Current \in InputState
    BY <1>2, CurrentType
  <2>2. Kept(Current, Copied(Current))
    BY <2>1, OperatorsKeep
  <2>3. QED
    BY <1>1, <1>2, <2>2 DEF ActiveKept
<1>3. ASSUME NEW i, NEW left, Supersede(left, NewState(i))
      PROVE  ActiveKept
  <2>1. \A q \in Positions : NewState(i).activeEnhance[q] = NoRequest
    BY DEF NewState
  <2>2. QED
    BY <1>1, <1>3, <2>1 DEF ActiveKept
<1>4. CASE CommitGhostText
  BY <1>2, <1>4 DEF CommitGhostText, HasKeys
<1>5. CASE Edit
  <2>1. PICK i \in Inputs, text \in Texts : Input(i, text)
    BY <1>5 DEF Edit
  <2>2. \/ active # 0 /\ Supersede(Interrupted(Current), Copied(Current))
        \/ \E left : Supersede(left, NewState(i))
    BY <2>1 DEF Input
  <2>3. QED
    BY <1>2, <1>3, <2>2
<1>6. QED
  BY <1>4, <1>5

LEMMA BindResumesKept ==
  ASSUME TextsAssumption, TypeInv, NEW c \in BindCalls, BindResumes(c)
  PROVE  ActiveKept
<1> DEFINE b == bindCalls[c].basis
           r == FreshRequest("BIND")
<1>1. /\ active' = active
      /\ \/ states' = [q \in Forget(c) |-> IF q = bindCalls[c].state
                                           THEN Binding(states[q], r, b) ELSE states[q]]
         \/ states' = [q \in Forget(c) |-> states[q]]
  BY Zenon DEF BindResumes
<1> HIDE DEF b, r
<1>2. CASE active = 0
  BY <1>1, <1>2 DEF ActiveKept
<1>3. CASE active # 0
  <2>1. active \in Forget(c) /\ Current \in InputState
    BY <1>3, ForgetType, CurrentType
  <2>2. Current' \in {Binding(Current, r, b), Current}
    BY <1>1, <2>1 DEF Current
  <2>3. Kept(Current, Binding(Current, r, b)) /\ Kept(Current, Current)
    <3> DEFINE n == Binding(Current, r, b)
    <3>1. /\ n.box = Current.box /\ n.activeEnhance = Current.activeEnhance
          /\ n.draftSegments = Current.draftSegments
      BY <2>1 DEF Binding, InputState
    <3> HIDE DEF n
    <3>2. Kept(Current, n) /\ Kept(Current, Current)
      BY <3>1, SameKept
    <3>3. QED
      BY <3>2 DEF n
  <2>4. QED
    BY <1>1, <1>3, <2>2, <2>3 DEF ActiveKept
<1>4. QED
  BY <1>2, <1>3

LEMMA StreamsInit == Init => StreamsHaveClauses
BY DEF Init, StreamsHaveClauses

LEMMA EnhanceResumesStreams ==
  ASSUME TextsAssumption, TypeInv, StreamsHaveClauses, active # 0,
         NEW call \in enhanceCalls, EnhanceResumes(call)
  PROVE  StreamsHaveClauses'
<1> DEFINE o == Current
           p == call.position
           r == FreshRequest(p)
           n == [o EXCEPT !.activeEnhance[p] = r]
           request == [verb |-> "ENHANCE", text |-> call.text, cancelled |-> FALSE,
                       late |-> p \notin ClausesOf(o)]
<1>1. /\ active' = active /\ active \in DOMAIN states /\ o \in InputState /\ p \in Positions
      /\ Streamed(o, requests)
  BY CurrentType DEF EnhanceResumes, TypeInv, TypeOK, StreamsHaveClauses
<1>2. CASE UNCHANGED <<states, requests>>
  <2>1. Current' = Current
    BY <1>1, <1>2 DEF Current
  <2>2. QED
    BY <1>1, <1>2, <2>1 DEF StreamsHaveClauses
<1>3. CASE Update(n) /\ requests' = Post(requests, r, request)
  <2>1. Current' = n
    BY <1>1, <1>3 DEF Current, Update
  <2>2. /\ n.activeEnhance = [o.activeEnhance EXCEPT ![p] = r]
        /\ n.draftSegments = o.draftSegments
        /\ o.activeEnhance \in [Positions -> RequestIds]
    BY <1>1 DEF InputState
  <2>3. r \notin EnhancesOf(o) /\ r # NoRequest
    BY <1>1, FreshRequestIsFree DEF RequestKinds, TypeInv, RequestsTyped, InUse
  <2>4. request.late = (p \notin ClausesOf(o))
    OBVIOUS
  <2> HIDE DEF n, r, request
  <2>5. \A s \in Streaming(requests') : s \in Streaming(requests) \/ (s = r /\ ~request.late)
    BY <1>3 DEF Streaming, Post
  <2>6. \A q \in Positions : q # p => n.activeEnhance[q] = o.activeEnhance[q] /\ o.activeEnhance[q] # r
    BY <2>2, <2>3 DEF EnhancesOf
  <2>7. r \notin Streaming(requests) \/ ~request.late
    <3>1. r \notin DOMAIN requests
      BY <1>1, FreshRequestIsFree DEF RequestKinds, TypeInv, RequestsTyped, InUse, r
    <3>2. QED
      BY <3>1 DEF Streaming
  <2>8. ClausesOf(n) = ClausesOf(o)
    BY <2>2 DEF ClausesOf
  <2>9. Streamed(n, requests')
    BY <1>1, <2>2, <2>4, <2>5, <2>6, <2>7, <2>8 DEF Streamed
  <2>10. QED
    BY <2>1, <2>9 DEF StreamsHaveClauses
<1>4. QED
  BY <1>2, <1>3, Zenon DEF EnhanceResumes

LEMMA StreamsNext ==
  ASSUME TextsAssumption, TypeInv, TypeInv', EnhanceCallsAreActive, StreamsHaveClauses, [Next]_vars
  PROVE  StreamsHaveClauses'
<1>1. CASE \E call \in enhanceCalls : EnhanceResumes(call)
  BY <1>1, EnhanceResumesStreams DEF EnhanceCallsAreActive
<1>2. ASSUME FewerStreams, ActiveKept
      PROVE  StreamsHaveClauses'
  <2>1. NoRequest \notin DOMAIN requests /\ NoRequest \notin DOMAIN requests'
    BY DEF TypeInv, RequestsTyped
  <2>2. CASE active # 0 /\ active' # 0 /\ Kept(Current, Current')
    BY <1>2, <2>1, <2>2, KeptStreamed DEF StreamsHaveClauses, FewerStreams
  <2>3. CASE \A q \in Positions : Current'.activeEnhance[q] = NoRequest
    BY <2>1, <2>3 DEF StreamsHaveClauses, Streamed, Streaming
  <2>4. QED
    BY <1>2, <2>2, <2>3 DEF ActiveKept, StreamsHaveClauses
<1>3. ActiveKept \/ \E call \in enhanceCalls : EnhanceResumes(call)
  <2>1. CASE Edit \/ CommitGhostText
    BY <2>1, SupersededKept
  <2>2. CASE SignOut
    BY <2>2 DEF SignOut, ActiveKept
  <2>3. CASE \E c \in BindCalls : BindResumes(c)
    BY <2>3, BindResumesKept
  <2>4. CASE \/ DebounceFires \/ DebounceResumes
             \/ \E direction \in {"forward", "backward"} : FocusSegment(direction)
             \/ AcceptFocusedSegment \/ UnacceptSegment \/ Escape
             \/ WorkerDies \/ PortDisconnects \/ PageChanges
             \/ \E r \in DOMAIN requests : Receive(r)
    BY <2>4, ReviewKeeps, DebounceKeeps, PageKeeps, SegmentsKeep, EventKeeps, ObjectActiveKept
      DEF Receive
  <2>5. CASE \/ \E c \in BindCalls : DispatchBind(c)
             \/ UNCHANGED vars
    <3>1. ObjectKept
      BY <2>5 DEF DispatchBind, vars, ObjectKept
    <3>2. QED
      BY <3>1, ObjectActiveKept
  <2>6. QED
    BY <2>1, <2>2, <2>3, <2>4, <2>5 DEF Next
<1>4. QED
  BY <1>1, <1>2, <1>3, StreamsFewer

-------------------------------------------------------------------------------
(* The inductive invariant of a session: what holds of the active object o, *)
(* the text of its source, the clauses approved, the requests and the port.  *)

(* The acceptances that are not stale are those the user made.              *)
Reviewed(o, ok) ==
  /\ AreDistinct(o.draftSegments)
  /\ ~o.hasStaleAccepted =>
       \A k \in o.accepted \cap DOMAIN o.draftSegments : o.draftSegments[k] \in ok

(* The draft is dimmed or that of the text; so is what the debounce reads.  *)
Drafted(o, text) ==
  /\ o.draftText = EmptyText => o.draftSegments = <<>>
  /\ ~o.draftIsStale /\ o.draftText # EmptyText => o.draftText = text
  /\ o.debounce = "reading" => o.extracted = text

Bound(o, text) ==
  /\ o.activeBind = NoRequest <=> o.bindPhase = "IDLE"
  /\ o.ghostStreamComplete <=> o.bindPhase = "COMPLETE"
  /\ o.activeBind # NoRequest /\ o.basis.fresh => o.basis.text = text

(* A request the object names is of the kind it is named for.               *)
Wired(o, rs) ==
  /\ o.activeBind \in DOMAIN rs =>
       /\ rs[o.activeBind].verb = "BIND"
       /\ o.bindPhase # "COMPLETE"
       /\ o.pendingGhostText = rs[o.activeBind].tokens
  /\ o.activeSegment \in DOMAIN rs =>
       /\ rs[o.activeSegment].verb = "SEGMENT"
       /\ o.draftText \in {rs[o.activeSegment].text, EmptyText}
  /\ \A r \in EnhancesOf(o) \cap DOMAIN rs : rs[r].verb = "ENHANCE"

(* Nothing runs but what is named.                                          *)
Heard(rs, bind, enhances) ==
  \A r \in DOMAIN rs :
    /\ rs[r].verb = "BIND" /\ ~rs[r].abandoned => r = bind
    /\ rs[r].verb = "ENHANCE" /\ ~rs[r].cancelled => r \in enhances

Answered(o, rs, p) == p = "open" => EnhancesOf(o) \subseteq DOMAIN rs

Session(o, text, ok, rs, p) ==
  /\ Reviewed(o, ok)
  /\ Drafted(o, text)
  /\ Bound(o, text)
  /\ Wired(o, rs)
  /\ Heard(rs, o.activeBind, EnhancesOf(o))
  /\ Answered(o, rs, p)

(* A bind that is about to start on the active object is of its text.       *)
CallsAreFresh ==
  \A c \in BindCalls :
    bindCalls[c] # NoCall /\ bindCalls[c].state = active /\ bindCalls[c].basis.fresh =>
      bindCalls[c].basis.text = typed[Current.source]

SessionInv ==
  /\ TypeInv
  /\ EnhanceCallsAreActive
  /\ CallsAreFresh
  /\ active = 0 => Heard(requests, NoRequest, {})
  /\ active # 0 => Session(Current, typed[Current.source], approved, requests, port)

-------------------------------------------------------------------------------
(* What the operators on objects and requests do to it.                     *)

LEMMA ClearedFields ==
  ASSUME TextsAssumption, NEW o \in InputState
  PROVE  LET n == DraftCleared(o)
         IN  /\ n \in InputState
             /\ n.source = o.source /\ n.debounce = o.debounce /\ n.extracted = o.extracted
             /\ n.accepted = o.accepted /\ n.hasStaleAccepted = o.hasStaleAccepted
             /\ n.activeSegment = o.activeSegment /\ n.activeBind = o.activeBind
             /\ n.bindPhase = o.bindPhase /\ n.pendingGhostText = o.pendingGhostText
             /\ n.ghostStreamComplete = o.ghostStreamComplete /\ n.basis = o.basis
             /\ EnhancesOf(n) = {}
             /\ n.draftText = EmptyText /\ n.draftSegments = <<>>
<1> DEFINE n == DraftCleared(o)
<1>1. n \in InputState
  BY DraftClearedType
<1>2. /\ n.source = o.source /\ n.debounce = o.debounce /\ n.extracted = o.extracted
      /\ n.accepted = o.accepted /\ n.hasStaleAccepted = o.hasStaleAccepted
      /\ n.activeSegment = o.activeSegment /\ n.activeBind = o.activeBind
      /\ n.bindPhase = o.bindPhase /\ n.pendingGhostText = o.pendingGhostText
      /\ n.ghostStreamComplete = o.ghostStreamComplete /\ n.basis = o.basis
      /\ n.activeEnhance = [p \in Positions |-> NoRequest]
      /\ n.draftText = EmptyText /\ n.draftSegments = <<>>
  BY DEF DraftCleared, InputState
<1> HIDE DEF n
<1>3. EnhancesOf(n) = {}
  BY <1>2 DEF EnhancesOf
<1>4. QED
  BY <1>1, <1>2, <1>3 DEF n

LEMMA InterruptedFields ==
  ASSUME TextsAssumption, NEW o \in InputState, NEW text, Bound(o, text)
  PROVE  LET n == Copied(o)
         IN  /\ n.source = o.input
             /\ n.draftText = o.draftText
             /\ n.draftSegments = o.draftSegments
             /\ n.draftIsStale
             /\ n.debounce = "timer"
             /\ n.accepted = o.accepted
             /\ n.accepted # {} => n.hasStaleAccepted
             /\ n.activeBind = NoRequest
             /\ n.bindPhase = "IDLE"
             /\ ~n.ghostStreamComplete
             /\ n.activeSegment = o.activeSegment
             /\ n.activeEnhance = o.activeEnhance
<1> DEFINE b == BindCancelled(o)
           w == WorkCleared(b)
           i == Interrupted(o)
           n == Copied(o)
<1>1. /\ b \in InputState
      /\ b.input = o.input /\ b.draftText = o.draftText /\ b.draftSegments = o.draftSegments
      /\ b.accepted = o.accepted /\ b.activeBind = NoRequest /\ ~b.ghostStreamComplete
      /\ b.activeSegment = o.activeSegment /\ b.activeEnhance = o.activeEnhance
  <2>1. b \in InputState
    BY BindCancelledType
  <2>2. CASE o.activeBind = NoRequest
    BY <2>1, <2>2 DEF BindCancelled, Bound
  <2>3. CASE o.activeBind # NoRequest
    BY <2>1, <2>3 DEF BindCancelled, InputState
  <2>4. QED
    BY <2>2, <2>3
<1> HIDE DEF b
<1>2. /\ w \in InputState
      /\ w.input = o.input /\ w.draftText = o.draftText /\ w.draftSegments = o.draftSegments
      /\ w.accepted = o.accepted /\ w.activeBind = NoRequest /\ ~w.ghostStreamComplete
      /\ w.activeSegment = o.activeSegment /\ w.activeEnhance = o.activeEnhance
      /\ w.bindPhase = "IDLE"
  <2>1. w \in InputState
    BY <1>1, WorkClearedType
  <2>2. QED
    BY <1>1, <2>1 DEF WorkCleared, InputState
<1>3. /\ i \in InputState
      /\ i = [w EXCEPT !.draftIsStale = TRUE, !.hasStaleAccepted = @ \/ o.accepted # {}]
  BY InterruptedType DEF Interrupted, b
<1> HIDE DEF w, i
<1>4. /\ i.input = o.input /\ i.draftText = o.draftText /\ i.draftSegments = o.draftSegments
      /\ i.accepted = o.accepted /\ i.activeBind = NoRequest /\ ~i.ghostStreamComplete
      /\ i.activeSegment = o.activeSegment /\ i.activeEnhance = o.activeEnhance
      /\ i.bindPhase = "IDLE" /\ i.draftIsStale
      /\ i.accepted # {} => i.hasStaleAccepted
  BY <1>2, <1>3 DEF InputState
<1>5. n = [i EXCEPT !.debounce = "timer", !.source = o.input] /\ o.input \in Inputs
  BY DEF Copied, i, InputState
<1> HIDE DEF n
<1>6. /\ n.source = o.input /\ n.debounce = "timer"
      /\ n.draftText = i.draftText /\ n.draftSegments = i.draftSegments
      /\ n.accepted = i.accepted /\ n.activeBind = i.activeBind
      /\ n.ghostStreamComplete = i.ghostStreamComplete
      /\ n.activeSegment = i.activeSegment /\ n.activeEnhance = i.activeEnhance
      /\ n.bindPhase = i.bindPhase /\ n.draftIsStale = i.draftIsStale
      /\ n.hasStaleAccepted = i.hasStaleAccepted
  <2>1. i \in InputState
    BY <1>3
  <2>2. n.source = o.input /\ n.debounce = "timer"
    BY <1>5, <2>1 DEF InputState
  <2>3. /\ n.draftText = i.draftText /\ n.draftSegments = i.draftSegments
        /\ n.accepted = i.accepted
    BY <1>5, <2>1 DEF InputState
  <2>4. n.activeBind = i.activeBind /\ n.ghostStreamComplete = i.ghostStreamComplete
    BY <1>5, <2>1 DEF InputState
  <2>5. n.activeSegment = i.activeSegment /\ n.activeEnhance = i.activeEnhance
    BY <1>5, <2>1 DEF InputState
  <2>6. /\ n.bindPhase = i.bindPhase /\ n.draftIsStale = i.draftIsStale
        /\ n.hasStaleAccepted = i.hasStaleAccepted
    BY <1>5, <2>1 DEF InputState
  <2>7. QED
    BY <2>2, <2>3, <2>4, <2>5, <2>6
<1>7. QED
  BY <1>4, <1>6 DEF n

(* An input event on the active input.                                      *)
LEMMA InterruptedSession ==
  ASSUME TextsAssumption, NEW o \in InputState, NEW rs, RequestsTyped(rs), NEW p,
         NEW text, NEW ok, Session(o, text, ok, rs, p), NEW newText, NEW ended \in SUBSET {o.activeBind},
         o.activeBind \in ended \/ o.activeBind \notin DOMAIN rs
  PROVE  Session(Copied(o), newText, {}, Cancel(rs, ended), p)
<1> DEFINE n == Copied(o)
           rest == Cancel(rs, ended)
<1>1. Bound(o, text)
  BY DEF Session
<1>2. /\ n.draftText = o.draftText /\ n.draftSegments = o.draftSegments
      /\ n.draftIsStale /\ n.debounce = "timer"
      /\ n.accepted # {} => n.hasStaleAccepted
      /\ n.activeBind = NoRequest /\ n.bindPhase = "IDLE" /\ ~n.ghostStreamComplete
      /\ n.activeSegment = o.activeSegment /\ n.activeEnhance = o.activeEnhance
  BY <1>1, InterruptedFields
<1>3. /\ DOMAIN rest = DOMAIN rs \ ended
      /\ \A q \in DOMAIN rest : rest[q] = rs[q]
  BY DEF Cancel
<1> HIDE DEF n, rest
<1>4. EnhancesOf(n) = EnhancesOf(o)
  BY <1>2 DEF EnhancesOf
<1>5. NoRequest \notin DOMAIN rest
  BY <1>3 DEF RequestsTyped
<1>6. Reviewed(n, {})
  BY <1>2 DEF Session, Reviewed
<1>7. Drafted(n, newText)
  BY <1>2 DEF Session, Drafted
<1>8. Bound(n, newText)
  BY <1>2 DEF Bound
<1>9. Wired(n, rest)
  BY <1>2, <1>3, <1>4, <1>5 DEF Session, Wired
<1>10. Heard(rest, n.activeBind, EnhancesOf(n))
  BY <1>3, <1>4 DEF Session, Heard
<1>11. Answered(n, rest, p)
  <2>1. ASSUME NEW r \in EnhancesOf(o), p = "open"
        PROVE  r \in DOMAIN rest
    <3>1. r \in DOMAIN rs /\ rs[r].verb = "ENHANCE"
      BY <2>1 DEF Session, Answered, Wired
    <3>2. r # o.activeBind
      BY <3>1 DEF Session, Wired
    <3>3. QED
      BY <1>3, <3>1, <3>2
  <2>2. QED
    BY <1>4, <2>1 DEF Answered
<1>12. QED
  BY <1>6, <1>7, <1>8, <1>9, <1>10, <1>11 DEF Session, n, rest

(* An input event on another input.                                         *)
LEMMA NewSession ==
  ASSUME TextsAssumption, NEW i \in Inputs, NEW rs, RequestsTyped(rs), NEW p, NEW text, NEW ok,
         Heard(rs, NoRequest, {})
  PROVE  Session(NewState(i), text, ok, rs, p)
<1> DEFINE n == NewState(i)
<1>1. /\ n.draftText = EmptyText /\ n.draftSegments = <<>> /\ n.debounce = "timer"
      /\ n.accepted = {} /\ n.activeBind = NoRequest /\ n.bindPhase = "IDLE"
      /\ n.ghostStreamComplete = FALSE /\ n.activeSegment = NoRequest
      /\ n.activeEnhance = [q \in Positions |-> NoRequest]
  BY DEF NewState
<1> HIDE DEF n
<1>2. EnhancesOf(n) = {}
  BY <1>1 DEF EnhancesOf
<1>3. NoRequest \notin DOMAIN rs
  BY DEF RequestsTyped
<1>4. Reviewed(n, ok) /\ Drafted(n, text) /\ Bound(n, text)
  BY <1>1 DEF Reviewed, AreDistinct, Drafted, Bound
<1>5. Wired(n, rs) /\ Heard(rs, n.activeBind, EnhancesOf(n)) /\ Answered(n, rs, p)
  BY <1>1, <1>2, <1>3 DEF Wired, Answered
<1>6. QED
  BY <1>4, <1>5 DEF Session, n

(* The session that is left.                                                *)
LEMMA AbandonedSession ==
  ASSUME NEW o, NEW rs, RequestsTyped(rs), Heard(rs, o.activeBind, EnhancesOf(o))
  PROVE  Heard(Abandon(Cancel(rs, EnhancesOf(o)), o), NoRequest, {})
<1> DEFINE cut == Cancel(rs, EnhancesOf(o))
           rest == Abandon(cut, o)
<1>1. DOMAIN cut = DOMAIN rs \ EnhancesOf(o) /\ \A q \in DOMAIN cut : cut[q] = rs[q]
  BY DEF Cancel
<1> HIDE DEF cut
<1>2. /\ DOMAIN rest = DOMAIN cut
      /\ \A q \in DOMAIN cut : q # o.activeBind => rest[q] = cut[q]
      /\ \A q \in DOMAIN cut : q = o.activeBind => rest[q] = [cut[q] EXCEPT !.abandoned = TRUE]
  BY DEF Abandon
<1>3. ASSUME NEW q \in DOMAIN rest
      PROVE  /\ rest[q].verb = "BIND" => rest[q].abandoned
             /\ rest[q].verb = "ENHANCE" => rest[q].cancelled
  <2>1. q \notin EnhancesOf(o) /\ q \in DOMAIN rs /\ cut[q] = rs[q] /\ cut[q] \in Request
    BY <1>1, <1>2 DEF RequestsTyped
  <2>2. /\ cut[q].verb = "BIND" /\ ~cut[q].abandoned => q = o.activeBind
        /\ cut[q].verb = "ENHANCE" => cut[q].cancelled
    BY <2>1 DEF Heard
  <2>3. CASE q # o.activeBind
    BY <1>2, <2>2, <2>3
  <2>4. CASE q = o.activeBind
    <3>1. rest[q] = [cut[q] EXCEPT !.abandoned = TRUE]
      BY <1>2, <2>4
    <3>2. rest[q].verb = cut[q].verb
      BY <2>1, <3>1 DEF Request
    <3>3. rest[q].verb = "BIND" => rest[q].abandoned
      BY <2>1, <3>1, <3>2 DEF Request
    <3>4. rest[q].verb = "ENHANCE" => rest[q].cancelled
      BY <2>1, <2>2, <3>1, <3>2 DEF Request
    <3>5. QED
      BY <3>3, <3>4
  <2>5. QED
    BY <2>3, <2>4
<1> HIDE DEF rest
<1>4. QED
  BY <1>3 DEF Heard, rest, cut

LEMMA MigratedFields ==
  ASSUME TextsAssumption, NEW o \in InputState, NEW new \in Seq(Positions), OwnBox \in Nat
  PROVE  LET m == Migrated(o, new)
         IN  /\ m.source = o.source /\ m.debounce = o.debounce /\ m.extracted = o.extracted
             /\ m.draftText = o.draftText /\ m.draftSegments = o.draftSegments
             /\ m.draftIsStale = o.draftIsStale
             /\ m.activeSegment = o.activeSegment /\ m.activeBind = o.activeBind
             /\ m.bindPhase = o.bindPhase /\ m.pendingGhostText = o.pendingGhostText
             /\ m.ghostStreamComplete = o.ghostStreamComplete /\ m.basis = o.basis
             /\ m.accepted = MigratedAcceptance(o, new)
             /\ ~m.hasStaleAccepted <=>
                  /\ MigratedAcceptance(o, new) \subseteq Undiverged(o.draftSegments, new)
                  /\ o.hasStaleAccepted => MigratedAcceptance(o, new) = {}
             /\ \A q \in Positions : m.activeEnhance[q] # NoRequest =>
                  m.activeEnhance[q] = o.activeEnhance[q]
<1> DEFINE kept == MigratedAcceptance(o, new)
           upstream == Undiverged(o.draftSegments, new)
           Live(q) == \/ o.activeEnhance[q] = NoRequest
                      \/ \E k \in upstream : new[k] = q
           stale == ~(kept \subseteq upstream) \/ (o.hasStaleAccepted /\ kept # {})
           enhances == [q \in Positions |-> IF Live(q) THEN o.activeEnhance[q] ELSE NoRequest]
           expansions == [q \in Positions |-> IF Live(q) THEN o.enhancedText[q] ELSE NoText]
           m == Migrated(o, new)
<1>1. m = [o EXCEPT !.accepted = kept, !.box = OwnBox, !.hasStaleAccepted = stale,
                    !.activeEnhance = enhances, !.enhancedText = expansions]
  BY DEF Migrated, InputState
<1>2. ~stale <=> kept \subseteq upstream /\ (o.hasStaleAccepted => kept = {})
  BY DEF InputState
<1>3. \A q \in Positions : enhances[q] # NoRequest => enhances[q] = o.activeEnhance[q]
  OBVIOUS
<1> HIDE DEF kept, stale, enhances, expansions, m
<1>4. /\ m.source = o.source /\ m.debounce = o.debounce /\ m.extracted = o.extracted
      /\ m.draftText = o.draftText /\ m.draftSegments = o.draftSegments
      /\ m.draftIsStale = o.draftIsStale
      /\ m.activeSegment = o.activeSegment /\ m.activeBind = o.activeBind
      /\ m.bindPhase = o.bindPhase /\ m.pendingGhostText = o.pendingGhostText
      /\ m.ghostStreamComplete = o.ghostStreamComplete /\ m.basis = o.basis
      /\ m.accepted = kept /\ m.hasStaleAccepted = stale /\ m.activeEnhance = enhances
  BY <1>1 DEF InputState
<1>5. QED
  BY <1>2, <1>3, <1>4 DEF kept, m

(* What has been accepted and not gone stale has been approved, in the new  *)
(* clauses and, as nothing before it differs, in the old ones.              *)
LEMMA MigratedReview ==
  ASSUME TextsAssumption, NEW o \in InputState, NEW new \in Seq(Positions), OwnBox \in Nat,
         NEW ok, Reviewed(o, ok), ~Migrated(o, new).hasStaleAccepted,
         NEW k \in Migrated(o, new).accepted
  PROVE  /\ k \in DOMAIN new /\ new[k] \in ok
         /\ k \in DOMAIN o.draftSegments => o.draftSegments[k] \in ok
<1> DEFINE kept == MigratedAcceptance(o, new)
           upstream == Undiverged(o.draftSegments, new)
<1>1. k \in kept /\ kept \subseteq upstream /\ (o.hasStaleAccepted => kept = {})
  BY MigratedFields
<1>2. ~o.hasStaleAccepted
  BY <1>1
<1>3. PICK j \in o.accepted \cap DOMAIN o.draftSegments :
        k \in DOMAIN new /\ o.draftSegments[j] = new[k]
  BY <1>1 DEF MigratedAcceptance
<1>4. new[k] \in ok
  BY <1>2, <1>3 DEF Reviewed
<1>5. k \in upstream
  BY <1>1
<1>6. o.draftSegments[k] = new[k]
  <2>1. k \in 1..SmallerOf(Len(o.draftSegments), Len(new)) /\ \A i \in 1..k : o.draftSegments[i] = new[i]
    BY <1>5 DEF Undiverged
  <2>2. k \in 1..k
    <3>1. k \in Nat
      BY <1>3, IndexIsNat
    <3>2. k >= 1
      BY <1>3, LenProperties
    <3>3. QED
      BY <3>1, <3>2
  <2>3. QED
    BY <2>1, <2>2
<1>7. QED
  BY <1>3, <1>4, <1>6

(* No stream appears in a migration.                                        *)
LEMMA MigratedStreams ==
  ASSUME TextsAssumption, NEW o \in InputState, NEW new \in Seq(Positions), OwnBox \in Nat
  PROVE  EnhancesOf(Migrated(o, new)) \subseteq EnhancesOf(o)
<1> DEFINE m == Migrated(o, new)
<1>1. \A q \in Positions : m.activeEnhance[q] # NoRequest =>
        m.activeEnhance[q] = o.activeEnhance[q]
  BY MigratedFields
<1> HIDE DEF m
<1>2. EnhancesOf(m) \subseteq EnhancesOf(o)
  BY <1>1 DEF EnhancesOf
<1>3. QED
  BY <1>2 DEF m

(* A set of streams is cut down to those that keep, and the rest cancelled. *)
LEMMA TrimmedSession ==
  ASSUME NEW o, NEW n, NEW rs, RequestsTyped(rs), NEW p,
         Wired(o, rs), Heard(rs, o.activeBind, EnhancesOf(o)), Answered(o, rs, p),
         n.activeBind = o.activeBind, n.bindPhase = o.bindPhase,
         n.pendingGhostText = o.pendingGhostText,
         \/ n.activeSegment = o.activeSegment /\ n.draftText \in {o.draftText, EmptyText}
         \/ n.activeSegment = NoRequest,
         EnhancesOf(n) \subseteq EnhancesOf(o),
         NEW ended, EnhancesOf(o) \ EnhancesOf(n) \subseteq ended,
         EnhancesOf(n) \cap ended = {}
  PROVE  /\ Wired(n, Cancel(rs, ended))
         /\ Heard(Cancel(rs, ended), n.activeBind, EnhancesOf(n))
         /\ Answered(n, Cancel(rs, ended), p)
<1> DEFINE rest == Cancel(rs, ended)
<1>1. /\ DOMAIN rest = DOMAIN rs \ ended
      /\ \A q \in DOMAIN rest : rest[q] = rs[q]
  BY DEF Cancel
<1>2. NoRequest \notin DOMAIN rs
  BY DEF RequestsTyped
<1> HIDE DEF rest
<1>3. Wired(n, rest)
  BY <1>1, <1>2 DEF Wired
<1>4. Heard(rest, n.activeBind, EnhancesOf(n))
  BY <1>1 DEF Heard
<1>5. Answered(n, rest, p)
  BY <1>1 DEF Answered
<1>6. QED
  BY <1>3, <1>4, <1>5 DEF rest

(* The object changes, and what it names no more is cancelled.              *)
LEMMA GivenUpSession ==
  ASSUME NEW o, NEW n, NEW rs, RequestsTyped(rs), NEW p,
         Wired(o, rs), Heard(rs, o.activeBind, EnhancesOf(o)), Answered(o, rs, p),
         n.activeBind = o.activeBind, n.bindPhase = o.bindPhase,
         n.pendingGhostText = o.pendingGhostText,
         \/ n.activeSegment = o.activeSegment /\ n.draftText \in {o.draftText, EmptyText}
         \/ n.activeSegment = NoRequest,
         EnhancesOf(n) \subseteq EnhancesOf(o)
  PROVE  LET rest == Cancel(rs, GivenUp(o, n))
         IN  Wired(n, rest) /\ Heard(rest, n.activeBind, EnhancesOf(n)) /\ Answered(n, rest, p)
<1> DEFINE ended == GivenUp(o, n)
<1>1. EnhancesOf(o) \ EnhancesOf(n) \subseteq ended /\ EnhancesOf(n) \cap ended = {}
  BY DEF GivenUp
<1> HIDE DEF ended
<1>2. /\ Wired(n, Cancel(rs, ended))
      /\ Heard(Cancel(rs, ended), n.activeBind, EnhancesOf(n))
      /\ Answered(n, Cancel(rs, ended), p)
  BY <1>1, TrimmedSession
<1>3. QED
  BY <1>2 DEF ended

(* The expansions are cancelled, and the object goes on naming them.        *)
LEMMA DisownedSession ==
  ASSUME NEW o, NEW text, NEW ok, NEW rs, RequestsTyped(rs), NEW p, Session(o, text, ok, rs, p)
  PROVE  Session(o, text, ok, Disown(rs, EnhancesOf(o)), p)
<1> DEFINE rest == Disown(rs, EnhancesOf(o))
<1>1. /\ DOMAIN rest = DOMAIN rs
      /\ \A r \in DOMAIN rs :
           rest[r] = IF r \in EnhancesOf(o) THEN [rs[r] EXCEPT !.cancelled = TRUE] ELSE rs[r]
  BY DEF Disown
<1> HIDE DEF rest
<1>2. ASSUME NEW r \in DOMAIN rs
      PROVE  /\ rest[r].verb = rs[r].verb
             /\ rs[r].verb = "BIND" => rest[r] = rs[r]
             /\ rs[r].verb = "SEGMENT" => rest[r] = rs[r]
             /\ rs[r].verb = "ENHANCE" /\ r \in EnhancesOf(o) => rest[r].cancelled
             /\ r \notin EnhancesOf(o) => rest[r] = rs[r]
  <2>1. rs[r] \in Request /\ (r \in EnhancesOf(o) => rs[r].verb = "ENHANCE")
    BY <1>2 DEF RequestsTyped, Session, Wired
  <2>2. CASE r \in EnhancesOf(o)
    <3>1. /\ rs[r] \in [verb : {"ENHANCE"}, text : Texts, cancelled : BOOLEAN, late : BOOLEAN]
          /\ rest[r] = [rs[r] EXCEPT !.cancelled = TRUE]
      BY <1>1, <2>1, <2>2 DEF Request
    <3>2. QED
      BY <2>2, <3>1
  <2>3. CASE r \notin EnhancesOf(o)
    BY <1>1, <2>3
  <2>4. QED
    BY <2>2, <2>3
<1>3. Wired(o, rest)
  <2>1. NoRequest \notin DOMAIN rest
    BY <1>1 DEF RequestsTyped
  <2>2. Wired(o, rs)
    BY DEF Session
  <2>3. QED
    BY <1>1, <1>2, <2>1, <2>2 DEF Wired
<1>4. Heard(rest, o.activeBind, EnhancesOf(o))
  <2>1. Heard(rs, o.activeBind, EnhancesOf(o))
    BY DEF Session
  <2>2. QED
    BY <1>1, <1>2, <2>1 DEF Heard
<1>5. Answered(o, rest, p)
  BY <1>1 DEF Session, Answered
<1>6. QED
  BY <1>3, <1>4, <1>5 DEF Session, rest

(* What happens to a request that o does not name leaves o as it is.        *)
LEMMA UnnamedRequest ==
  ASSUME NEW o, NEW rs, NEW new, NEW r, Wired(o, rs),
         r # o.activeBind, r # o.activeSegment, r \notin EnhancesOf(o),
         \A q \in DOMAIN new \ {r} : q \in DOMAIN rs /\ new[q] = rs[q]
  PROVE  Wired(o, new)
<1>1. o.activeBind \in DOMAIN new => o.activeBind \in DOMAIN rs /\ new[o.activeBind] = rs[o.activeBind]
  OBVIOUS
<1>2. o.activeSegment \in DOMAIN new =>
        o.activeSegment \in DOMAIN rs /\ new[o.activeSegment] = rs[o.activeSegment]
  OBVIOUS
<1>3. \A q \in EnhancesOf(o) \cap DOMAIN new : q \in DOMAIN rs /\ new[q] = rs[q]
  OBVIOUS
<1>4. QED
  BY <1>1, <1>2, <1>3 DEF Wired

(* A new request, which the object comes to name.                           *)
LEMMA PostFields ==
  ASSUME NEW rs, NEW r, r \notin DOMAIN rs, NEW request
  PROVE  /\ DOMAIN rs \subseteq DOMAIN Post(rs, r, request)
         /\ DOMAIN Post(rs, r, request) \subseteq DOMAIN rs \cup {r}
         /\ port # "dead" => r \in DOMAIN Post(rs, r, request)
         /\ \A q \in DOMAIN rs : Post(rs, r, request)[q] = rs[q]
         /\ r \in DOMAIN Post(rs, r, request) => Post(rs, r, request)[r] = request
BY DEF Post

-------------------------------------------------------------------------------
(* Every step keeps the invariant.                                          *)

LEMMA UpdateSession ==
  ASSUME SessionInv, TypeInv', EnhanceCallsAreActive', active # 0, NEW o, Update(o),
         o.source = Current.source, Session(o, typed[o.source], approved', requests', port'),
         UNCHANGED <<typed, active, bindCalls>>
  PROVE  SessionInv'
<1>1. Current' = o /\ active' # 0
  BY CurrentType DEF Current, Update, SessionInv
<1>2. CallsAreFresh'
  BY <1>1 DEF SessionInv, CallsAreFresh
<1>3. Session(o, typed'[o.source], approved', requests', port')
  OBVIOUS
<1>4. QED
  BY <1>1, <1>2, <1>3 DEF SessionInv

LEMMA SupersedeSession ==
  ASSUME TextsAssumption, SessionInv, TypeInv', NEW left \in InputState, NEW o \in InputState,
         Supersede(left, o), Session(o, typed'[o.source], approved', requests', port'),
         CallsKept
  PROVE  SessionInv'
<1>1. active' # 0 /\ active' \notin DOMAIN states /\ Current' = o /\ enhanceCalls' = {}
  BY SupersedeType DEF Current, SessionInv
<1>2. \A c \in BindCalls : bindCalls'[c] # NoCall => bindCalls'[c].state # active'
  BY <1>1 DEF SessionInv, TypeInv, TypeOK, CallsKept
<1>3. CallsAreFresh'
  BY <1>2 DEF CallsAreFresh
<1>4. QED
  BY <1>1, <1>3 DEF SessionInv, EnhanceCallsAreActive

(* What SessionInv says of the active object.                               *)
LEMMA CurrentSession ==
  ASSUME SessionInv, active # 0
  PROVE  /\ Current \in InputState /\ Current.source \in Inputs
         /\ Session(Current, typed[Current.source], approved, requests, port)
         /\ RequestsTyped(requests)
BY CurrentType DEF SessionInv, TypeInv

LEMMA InputSession ==
  ASSUME TextsAssumption, SessionInv, TypeInv', NEW i \in Inputs, NEW text \in Texts, Input(i, text)
  PROVE  SessionInv'
<1>1. /\ approved' = {} /\ UNCHANGED port /\ CallsKept
      /\ NewState(i) \in InputState /\ NewState(i).source = i
      /\ RequestsTyped(requests) /\ RequestsTyped(requests')
  <2>1. bindCalls' = Outlived \/ UNCHANGED bindCalls
    BY DEF Input
  <2>2. CallsKept
    BY <2>1, OutlivedKeepsCalls DEF SessionInv
  <2>3. QED
    BY <2>2, NewStateType, FreshNumbers DEF Input, SessionInv, TypeInv, NewState
<1>2. CASE active # 0 /\ Current.input = i
  <2> DEFINE n == Copied(Current)
  <2>1. Interrupted(Current) \in InputState
    BY <1>2, CurrentSession, InterruptedType
  <2>2. n \in InputState
    BY <1>2, CurrentSession, CopiedType
  <2>3. Supersede(Interrupted(Current), n) /\ requests' = Cancel(requests, {Current.activeBind})
    BY <1>2 DEF Input
  <2>4. Session(n, typed'[n.source], {}, Cancel(requests, {Current.activeBind}), port)
    <3>1. Current \in InputState /\ RequestsTyped(requests)
          /\ Session(Current, typed[Current.source], approved, requests, port)
      BY <1>2, CurrentSession
    <3>2. QED
      BY <3>1, InterruptedSession
  <2> HIDE DEF n
  <2>5. QED
    BY <1>1, <2>1, <2>2, <2>3, <2>4, SupersedeSession
<1>3. CASE active # 0 /\ Current.input # i
  <2>1. DraftCleared(WorkCleared(Current)) \in InputState
    BY <1>3, CurrentSession, WorkClearedType, DraftClearedType
  <2>2. /\ Supersede(DraftCleared(WorkCleared(Current)), NewState(i))
        /\ requests' = Abandon(Cancel(requests, EnhancesOf(Current)), Current)
    BY <1>3 DEF Input
  <2>3. Heard(requests', NoRequest, {})
    BY <1>1, <1>3, <2>2, CurrentSession, AbandonedSession DEF Session
  <2>4. Session(NewState(i), typed'[i], {}, requests', port)
    BY <1>1, <2>3, NewSession
  <2>5. QED
    BY <1>1, <2>1, <2>2, <2>4, SupersedeSession
<1>4. CASE active = 0
  <2>1. Supersede(NewState(i), NewState(i)) /\ requests' = requests
    BY <1>4 DEF Input
  <2>2. Heard(requests', NoRequest, {})
    BY <1>4, <2>1 DEF SessionInv
  <2>3. Session(NewState(i), typed'[i], {}, requests', port)
    BY <1>1, <2>2, NewSession
  <2>4. QED
    BY <1>1, <2>1, <2>3, SupersedeSession
<1>5. QED
  BY <1>2, <1>3, <1>4

(* A commit is an input event whose expansions were cancelled; the bind has *)
(* ended, so nothing runs for it.                                           *)
LEMMA CommitSession ==
  ASSUME TextsAssumption, SessionInv, TypeInv', CommitGhostText
  PROVE  SessionInv'
<1> DEFINE o == Current
           n == Copied(o)
           kept == Cancel(requests, {})
<1>1. /\ active # 0 /\ o \in InputState /\ RequestsTyped(requests)
      /\ Session(o, typed[o.source], approved, requests, port)
      /\ o.ghostStreamComplete /\ approved' = {} /\ UNCHANGED port /\ CallsKept
  BY CurrentSession, OutlivedKeepsCalls DEF CommitGhostText, HasKeys, MayCommit, SessionInv
<1>2. o.activeBind \notin DOMAIN requests
  BY <1>1 DEF Session, Bound, Wired
<1>3. Session(n, typed'[n.source], {}, kept, port)
  BY <1>1, <1>2, InterruptedSession
<1>4. Interrupted(o) \in InputState /\ n \in InputState
  BY <1>1, InterruptedType, CopiedType
<1>5. Reset(Interrupted(o)) \in InputState
  BY <1>4, ResetType, FreshNumbers DEF SessionInv
<1>6. Supersede(Reset(Interrupted(o)), n) /\ requests' = Disown(requests, EnhancesOf(o))
  BY DEF CommitGhostText
<1>7. n.activeEnhance = o.activeEnhance
  BY <1>1, InterruptedFields DEF Session
<1>8. RequestsTyped(kept)
  BY <1>1, CancelType
<1>9. Disown(kept, EnhancesOf(o)) = Disown(requests, EnhancesOf(o))
  BY DEF Disown, Cancel
<1> HIDE DEF n, kept
<1>10. EnhancesOf(n) = EnhancesOf(o)
  BY <1>7 DEF EnhancesOf
<1>11. Session(n, typed'[n.source], {}, Disown(kept, EnhancesOf(n)), port)
  BY <1>3, <1>8, DisownedSession
<1>12. Session(n, typed'[n.source], {}, requests', port)
  BY <1>6, <1>9, <1>10, <1>11
<1>13. QED
  BY <1>1, <1>4, <1>5, <1>6, <1>12, SupersedeSession

LEMMA DebounceFiresSession ==
  ASSUME TextsAssumption, SessionInv, TypeInv', EnhanceCallsAreActive', DebounceFires
  PROVE  SessionInv'
<1> DEFINE o == Current
           n == [Current EXCEPT !.debounce = "reading", !.extracted = typed[Current.source]]
<1>1. /\ active # 0 /\ o \in InputState /\ o.source \in Inputs
      /\ Session(o, typed[o.source], approved, requests, port)
  BY CurrentSession DEF DebounceFires
<1>2. typed[o.source] \in Texts
  BY <1>1 DEF SessionInv, TypeInv, TypeOK
<1>3. /\ n \in InputState /\ n.source = o.source
      /\ n.extracted = typed[o.source]
      /\ n.draftText = o.draftText /\ n.draftSegments = o.draftSegments
      /\ n.draftIsStale = o.draftIsStale /\ n.accepted = o.accepted
      /\ n.hasStaleAccepted = o.hasStaleAccepted
      /\ n.activeSegment = o.activeSegment /\ n.activeBind = o.activeBind
      /\ n.bindPhase = o.bindPhase /\ n.pendingGhostText = o.pendingGhostText
      /\ n.ghostStreamComplete = o.ghostStreamComplete /\ n.basis = o.basis
      /\ n.activeEnhance = o.activeEnhance
  BY <1>1, <1>2 DEF InputState
<1>4. Update(n) /\ UNCHANGED <<typed, active, bindCalls, requests, port, approved>>
  BY DEF DebounceFires
<1> HIDE DEF n, o
<1>5. Session(n, typed[n.source], approved, requests, port)
  <2>1. EnhancesOf(n) = EnhancesOf(o)
    BY <1>3 DEF EnhancesOf
  <2>2. Reviewed(n, approved) /\ Drafted(n, typed[n.source]) /\ Bound(n, typed[n.source])
    BY <1>1, <1>3 DEF Session, Reviewed, Drafted, Bound
  <2>3. Wired(n, requests) /\ Heard(requests, n.activeBind, EnhancesOf(n)) /\ Answered(n, requests, port)
    BY <1>1, <1>3, <2>1 DEF Session, Wired, Answered
  <2>4. QED
    BY <2>2, <2>3 DEF Session
<1>6. QED
  BY <1>1, <1>3, <1>4, <1>5, UpdateSession DEF o

(* A SEGMENT goes out for the text that has been rendered, or nothing has.  *)
LEMMA PostedSegment ==
  ASSUME NEW o, NEW n, NEW rs, NEW p, NEW r, r \notin DOMAIN rs,
         Wired(o, rs), Heard(rs, o.activeBind, EnhancesOf(o)), Answered(o, rs, p),
         n.activeBind = o.activeBind, n.bindPhase = o.bindPhase,
         n.pendingGhostText = o.pendingGhostText, EnhancesOf(n) = EnhancesOf(o),
         n.activeSegment = r, r # o.activeBind, r \notin EnhancesOf(o),
         NEW text, n.draftText \in {text, EmptyText}
  PROVE  LET live == Post(rs, r, [verb |-> "SEGMENT", text |-> text])
         IN  Wired(n, live) /\ Heard(live, n.activeBind, EnhancesOf(n)) /\ Answered(n, live, p)
<1> DEFINE request == [verb |-> "SEGMENT", text |-> text]
           live == Post(rs, r, request)
<1>1. /\ DOMAIN rs \subseteq DOMAIN live /\ DOMAIN live \subseteq DOMAIN rs \cup {r}
      /\ \A q \in DOMAIN rs : live[q] = rs[q]
      /\ r \in DOMAIN live => live[r] = request
  BY PostFields
<1>2. request.verb = "SEGMENT" /\ request.text = text
  OBVIOUS
<1> HIDE DEF request, live
<1>3. Wired(n, live)
  BY <1>1, <1>2 DEF Wired
<1>4. Heard(live, n.activeBind, EnhancesOf(n))
  BY <1>1, <1>2 DEF Heard
<1>5. Answered(n, live, p)
  BY <1>1 DEF Answered
<1>6. QED
  BY <1>3, <1>4, <1>5 DEF live, request

(* The object as the storage has been read.                                 *)
Moved(o, segments) ==
  [Migrated(o, segments) EXCEPT !.debounce = "none", !.focused = 0, !.extracted = EmptyText]

LEMMA DebounceMoved ==
  ASSUME TextsAssumption, SessionInv, active # 0, Current.debounce = "reading",
         NEW segments, segments = Split[Current.extracted]
  PROVE  LET o == Current
             m == Migrated(o, segments)
             moved == Moved(o, segments)
         IN  /\ o \in InputState /\ RequestsTyped(requests)
             /\ Session(o, typed[o.source], approved, requests, port)
             /\ Wired(o, requests) /\ Heard(requests, o.activeBind, EnhancesOf(o))
             /\ Answered(o, requests, port)
             /\ segments \in Seq(Positions) /\ AreDistinct(segments) /\ OwnBox \in Nat
             /\ o.extracted = typed[o.source] /\ o.extracted \in Texts
             /\ moved \in InputState
             /\ moved.source = o.source /\ moved.debounce = "none"
             /\ moved.draftText = o.draftText /\ moved.draftSegments = o.draftSegments
             /\ moved.accepted = m.accepted /\ moved.hasStaleAccepted = m.hasStaleAccepted
             /\ moved.activeBind = o.activeBind
             /\ moved.bindPhase = o.bindPhase /\ moved.pendingGhostText = o.pendingGhostText
             /\ moved.ghostStreamComplete = o.ghostStreamComplete /\ moved.basis = o.basis
             /\ Bound(moved, typed[o.source])
             /\ EnhancesOf(moved) \subseteq EnhancesOf(o)
<1> DEFINE o == Current
           m == Migrated(o, segments)
           moved == Moved(o, segments)
<1>1. /\ o \in InputState /\ RequestsTyped(requests)
      /\ Session(o, typed[o.source], approved, requests, port)
      /\ Wired(o, requests) /\ Heard(requests, o.activeBind, EnhancesOf(o))
      /\ Answered(o, requests, port)
  BY CurrentSession DEF Session
<1>2. o.extracted = typed[o.source] /\ o.extracted \in Texts
  BY <1>1 DEF Session, Drafted, InputState
<1>3. segments \in Seq(Positions) /\ AreDistinct(segments)
  BY <1>2 DEF TextsAssumption
<1>4. OwnBox \in Nat
  BY FreshNumbers DEF SessionInv
<1>5. m \in InputState
  BY <1>1, <1>3, <1>4, MigratedType
<1>6. /\ m.source = o.source /\ m.draftText = o.draftText /\ m.draftSegments = o.draftSegments
      /\ m.activeBind = o.activeBind
      /\ m.bindPhase = o.bindPhase /\ m.pendingGhostText = o.pendingGhostText
      /\ m.ghostStreamComplete = o.ghostStreamComplete /\ m.basis = o.basis
  BY <1>1, <1>3, <1>4, MigratedFields
<1>7. EnhancesOf(m) \subseteq EnhancesOf(o)
  BY <1>1, <1>3, <1>4, MigratedStreams
<1>8. moved = [m EXCEPT !.debounce = "none", !.focused = 0, !.extracted = EmptyText]
  BY DEF Moved
<1> HIDE DEF m, moved
<1>9. /\ moved \in InputState
      /\ moved.source = m.source /\ moved.debounce = "none"
      /\ moved.draftText = m.draftText /\ moved.draftSegments = m.draftSegments
      /\ moved.accepted = m.accepted /\ moved.hasStaleAccepted = m.hasStaleAccepted
      /\ moved.activeBind = m.activeBind
      /\ moved.bindPhase = m.bindPhase /\ moved.pendingGhostText = m.pendingGhostText
      /\ moved.ghostStreamComplete = m.ghostStreamComplete /\ moved.basis = m.basis
      /\ moved.activeEnhance = m.activeEnhance
  BY <1>5, <1>8 DEF InputState, TextsAssumption
<1>10. EnhancesOf(moved) = EnhancesOf(m)
  BY <1>9 DEF EnhancesOf
<1>11. Bound(moved, typed[o.source])
  BY <1>1, <1>6, <1>9 DEF Session, Bound
<1>12. QED
  BY <1>1, <1>2, <1>3, <1>4, <1>6, <1>7, <1>9, <1>10, <1>11 DEF moved, m

(* What renderDraftSegments leaves of an object that names its SEGMENT.     *)
LEMMA RenderedFields ==
  ASSUME TextsAssumption, NEW o \in InputState, NEW text \in Texts, NEW new \in Seq(Positions),
         NEW stale \in BOOLEAN
  PROVE  LET n == Rendered(o, text, new, stale)
         IN  /\ n \in InputState
             /\ n.source = o.source /\ n.debounce = o.debounce /\ n.extracted = o.extracted
             /\ n.accepted = o.accepted /\ n.hasStaleAccepted = o.hasStaleAccepted
             /\ n.activeSegment = o.activeSegment /\ n.activeBind = o.activeBind
             /\ n.bindPhase = o.bindPhase /\ n.pendingGhostText = o.pendingGhostText
             /\ n.ghostStreamComplete = o.ghostStreamComplete /\ n.basis = o.basis
             /\ EnhancesOf(n) \subseteq EnhancesOf(o)
             /\ \/ n.draftText = EmptyText /\ n.draftSegments = <<>>
                \/ /\ text # EmptyText
                   /\ n.draftText = text /\ n.draftSegments = new /\ n.draftIsStale = stale
<1> DEFINE n == Rendered(o, text, new, stale)
<1>1. CASE text = EmptyText \/ o.input \in gone
  <2>1. n = DraftCleared(o)
    BY <1>1 DEF Rendered
  <2>2. /\ n \in InputState
        /\ n.source = o.source /\ n.debounce = o.debounce /\ n.extracted = o.extracted
        /\ n.accepted = o.accepted /\ n.hasStaleAccepted = o.hasStaleAccepted
        /\ n.activeSegment = o.activeSegment /\ n.activeBind = o.activeBind
        /\ n.bindPhase = o.bindPhase /\ n.pendingGhostText = o.pendingGhostText
        /\ n.ghostStreamComplete = o.ghostStreamComplete /\ n.basis = o.basis
        /\ EnhancesOf(n) = {}
        /\ n.draftText = EmptyText /\ n.draftSegments = <<>>
    BY <2>1, ClearedFields
  <2> HIDE DEF n
  <2>3. QED
    BY <2>2 DEF n
<1>2. CASE ~(text = EmptyText \/ o.input \in gone)
  <2>1. n = [o EXCEPT !.draftText = text, !.draftSegments = new, !.draftIsStale = stale]
    BY <1>2 DEF Rendered
  <2> HIDE DEF n
  <2>2. /\ n \in InputState
        /\ n.source = o.source /\ n.debounce = o.debounce /\ n.extracted = o.extracted
        /\ n.accepted = o.accepted /\ n.hasStaleAccepted = o.hasStaleAccepted
        /\ n.activeSegment = o.activeSegment /\ n.activeBind = o.activeBind
        /\ n.bindPhase = o.bindPhase /\ n.pendingGhostText = o.pendingGhostText
        /\ n.ghostStreamComplete = o.ghostStreamComplete /\ n.basis = o.basis
        /\ n.activeEnhance = o.activeEnhance
        /\ n.draftText = text /\ n.draftSegments = new /\ n.draftIsStale = stale
    BY <2>1 DEF InputState
  <2>3. EnhancesOf(n) = EnhancesOf(o)
    BY <2>2 DEF EnhancesOf
  <2>4. QED
    BY <1>2, <2>2, <2>3 DEF n
<1>3. QED
  BY <1>1, <1>2

LEMMA DebounceSentSession ==
  ASSUME TextsAssumption, SessionInv, active # 0, Current.debounce = "reading",
         NEW segments, segments = Split[Current.extracted],
         NEW r \in RequestIds, r \notin InUse
  PROVE  LET text == Current.extracted
             n == Rendered([Moved(Current, segments) EXCEPT !.activeSegment = r], text, segments, FALSE)
             sent == Cancel(requests, GivenUp(Current, n))
             live == Post(sent, r, [verb |-> "SEGMENT", text |-> text])
         IN  /\ n.source = Current.source
             /\ Session(n, typed[Current.source], approved, live, port)
<1> DEFINE o == Current
           text == o.extracted
           m == Migrated(o, segments)
           moved == Moved(o, segments)
           posted == [moved EXCEPT !.activeSegment = r]
           n == Rendered(posted, text, segments, FALSE)
           u == [n EXCEPT !.activeSegment = NoRequest]
           sent == Cancel(requests, GivenUp(o, n))
           live == Post(sent, r, [verb |-> "SEGMENT", text |-> text])
<1>1. /\ o \in InputState /\ RequestsTyped(requests)
      /\ Session(o, typed[o.source], approved, requests, port)
      /\ Wired(o, requests) /\ Heard(requests, o.activeBind, EnhancesOf(o))
      /\ Answered(o, requests, port)
      /\ segments \in Seq(Positions) /\ AreDistinct(segments) /\ OwnBox \in Nat
      /\ text = typed[o.source] /\ text \in Texts
      /\ moved \in InputState
      /\ moved.source = o.source /\ moved.debounce = "none"
      /\ moved.accepted = m.accepted /\ moved.hasStaleAccepted = m.hasStaleAccepted
      /\ moved.activeBind = o.activeBind
      /\ moved.bindPhase = o.bindPhase /\ moved.pendingGhostText = o.pendingGhostText
      /\ moved.ghostStreamComplete = o.ghostStreamComplete /\ moved.basis = o.basis
      /\ Bound(moved, typed[o.source])
      /\ EnhancesOf(moved) \subseteq EnhancesOf(o)
  BY DebounceMoved
<1>2. ~m.hasStaleAccepted => \A k \in m.accepted : segments[k] \in approved
  BY <1>1, MigratedReview DEF Session
<1>3. r \notin DOMAIN requests /\ r # o.activeBind /\ r \notin EnhancesOf(o)
  BY DEF InUse
<1> HIDE DEF m, moved
<1>4. /\ posted \in InputState
      /\ posted.source = moved.source /\ posted.debounce = moved.debounce
      /\ posted.accepted = moved.accepted /\ posted.hasStaleAccepted = moved.hasStaleAccepted
      /\ posted.activeSegment = r /\ posted.activeBind = moved.activeBind
      /\ posted.bindPhase = moved.bindPhase /\ posted.pendingGhostText = moved.pendingGhostText
      /\ posted.ghostStreamComplete = moved.ghostStreamComplete /\ posted.basis = moved.basis
      /\ posted.activeEnhance = moved.activeEnhance
  BY <1>1 DEF InputState
<1> HIDE DEF posted
<1>5. EnhancesOf(posted) = EnhancesOf(moved)
  BY <1>4 DEF EnhancesOf
<1>6. /\ n \in InputState
      /\ n.source = posted.source /\ n.debounce = posted.debounce
      /\ n.accepted = posted.accepted /\ n.hasStaleAccepted = posted.hasStaleAccepted
      /\ n.activeSegment = r /\ n.activeBind = posted.activeBind
      /\ n.bindPhase = posted.bindPhase /\ n.pendingGhostText = posted.pendingGhostText
      /\ n.ghostStreamComplete = posted.ghostStreamComplete /\ n.basis = posted.basis
      /\ EnhancesOf(n) \subseteq EnhancesOf(posted)
      /\ \/ n.draftText = EmptyText /\ n.draftSegments = <<>>
         \/ text # EmptyText /\ n.draftText = text /\ n.draftSegments = segments
  <2> DEFINE stale == FALSE
  <2>1. stale \in BOOLEAN /\ n = Rendered(posted, text, segments, stale)
    OBVIOUS
  <2>2. posted \in InputState /\ text \in Texts /\ segments \in Seq(Positions)
    BY <1>1, <1>4
  <2>3. posted.activeSegment = r
    BY <1>4
  <2> HIDE DEF o, text, stale, n
  <2>4. QED
    BY <2>1, <2>2, <2>3, RenderedFields
<1> HIDE DEF n
<1>7. /\ u.activeSegment = NoRequest /\ u.activeBind = n.activeBind
      /\ u.bindPhase = n.bindPhase /\ u.pendingGhostText = n.pendingGhostText
      /\ u.activeEnhance = n.activeEnhance
  BY <1>6 DEF InputState
<1> HIDE DEF u
<1>8. EnhancesOf(u) = EnhancesOf(n)
  BY <1>7 DEF EnhancesOf
<1>9. GivenUp(o, u) = GivenUp(o, n)
  BY <1>8 DEF GivenUp
<1>10. Wired(u, sent) /\ Heard(sent, u.activeBind, EnhancesOf(u)) /\ Answered(u, sent, port)
  <2>1. /\ u.activeBind = o.activeBind /\ u.bindPhase = o.bindPhase
        /\ u.pendingGhostText = o.pendingGhostText
        /\ EnhancesOf(u) \subseteq EnhancesOf(o)
    BY <1>1, <1>4, <1>5, <1>6, <1>7, <1>8
  <2> HIDE DEF o
  <2>2. QED
    BY <1>1, <1>7, <1>9, <2>1, GivenUpSession
<1>11. r \notin DOMAIN sent /\ r # u.activeBind /\ r \notin EnhancesOf(u)
  BY <1>1, <1>3, <1>4, <1>5, <1>6, <1>7, <1>8 DEF Cancel
<1> HIDE DEF sent, live
<1>12. Wired(n, live) /\ Heard(live, n.activeBind, EnhancesOf(n)) /\ Answered(n, live, port)
  <2>1. n.draftText \in {text, EmptyText}
    BY <1>6
  <2>2. QED
    BY <1>6, <1>7, <1>8, <1>10, <1>11, <2>1, PostedSegment DEF live
<1>13. Reviewed(n, approved)
  <2>1. n.accepted = m.accepted /\ n.hasStaleAccepted = m.hasStaleAccepted
    BY <1>1, <1>4, <1>6
  <2>2. QED
    BY <1>1, <1>2, <1>6, <2>1 DEF Reviewed, AreDistinct
<1>14. Drafted(n, typed[o.source])
  BY <1>1, <1>4, <1>6 DEF Drafted
<1>15. Bound(n, typed[o.source])
  BY <1>1, <1>4, <1>6 DEF Bound
<1>16. QED
  BY <1>1, <1>4, <1>6, <1>12, <1>13, <1>14, <1>15 DEF Session, n, live, posted, sent, moved

LEMMA DebouncePausedSession ==
  ASSUME TextsAssumption, SessionInv, active # 0, Current.debounce = "reading",
         NEW segments, segments = Split[Current.extracted]
  PROVE  LET n == [Moved(Current, segments) EXCEPT !.activeSegment = NoRequest, !.draftIsStale = TRUE]
         IN  /\ n.source = Current.source
             /\ Session(n, typed[Current.source], approved, Cancel(requests, GivenUp(Current, n)), port)
<1> DEFINE o == Current
           m == Migrated(o, segments)
           moved == Moved(o, segments)
           n == [moved EXCEPT !.activeSegment = NoRequest, !.draftIsStale = TRUE]
           sent == Cancel(requests, GivenUp(o, n))
<1>1. /\ o \in InputState /\ RequestsTyped(requests)
      /\ Session(o, typed[o.source], approved, requests, port)
      /\ Wired(o, requests) /\ Heard(requests, o.activeBind, EnhancesOf(o))
      /\ Answered(o, requests, port)
      /\ segments \in Seq(Positions) /\ OwnBox \in Nat
      /\ moved \in InputState
      /\ moved.source = o.source /\ moved.debounce = "none"
      /\ moved.draftText = o.draftText /\ moved.draftSegments = o.draftSegments
      /\ moved.accepted = m.accepted /\ moved.hasStaleAccepted = m.hasStaleAccepted
      /\ moved.activeBind = o.activeBind
      /\ moved.bindPhase = o.bindPhase /\ moved.pendingGhostText = o.pendingGhostText
      /\ Bound(moved, typed[o.source])
      /\ EnhancesOf(moved) \subseteq EnhancesOf(o)
  BY DebounceMoved
<1>2. ~m.hasStaleAccepted =>
        \A k \in m.accepted : k \in DOMAIN o.draftSegments => o.draftSegments[k] \in approved
  BY <1>1, MigratedReview DEF Session
<1> HIDE DEF m, moved
<1>3. /\ n.source = moved.source /\ n.debounce = moved.debounce
      /\ n.draftText = moved.draftText /\ n.draftSegments = moved.draftSegments /\ n.draftIsStale
      /\ n.accepted = moved.accepted /\ n.hasStaleAccepted = moved.hasStaleAccepted
      /\ n.activeSegment = NoRequest /\ n.activeBind = moved.activeBind
      /\ n.bindPhase = moved.bindPhase /\ n.pendingGhostText = moved.pendingGhostText
      /\ n.ghostStreamComplete = moved.ghostStreamComplete /\ n.basis = moved.basis
      /\ n.activeEnhance = moved.activeEnhance
  BY <1>1 DEF InputState
<1> HIDE DEF n, o
<1>4. EnhancesOf(n) = EnhancesOf(moved)
  BY <1>3 DEF EnhancesOf
<1>5. Reviewed(n, approved)
  BY <1>1, <1>2, <1>3 DEF Session, Reviewed
<1>6. Drafted(n, typed[o.source])
  BY <1>1, <1>3 DEF Session, Drafted
<1>7. Bound(n, typed[o.source])
  BY <1>1, <1>3 DEF Bound
<1>8. Wired(n, sent) /\ Heard(sent, n.activeBind, EnhancesOf(n)) /\ Answered(n, sent, port)
  BY <1>1, <1>3, <1>4, GivenUpSession
<1>9. Session(n, typed[o.source], approved, sent, port) /\ n.source = o.source
  BY <1>1, <1>3, <1>5, <1>6, <1>7, <1>8 DEF Session
<1>10. QED
  BY <1>9 DEF n, moved, sent, o

LEMMA DebounceSignedOutSession ==
  ASSUME TextsAssumption, SessionInv, active # 0, Current.debounce = "reading",
         NEW segments, segments = Split[Current.extracted]
  PROVE  LET n == DraftCleared([Moved(Current, segments) EXCEPT !.activeSegment = NoRequest])
         IN  /\ n.source = Current.source
             /\ Session(n, typed[Current.source], approved, Cancel(requests, GivenUp(Current, n)), port)
<1> DEFINE o == Current
           moved == Moved(o, segments)
           unsent == [moved EXCEPT !.activeSegment = NoRequest]
           n == DraftCleared(unsent)
           sent == Cancel(requests, GivenUp(o, n))
<1>1. /\ o \in InputState /\ RequestsTyped(requests)
      /\ Wired(o, requests) /\ Heard(requests, o.activeBind, EnhancesOf(o))
      /\ Answered(o, requests, port)
      /\ moved \in InputState
      /\ moved.source = o.source /\ moved.debounce = "none"
      /\ moved.activeBind = o.activeBind
      /\ moved.bindPhase = o.bindPhase /\ moved.pendingGhostText = o.pendingGhostText
      /\ Bound(moved, typed[o.source])
  BY DebounceMoved
<1> HIDE DEF moved
<1>2. /\ unsent \in InputState
      /\ unsent.source = moved.source /\ unsent.debounce = moved.debounce
      /\ unsent.activeSegment = NoRequest /\ unsent.activeBind = moved.activeBind
      /\ unsent.bindPhase = moved.bindPhase /\ unsent.pendingGhostText = moved.pendingGhostText
      /\ unsent.ghostStreamComplete = moved.ghostStreamComplete /\ unsent.basis = moved.basis
  BY <1>1, NoRequestType DEF InputState
<1> HIDE DEF unsent
<1>3. /\ n.source = unsent.source /\ n.debounce = unsent.debounce
      /\ n.activeSegment = NoRequest /\ n.activeBind = unsent.activeBind
      /\ n.bindPhase = unsent.bindPhase /\ n.pendingGhostText = unsent.pendingGhostText
      /\ n.ghostStreamComplete = unsent.ghostStreamComplete /\ n.basis = unsent.basis
      /\ EnhancesOf(n) = {}
      /\ n.draftText = EmptyText /\ n.draftSegments = <<>>
  BY <1>2, ClearedFields
<1> HIDE DEF n, o
<1>4. Reviewed(n, approved) /\ Drafted(n, typed[o.source]) /\ Bound(n, typed[o.source])
  BY <1>1, <1>2, <1>3 DEF Reviewed, AreDistinct, Drafted, Bound
<1>5. Wired(n, sent) /\ Heard(sent, n.activeBind, EnhancesOf(n)) /\ Answered(n, sent, port)
  BY <1>1, <1>2, <1>3, GivenUpSession
<1>6. Session(n, typed[o.source], approved, sent, port) /\ n.source = o.source
  BY <1>1, <1>2, <1>3, <1>4, <1>5 DEF Session
<1>7. QED
  BY <1>6 DEF n, unsent, moved, sent, o

LEMMA DebounceResumesSession ==
  ASSUME TextsAssumption, SessionInv, TypeInv', EnhanceCallsAreActive', DebounceResumes
  PROVE  SessionInv'
<1> DEFINE text == Current.extracted
           segments == Split[text]
           moved == [Migrated(Current, segments) EXCEPT
                       !.debounce = "none", !.focused = 0, !.extracted = EmptyText]
           r == FreshRequest("SEGMENT")
           n1 == Rendered([moved EXCEPT !.activeSegment = r], text, segments, FALSE)
           n2 == [moved EXCEPT !.activeSegment = NoRequest, !.draftIsStale = TRUE]
           n3 == DraftCleared([moved EXCEPT !.activeSegment = NoRequest])
           live == Post(Cancel(requests, GivenUp(Current, n1)), r, [verb |-> "SEGMENT", text |-> text])
<1>1. active # 0 /\ Current.debounce = "reading"
      /\ UNCHANGED <<typed, active, bindCalls, enhanceCalls, port, approved, edits>>
  BY DEF DebounceResumes
<1>2. PICK context \in Contexts :
        CASE context = "ok" -> Update(n1) /\ requests' = live
          [] context = "paused" -> Update(n2) /\ requests' = Cancel(requests, GivenUp(Current, n2))
          [] context = "signedOut" -> Update(n3) /\ requests' = Cancel(requests, GivenUp(Current, n3))
  BY Zenon DEF DebounceResumes
<1>3. context \in {"ok", "paused", "signedOut"}
  BY DEF TextsAssumption
<1>4. r \in RequestIds /\ r \notin InUse
  BY FreshRequestIsFree DEF RequestKinds, SessionInv, TypeInv, RequestsTyped
<1>5. moved = Moved(Current, segments)
  BY DEF Moved
<1>6. CASE context = "ok"
  <2>1. Update(n1) /\ requests' = live
    BY <1>2, <1>6
  <2>2. n1.source = Current.source /\ Session(n1, typed[Current.source], approved, live, port)
    <3>1. segments = Split[Current.extracted]
      OBVIOUS
    <3> HIDE DEF segments, r, moved
    <3>2. QED
      BY <1>1, <1>4, <1>5, <3>1, DebounceSentSession
  <2> HIDE DEF n1, live
  <2>3. QED
    BY <1>1, <2>1, <2>2, UpdateSession
<1>7. CASE context = "paused"
  <2> DEFINE sent == Cancel(requests, GivenUp(Current, n2))
  <2>1. Update(n2) /\ requests' = sent
    BY <1>2, <1>7
  <2>2. n2.source = Current.source /\ Session(n2, typed[Current.source], approved, sent, port)
    BY <1>1, <1>5, DebouncePausedSession, Zenon
  <2> HIDE DEF n2, sent
  <2>3. QED
    BY <1>1, <2>1, <2>2, UpdateSession
<1>8. CASE context = "signedOut"
  <2> DEFINE sent == Cancel(requests, GivenUp(Current, n3))
  <2>1. Update(n3) /\ requests' = sent
    BY <1>2, <1>8
  <2>2. n3.source = Current.source /\ Session(n3, typed[Current.source], approved, sent, port)
    BY <1>1, <1>5, DebounceSignedOutSession, Zenon
  <2> HIDE DEF n3, sent
  <2>3. QED
    BY <1>1, <2>1, <2>2, UpdateSession
<1>9. QED
  BY <1>3, <1>6, <1>7, <1>8

(* Only the focus and the acceptances differ.                               *)
LEMMA SameSession ==
  ASSUME NEW o, NEW n, NEW text, NEW ok, NEW newOk, NEW rs, NEW p, Session(o, text, ok, rs, p),
         n.debounce = o.debounce, n.extracted = o.extracted,
         n.draftText = o.draftText, n.draftSegments = o.draftSegments,
         n.draftIsStale = o.draftIsStale,
         n.activeSegment = o.activeSegment, n.activeBind = o.activeBind,
         n.bindPhase = o.bindPhase, n.pendingGhostText = o.pendingGhostText,
         n.ghostStreamComplete = o.ghostStreamComplete, n.basis = o.basis,
         n.activeEnhance = o.activeEnhance,
         Reviewed(n, newOk)
  PROVE  Session(n, text, newOk, rs, p)
<1>1. EnhancesOf(n) = EnhancesOf(o)
  BY DEF EnhancesOf
<1>2. Drafted(n, text) /\ Bound(n, text)
  BY DEF Session, Drafted, Bound
<1>3. Wired(n, rs) /\ Heard(rs, n.activeBind, EnhancesOf(n)) /\ Answered(n, rs, p)
  BY <1>1 DEF Session, Wired, Answered
<1>4. QED
  BY <1>2, <1>3 DEF Session

LEMMA FocusSession ==
  ASSUME TextsAssumption, SessionInv, TypeInv', EnhanceCallsAreActive',
         NEW direction \in {"forward", "backward"}, FocusSegment(direction)
  PROVE  SessionInv'
<1> DEFINE o == Current
           count == Len(o.draftSegments)
           next == IF direction = "forward"
                   THEN (o.focused % count) + 1
                   ELSE IF o.focused = 0 THEN count
                        ELSE ((o.focused + count - 2) % count) + 1
           n == [o EXCEPT !.focused = next]
<1>1. active # 0 /\ UNCHANGED <<typed, active, bindCalls, requests, port, approved>>
  BY DEF FocusSegment, Reviewing, HasKeys
<1>2. Update([Current EXCEPT !.focused = next])
  BY Zenon DEF FocusSegment
<1>3. o \in InputState /\ Session(o, typed[o.source], approved, requests, port)
  BY <1>1, CurrentSession
<1> HIDE DEF next
<1>4. /\ n.source = o.source /\ n.debounce = o.debounce /\ n.extracted = o.extracted
      /\ n.draftText = o.draftText /\ n.draftSegments = o.draftSegments
      /\ n.draftIsStale = o.draftIsStale
      /\ n.accepted = o.accepted /\ n.hasStaleAccepted = o.hasStaleAccepted
      /\ n.activeSegment = o.activeSegment /\ n.activeBind = o.activeBind
      /\ n.bindPhase = o.bindPhase /\ n.pendingGhostText = o.pendingGhostText
      /\ n.ghostStreamComplete = o.ghostStreamComplete /\ n.basis = o.basis
      /\ n.activeEnhance = o.activeEnhance
  BY <1>3 DEF InputState
<1> HIDE DEF n
<1>5. Reviewed(n, approved)
  BY <1>3, <1>4 DEF Session, Reviewed
<1>6. Session(n, typed[o.source], approved, requests, port)
  BY <1>3, <1>4, <1>5, SameSession
<1>7. QED
  BY <1>1, <1>2, <1>4, <1>6, UpdateSession DEF n

LEMMA AcceptSession ==
  ASSUME TextsAssumption, SessionInv, TypeInv', EnhanceCallsAreActive', AcceptFocusedSegment
  PROVE  SessionInv'
<1> DEFINE o == Current
           k == o.focused
           set == o.accepted \cup {k}
           next == NextUnaccepted(o, set, k)
           n == [o EXCEPT !.accepted = set, !.focused = next]
<1>1. active # 0 /\ UNCHANGED <<typed, active, bindCalls, requests, port>>
  BY DEF AcceptFocusedSegment, Reviewing, HasKeys
<1>2. /\ Update(n)
      /\ approved' = approved \cup {o.draftSegments[j] : j \in {k} \cap DOMAIN o.draftSegments}
  BY Zenon DEF AcceptFocusedSegment
<1>3. o \in InputState /\ Session(o, typed[o.source], approved, requests, port)
  BY <1>1, CurrentSession
<1> HIDE DEF next
<1>4. /\ n.source = o.source /\ n.debounce = o.debounce /\ n.extracted = o.extracted
      /\ n.draftText = o.draftText /\ n.draftSegments = o.draftSegments
      /\ n.draftIsStale = o.draftIsStale
      /\ n.accepted = o.accepted \cup {k} /\ n.hasStaleAccepted = o.hasStaleAccepted
      /\ n.activeSegment = o.activeSegment /\ n.activeBind = o.activeBind
      /\ n.bindPhase = o.bindPhase /\ n.pendingGhostText = o.pendingGhostText
      /\ n.ghostStreamComplete = o.ghostStreamComplete /\ n.basis = o.basis
      /\ n.activeEnhance = o.activeEnhance
  BY <1>3 DEF InputState
<1> HIDE DEF n
<1>5. Reviewed(n, approved')
  <2>1. Reviewed(o, approved)
    BY <1>3 DEF Session
  <2>2. ASSUME NEW j \in n.accepted \cap DOMAIN n.draftSegments, ~n.hasStaleAccepted
        PROVE  n.draftSegments[j] \in approved'
    BY <1>2, <1>4, <2>1, <2>2 DEF Reviewed
  <2>3. QED
    BY <1>4, <2>1, <2>2 DEF Reviewed
<1>6. Session(n, typed[o.source], approved', requests, port)
  BY <1>3, <1>4, <1>5, SameSession
<1>7. QED
  BY <1>1, <1>2, <1>4, <1>6, UpdateSession

LEMMA UnacceptSession ==
  ASSUME TextsAssumption, SessionInv, TypeInv', EnhanceCallsAreActive', UnacceptSegment
  PROVE  SessionInv'
<1> DEFINE o == Current
           k == o.focused
           set == o.accepted \ {k}
           stale == o.hasStaleAccepted /\ set # {}
           n == [o EXCEPT !.accepted = set, !.hasStaleAccepted = stale]
<1>1. active # 0 /\ UNCHANGED <<typed, active, bindCalls, requests, port>>
  BY DEF UnacceptSegment, HasKeys
<1>2. o \in InputState /\ Session(o, typed[o.source], approved, requests, port)
  BY <1>1, CurrentSession
<1>3. /\ Update(n)
      /\ approved' = approved \ {o.draftSegments[j] : j \in {k} \cap DOMAIN o.draftSegments}
  BY <1>2 DEF UnacceptSegment, InputState
<1> HIDE DEF stale, set
<1>4. /\ n.source = o.source /\ n.debounce = o.debounce /\ n.extracted = o.extracted
      /\ n.draftText = o.draftText /\ n.draftSegments = o.draftSegments
      /\ n.draftIsStale = o.draftIsStale
      /\ n.accepted = set /\ n.hasStaleAccepted = stale
      /\ n.activeSegment = o.activeSegment /\ n.activeBind = o.activeBind
      /\ n.bindPhase = o.bindPhase /\ n.pendingGhostText = o.pendingGhostText
      /\ n.ghostStreamComplete = o.ghostStreamComplete /\ n.basis = o.basis
      /\ n.activeEnhance = o.activeEnhance
  BY <1>2 DEF InputState
<1> HIDE DEF n
<1>5. Reviewed(n, approved')
  <2>1. Reviewed(o, approved)
    BY <1>2 DEF Session
  <2>2. ASSUME NEW j \in set \cap DOMAIN o.draftSegments, ~stale
        PROVE  o.draftSegments[j] \in approved'
    <3>1. ~o.hasStaleAccepted /\ j \in o.accepted /\ j # k
      BY <2>2 DEF stale, set
    <3>2. o.draftSegments[j] \in approved
      BY <2>1, <3>1 DEF Reviewed
    <3>3. k \in DOMAIN o.draftSegments => o.draftSegments[j] # o.draftSegments[k]
      BY <2>1, <3>1 DEF Reviewed, AreDistinct
    <3>4. QED
      BY <1>3, <3>2, <3>3
  <2>3. QED
    BY <1>4, <2>1, <2>2 DEF Reviewed
<1>6. Session(n, typed[o.source], approved', requests, port)
  BY <1>2, <1>4, <1>5, SameSession
<1>7. QED
  BY <1>1, <1>3, <1>4, <1>6, UpdateSession

LEMMA EscapeSession ==
  ASSUME TextsAssumption, SessionInv, TypeInv', EnhanceCallsAreActive', Escape
  PROVE  SessionInv'
<1> DEFINE o == Current
<1>1. active # 0 /\ UNCHANGED <<typed, active, bindCalls, port, approved>>
  BY DEF Escape, HasKeys
<1>2. /\ o \in InputState /\ Session(o, typed[o.source], approved, requests, port)
      /\ RequestsTyped(requests)
  BY <1>1, CurrentSession
<1>3. CASE o.activeBind # NoRequest
  <2> DEFINE n == BindCancelled(o)
             rest == Cancel(requests, {o.activeBind})
  <2>1. Update(n) /\ requests' = rest
    BY <1>3 DEF Escape
  <2>2. /\ n.source = o.source /\ n.debounce = o.debounce /\ n.extracted = o.extracted
        /\ n.draftText = o.draftText /\ n.draftSegments = o.draftSegments
        /\ n.draftIsStale = o.draftIsStale
        /\ n.accepted = o.accepted /\ n.hasStaleAccepted = o.hasStaleAccepted
        /\ n.activeSegment = o.activeSegment /\ n.activeBind = NoRequest
        /\ n.bindPhase = "IDLE" /\ n.ghostStreamComplete = FALSE
        /\ n.activeEnhance = o.activeEnhance
    BY <1>2, <1>3 DEF BindCancelled, InputState
  <2>3. /\ DOMAIN rest = DOMAIN requests \ {o.activeBind}
        /\ \A q \in DOMAIN rest : rest[q] = requests[q]
        /\ NoRequest \notin DOMAIN rest
    BY <1>2 DEF Cancel, RequestsTyped
  <2> HIDE DEF n, rest
  <2>4. EnhancesOf(n) = EnhancesOf(o)
    BY <2>2 DEF EnhancesOf
  <2>5. Reviewed(n, approved) /\ Drafted(n, typed[o.source]) /\ Bound(n, typed[o.source])
    BY <1>2, <2>2 DEF Session, Reviewed, Drafted, Bound
  <2>6. Wired(n, rest)
    BY <1>2, <2>2, <2>3, <2>4 DEF Session, Wired
  <2>7. Heard(rest, n.activeBind, EnhancesOf(n))
    BY <1>2, <2>3, <2>4 DEF Session, Heard
  <2>8. Answered(n, rest, port)
    <3>1. ASSUME NEW r \in EnhancesOf(o), port = "open"
          PROVE  r \in DOMAIN rest
      <4>1. r \in DOMAIN requests /\ requests[r].verb = "ENHANCE"
        BY <1>2, <3>1 DEF Session, Answered, Wired
      <4>2. r # o.activeBind
        BY <1>2, <4>1 DEF Session, Wired
      <4>3. QED
        BY <2>3, <4>1, <4>2
    <3>2. QED
      BY <2>4, <3>1 DEF Answered
  <2>9. Session(n, typed[o.source], approved, rest, port)
    BY <2>5, <2>6, <2>7, <2>8 DEF Session
  <2>10. QED
    BY <1>1, <2>1, <2>2, <2>9, UpdateSession
<1>4. CASE o.activeBind = NoRequest
  <2> DEFINE n == [o EXCEPT !.focused = 0]
  <2>1. Update(n) /\ requests' = requests
    BY <1>4 DEF Escape
  <2>2. /\ n.source = o.source /\ n.debounce = o.debounce /\ n.extracted = o.extracted
        /\ n.draftText = o.draftText /\ n.draftSegments = o.draftSegments
        /\ n.draftIsStale = o.draftIsStale
        /\ n.accepted = o.accepted /\ n.hasStaleAccepted = o.hasStaleAccepted
        /\ n.activeSegment = o.activeSegment /\ n.activeBind = o.activeBind
        /\ n.bindPhase = o.bindPhase /\ n.pendingGhostText = o.pendingGhostText
        /\ n.ghostStreamComplete = o.ghostStreamComplete /\ n.basis = o.basis
        /\ n.activeEnhance = o.activeEnhance
    BY <1>2 DEF InputState
  <2> HIDE DEF n
  <2>3. Reviewed(n, approved)
    BY <1>2, <2>2 DEF Session, Reviewed
  <2>4. Session(n, typed[o.source], approved, requests, port)
    BY <1>2, <2>2, <2>3, SameSession
  <2>5. QED
    BY <1>1, <2>1, <2>2, <2>4, UpdateSession
<1>5. QED
  BY <1>3, <1>4

LEMMA DispatchSession ==
  ASSUME SessionInv, TypeInv', NEW c \in BindCalls, DispatchBind(c)
  PROVE  SessionInv'
<1> DEFINE basis == [text |-> Current.draftText,
                     fresh |-> Current.draftText = typed[Current.source],
                     accepted |-> {Current.draftSegments[k] :
                                     k \in Current.accepted \cap DOMAIN Current.draftSegments}]
           call == [state |-> active, basis |-> basis, outlived |-> FALSE]
<1>1. bindCalls' = [bindCalls EXCEPT ![c] = call]
  BY Zenon DEF DispatchBind
<1>2. call.basis.fresh => call.basis.text = typed[Current.source]
  OBVIOUS
<1>3. UNCHANGED <<typed, active, states, enhanceCalls, requests, port, approved, edits>>
  BY DEF DispatchBind
<1> HIDE DEF call
<1>4. bindCalls'[c] = call /\ \A d \in BindCalls : d # c => bindCalls'[d] = bindCalls[d]
  BY <1>1 DEF SessionInv, TypeInv, TypeOK
<1>5. Current' = Current
  BY <1>3 DEF Current
<1>6. CallsAreFresh'
  BY <1>2, <1>3, <1>4, <1>5 DEF SessionInv, CallsAreFresh
<1>7. QED
  BY <1>3, <1>5, <1>6 DEF SessionInv, EnhanceCallsAreActive

(* The call of the active object is no longer held, and the object is kept. *)
LEMMA ForgetSession ==
  ASSUME TextsAssumption, SessionInv, NEW c \in BindCalls, active # 0 => Current'.source = Current.source,
         bindCalls' = [bindCalls EXCEPT ![c] = NoCall], UNCHANGED <<typed, active>>
  PROVE  CallsAreFresh'
<1>1. \A d \in BindCalls : bindCalls'[d] # NoCall => bindCalls'[d] = bindCalls[d]
  BY DEF SessionInv, TypeInv, TypeOK
<1>2. \A d \in BindCalls : bindCalls[d] # NoCall => bindCalls[d].state # 0
  BY DEF SessionInv, TypeInv, TypeOK
<1>3. CASE active = 0
  BY <1>1, <1>2, <1>3 DEF CallsAreFresh
<1>4. CASE active # 0
  BY <1>1, <1>4 DEF SessionInv, CallsAreFresh
<1>5. QED
  BY <1>3, <1>4

LEMMA BindResumesSession ==
  ASSUME TextsAssumption, SessionInv, CallsAreStopped, TypeInv', NEW c \in BindCalls,
         BindResumes(c)
  PROVE  SessionInv'
<1> DEFINE s == bindCalls[c].state
           b == bindCalls[c].basis
           r == FreshRequest("BIND")
           request == [verb |-> "BIND", tokens |-> 0, abandoned |-> bindCalls[c].outlived]
           live == Post(requests, r, request)
           o == Current
<1>1. /\ bindCalls[c] # NoCall /\ bindCalls' = [bindCalls EXCEPT ![c] = NoCall]
      /\ UNCHANGED <<typed, active, enhanceCalls, port, approved, edits>>
  BY DEF BindResumes
<1>2. s \in DOMAIN states /\ s # 0
  BY <1>1 DEF SessionInv, TypeInv, TypeOK
<1>3. EnhanceCallsAreActive'
  BY <1>1 DEF SessionInv, EnhanceCallsAreActive
<1>4. active # 0 => active \in Forget(c)
  BY ForgetType DEF SessionInv
<1>5. RequestsTyped(requests) /\ NoRequest \notin DOMAIN requests
  BY DEF SessionInv, TypeInv, RequestsTyped
<1>6. CASE IsStillOpen(states[s]) /\ requests' = live
           /\ states' = [q \in Forget(c) |-> IF q = s THEN Binding(states[s], r, b) ELSE states[q]]
  <2>1. r \in RequestIds \ {NoRequest} /\ r \notin InUse
    BY FreshRequestIsFree DEF RequestKinds, SessionInv, TypeInv, RequestsTyped
  <2>2. r \notin DOMAIN requests
    BY <2>1 DEF InUse
  <2>3. /\ DOMAIN requests \subseteq DOMAIN live /\ DOMAIN live \subseteq DOMAIN requests \cup {r}
        /\ \A q \in DOMAIN requests : live[q] = requests[q]
        /\ r \in DOMAIN live => live[r] = request
    BY <2>2, PostFields
  <2>4. request.verb = "BIND" /\ request.tokens = 0 /\ (s # active => request.abandoned)
    <3>1. s # active => bindCalls[c].outlived
      BY <1>1, <1>6, StoppedGate
    <3>2. QED
      BY <3>1
  <2>5. CASE active = 0
    <3>1. Heard(requests, NoRequest, {})
      BY <2>5 DEF SessionInv
    <3> HIDE DEF live, request
    <3>2. Heard(requests', NoRequest, {})
      BY <1>2, <1>6, <2>3, <2>4, <2>5, <3>1 DEF Heard
    <3>3. CallsAreFresh'
      BY <1>1, <2>5, ForgetSession
    <3>4. QED
      BY <1>1, <1>3, <2>5, <3>2, <3>3 DEF SessionInv
  <2>6. CASE active # 0 /\ s # active
    <3>1. o' = o
      BY <1>1, <1>4, <1>6, <2>6 DEF Current
    <3>2. Session(o, typed[o.source], approved, requests, port)
      BY <2>6, CurrentSession
    <3>3. r # o.activeBind /\ r # o.activeSegment /\ r \notin EnhancesOf(o)
      BY <2>1, <2>6 DEF InUse
    <3> HIDE DEF live, request, o, r
    <3>4. Wired(o, live)
      <4>1. Wired(o, requests)
        BY <3>2 DEF Session
      <4>2. \A q \in DOMAIN live \ {r} : q \in DOMAIN requests /\ live[q] = requests[q]
        BY <2>3
      <4>3. QED
        BY <3>3, <4>1, <4>2, UnnamedRequest
    <3>5. Heard(live, o.activeBind, EnhancesOf(o))
      BY <2>3, <2>4, <2>6, <3>2 DEF Session, Heard
    <3>6. Answered(o, live, port)
      BY <2>3, <3>2 DEF Session, Answered
    <3>7. Session(o, typed[o.source], approved, live, port)
      BY <3>2, <3>4, <3>5, <3>6 DEF Session
    <3>8. CallsAreFresh'
      BY <1>1, <3>1, ForgetSession DEF o
    <3>9. QED
      BY <1>1, <1>3, <1>6, <2>6, <3>1, <3>7, <3>8 DEF SessionInv, o
  <2>7. CASE active # 0 /\ s = active
    <3> DEFINE n == Binding(o, r, b)
    <3>1. Current' = n
      BY <1>1, <1>4, <1>6, <2>7 DEF Current
    <3>2. /\ o \in InputState /\ Session(o, typed[o.source], approved, requests, port)
          /\ o.activeBind = NoRequest
      BY <1>6, <2>7, CurrentSession DEF IsStillOpen, IsBindGateOpen, Current
    <3>3. r # o.activeSegment /\ r \notin EnhancesOf(o)
      BY <2>1, <2>7 DEF InUse
    <3>4. b.fresh => b.text = typed[o.source]
      BY <1>1, <2>7 DEF SessionInv, CallsAreFresh
    <3> HIDE DEF b
    <3>5. /\ n.source = o.source /\ n.debounce = o.debounce /\ n.extracted = o.extracted
          /\ n.draftText = o.draftText /\ n.draftSegments = o.draftSegments
          /\ n.draftIsStale = o.draftIsStale
          /\ n.accepted = o.accepted /\ n.hasStaleAccepted = o.hasStaleAccepted
          /\ n.activeSegment = o.activeSegment /\ n.activeBind = r
          /\ n.bindPhase = "BINDING" /\ n.pendingGhostText = 0
          /\ n.ghostStreamComplete = FALSE /\ n.basis = b
          /\ n.activeEnhance = o.activeEnhance
      BY <3>2 DEF Binding, InputState
    <3> HIDE DEF n, live, request, o, r
    <3>6. EnhancesOf(n) = EnhancesOf(o)
      BY <3>5 DEF EnhancesOf
    <3>7. Reviewed(n, approved) /\ Drafted(n, typed[o.source])
      BY <3>2, <3>5 DEF Session, Reviewed, Drafted
    <3>8. Bound(n, typed[o.source])
      BY <2>1, <3>4, <3>5 DEF Bound
    <3>9. Wired(n, live)
      <4>1. Wired(o, requests)
        BY <3>2 DEF Session
      <4>2. n.activeBind \in DOMAIN live =>
              /\ live[n.activeBind].verb = "BIND"
              /\ n.bindPhase # "COMPLETE"
              /\ n.pendingGhostText = live[n.activeBind].tokens
        BY <2>3, <2>4, <3>5
      <4>3. n.activeSegment \in DOMAIN live =>
              /\ live[n.activeSegment].verb = "SEGMENT"
              /\ n.draftText \in {live[n.activeSegment].text, EmptyText}
        BY <2>3, <3>3, <3>5, <4>1 DEF Wired
      <4>4. \A q \in EnhancesOf(n) \cap DOMAIN live : live[q].verb = "ENHANCE"
        BY <2>3, <3>3, <3>6, <4>1 DEF Wired
      <4>5. QED
        BY <4>2, <4>3, <4>4 DEF Wired
    <3>10. Heard(live, n.activeBind, EnhancesOf(n))
      BY <1>5, <2>3, <2>4, <3>2, <3>5, <3>6 DEF Session, Heard
    <3>11. Answered(n, live, port)
      BY <2>3, <3>2, <3>6 DEF Session, Answered
    <3>12. Session(n, typed[n.source], approved, live, port)
      BY <3>5, <3>7, <3>8, <3>9, <3>10, <3>11 DEF Session
    <3>13. CallsAreFresh'
      BY <1>1, <3>1, <3>5, ForgetSession DEF o
    <3>14. QED
      BY <1>1, <1>3, <1>6, <2>7, <3>1, <3>12, <3>13 DEF SessionInv
  <2>8. QED
    BY <2>5, <2>6, <2>7
<1>7. CASE requests' = requests /\ states' = [q \in Forget(c) |-> states[q]]
  <2>1. active # 0 => Current' = Current
    BY <1>1, <1>4, <1>7 DEF Current
  <2>2. CallsAreFresh'
    BY <1>1, <2>1, ForgetSession
  <2>3. QED
    BY <1>1, <1>3, <1>7, <2>1, <2>2 DEF SessionInv
<1>8. QED
  BY <1>6, <1>7, Zenon DEF BindResumes

(* A request that is no expansion of the object ends unnoticed.             *)
LEMMA DroppedSession ==
  ASSUME NEW o, NEW text, NEW ok, NEW rs, NEW p, Session(o, text, ok, rs, p),
         NEW r, r \notin EnhancesOf(o)
  PROVE  Session(o, text, ok, Cancel(rs, {r}), p)
<1> DEFINE rest == Cancel(rs, {r})
<1>1. DOMAIN rest = DOMAIN rs \ {r} /\ \A q \in DOMAIN rest : rest[q] = rs[q]
  BY DEF Cancel
<1> HIDE DEF rest
<1>2. Wired(o, rest)
  BY <1>1 DEF Session, Wired
<1>3. Heard(rest, o.activeBind, EnhancesOf(o))
  BY <1>1 DEF Session, Heard
<1>4. Answered(o, rest, p)
  BY <1>1 DEF Session, Answered
<1>5. QED
  BY <1>2, <1>3, <1>4 DEF Session, rest

(* No active object, or one that does not change.                           *)
LEMMA IdleSession ==
  ASSUME SessionInv, TypeInv', EnhanceCallsAreActive',
         active # 0 => Session(Current, typed[Current.source], approved, requests', port'),
         active = 0 => Heard(requests', NoRequest, {}),
         UNCHANGED <<typed, active, states, bindCalls, approved>>
  PROVE  SessionInv'
<1>1. Current' = Current
  BY DEF Current
<1>2. QED
  BY <1>1 DEF SessionInv, CallsAreFresh

(* An answer to SEGMENT: to the active object's request, or to none.        *)
LEMMA SegmentsSession ==
  ASSUME TextsAssumption, SessionInv, TypeInv', EnhanceCallsAreActive',
         NEW r \in DOMAIN requests, ReceiveSegments(r)
  PROVE  SessionInv'
<1> DEFINE c == Current
           o == [c EXCEPT !.activeSegment = NoRequest]
           text == requests[r].text
<1>1. /\ requests[r].verb = "SEGMENT" /\ RequestsTyped(requests)
      /\ UNCHANGED <<typed, active, bindCalls, port, approved, edits>>
  BY DEF ReceiveSegments, SessionInv, TypeInv
<1>2. text \in Texts
  BY <1>1 DEF RequestsTyped, Request
<1>3. CASE ~(active # 0 /\ c.activeSegment = r)
  <2>1. requests' = Cancel(requests, {r}) /\ UNCHANGED states
    BY <1>3 DEF ReceiveSegments, Ended
  <2>2. active # 0 => Session(c, typed[c.source], approved, requests', port')
    <3>1. SUFFICES ASSUME active # 0 PROVE Session(c, typed[c.source], approved, requests', port)
      BY <1>1
    <3>2. Session(c, typed[c.source], approved, requests, port)
      BY <3>1, CurrentSession
    <3>3. r \notin EnhancesOf(c)
      BY <1>1, <3>2 DEF Session, Wired
    <3>4. QED
      BY <2>1, <3>2, <3>3, DroppedSession
  <2>3. active = 0 => Heard(requests', NoRequest, {})
    BY <2>1 DEF SessionInv, Heard, Cancel
  <2>4. QED
    BY <1>1, <2>1, <2>2, <2>3, IdleSession
<1>4. CASE active # 0 /\ c.activeSegment = r
  <2>1. /\ c \in InputState /\ Session(c, typed[c.source], approved, requests, port)
    BY <1>4, CurrentSession
  <2>2. c.draftText \in {text, EmptyText}
    BY <1>4, <2>1 DEF Session, Wired
  <2>3. /\ o \in InputState /\ o.source = c.source
        /\ o.debounce = c.debounce /\ o.extracted = c.extracted
        /\ o.draftText = c.draftText /\ o.draftSegments = c.draftSegments
        /\ o.draftIsStale = c.draftIsStale
        /\ o.accepted = c.accepted /\ o.hasStaleAccepted = c.hasStaleAccepted
        /\ o.activeSegment = NoRequest /\ o.activeBind = c.activeBind
        /\ o.bindPhase = c.bindPhase /\ o.pendingGhostText = c.pendingGhostText
        /\ o.ghostStreamComplete = c.ghostStreamComplete /\ o.basis = c.basis
        /\ o.activeEnhance = c.activeEnhance
    BY <2>1, NoRequestType DEF InputState
  <2> DEFINE n(new) == Rendered(Migrated(o, new), o.draftText, new, o.draftIsStale)
  <2>4. PICK new \in Answers(r) :
          IF new = <<>> THEN Update(o) /\ requests' = Ended(r)
          ELSE Update(n(new)) /\ requests' = Cancel(requests, {r} \cup GivenUp(o, n(new)))
    BY <1>4 DEF ReceiveSegments
  <2>5. new = <<>> \/ (new \in Sections[text] /\ c.draftText # EmptyText)
    BY <2>4 DEF Answers
  <2> HIDE DEF o, c, text
  <2>6. EnhancesOf(o) = EnhancesOf(c) /\ r \notin EnhancesOf(c)
    <3>1. EnhancesOf(o) = EnhancesOf(c)
      BY <2>3 DEF EnhancesOf
    <3>2. QED
      BY <1>1, <2>1, <3>1 DEF Session, Wired
  <2>7. Wired(c, requests) /\ Heard(requests, c.activeBind, EnhancesOf(c)) /\ Answered(c, requests, port)
    BY <2>1 DEF Session
  <2>8. CASE new = <<>>
    <3>1. Update(o) /\ requests' = Cancel(requests, {r})
      BY <2>4, <2>8 DEF Ended
    <3>2. Reviewed(o, approved) /\ Drafted(o, typed[c.source]) /\ Bound(o, typed[c.source])
      BY <2>1, <2>3 DEF Session, Reviewed, Drafted, Bound
    <3>3. /\ Wired(o, requests') /\ Heard(requests', o.activeBind, EnhancesOf(o))
          /\ Answered(o, requests', port)
      <4> DEFINE ended == {r}
      <4>1. /\ EnhancesOf(o) \subseteq EnhancesOf(c)
            /\ EnhancesOf(c) \ EnhancesOf(o) \subseteq ended
            /\ EnhancesOf(o) \cap ended = {}
            /\ requests' = Cancel(requests, ended)
        BY <2>6, <3>1
      <4> HIDE DEF ended
      <4>2. QED
        BY <1>1, <2>3, <2>7, <4>1, TrimmedSession
    <3>4. Session(o, typed[o.source], approved, requests', port)
      BY <2>3, <3>2, <3>3 DEF Session
    <3>5. QED
      BY <1>1, <1>4, <2>3, <3>1, <3>4, UpdateSession DEF c
  <2>9. CASE new # <<>>
    <3> DEFINE m == Migrated(o, new)
               moved == n(new)
               ended == {r} \cup GivenUp(o, moved)
    <3>1. Update(moved) /\ requests' = Cancel(requests, ended)
      BY <2>4, <2>9
    <3>2. new \in Seq(Positions) /\ AreDistinct(new)
      BY <1>2, <2>5, <2>9 DEF TextsAssumption
    <3>3. OwnBox \in Nat
      BY FreshNumbers DEF SessionInv
    <3>4. m \in InputState
      BY <2>3, <3>2, <3>3, MigratedType
    <3>5. /\ m.source = o.source /\ m.debounce = o.debounce /\ m.extracted = o.extracted
          /\ m.activeSegment = o.activeSegment /\ m.activeBind = o.activeBind
          /\ m.bindPhase = o.bindPhase /\ m.pendingGhostText = o.pendingGhostText
          /\ m.ghostStreamComplete = o.ghostStreamComplete /\ m.basis = o.basis
          /\ EnhancesOf(m) \subseteq EnhancesOf(o)
      BY <2>3, <3>2, <3>3, MigratedFields, MigratedStreams
    <3>6. ~m.hasStaleAccepted => \A k \in m.accepted : new[k] \in approved
      <4>1. Reviewed(o, approved)
        BY <2>1, <2>3 DEF Session, Reviewed
      <4>2. QED
        BY <2>3, <3>2, <3>3, <4>1, MigratedReview
    <3>7. o.draftText \in Texts /\ o.draftIsStale \in BOOLEAN
      BY <2>3 DEF InputState
    <3> HIDE DEF m
    <3>8. /\ moved.source = m.source /\ moved.debounce = m.debounce /\ moved.extracted = m.extracted
          /\ moved.accepted = m.accepted /\ moved.hasStaleAccepted = m.hasStaleAccepted
          /\ moved.activeSegment = m.activeSegment /\ moved.activeBind = m.activeBind
          /\ moved.bindPhase = m.bindPhase /\ moved.pendingGhostText = m.pendingGhostText
          /\ moved.ghostStreamComplete = m.ghostStreamComplete /\ moved.basis = m.basis
          /\ EnhancesOf(moved) \subseteq EnhancesOf(m)
          /\ \/ moved.draftText = EmptyText /\ moved.draftSegments = <<>>
             \/ /\ o.draftText # EmptyText
                /\ moved.draftText = o.draftText /\ moved.draftSegments = new
                /\ moved.draftIsStale = o.draftIsStale
      BY <3>2, <3>4, <3>7, RenderedFields DEF m
    <3> HIDE DEF moved
    <3>9. Reviewed(moved, approved)
      BY <3>2, <3>6, <3>8 DEF Reviewed, AreDistinct
    <3>10. Drafted(moved, typed[c.source])
      BY <2>1, <2>3, <3>5, <3>8 DEF Session, Drafted
    <3>11. Bound(moved, typed[c.source])
      BY <2>1, <2>3, <3>5, <3>8 DEF Session, Bound
    <3>12. /\ Wired(moved, Cancel(requests, ended))
           /\ Heard(Cancel(requests, ended), moved.activeBind, EnhancesOf(moved))
           /\ Answered(moved, Cancel(requests, ended), port)
      <4>1. /\ EnhancesOf(moved) \subseteq EnhancesOf(c)
            /\ EnhancesOf(c) \ EnhancesOf(moved) \subseteq ended
            /\ EnhancesOf(moved) \cap ended = {}
        BY <2>6, <3>5, <3>8 DEF GivenUp
      <4>2. /\ moved.activeBind = c.activeBind /\ moved.bindPhase = c.bindPhase
            /\ moved.pendingGhostText = c.pendingGhostText /\ moved.activeSegment = NoRequest
        BY <2>3, <3>5, <3>8
      <4> HIDE DEF ended
      <4>3. QED
        BY <1>1, <2>7, <4>1, <4>2, TrimmedSession
    <3> HIDE DEF ended
    <3>13. moved.source = c.source
      BY <2>3, <3>5, <3>8
    <3>14. Session(moved, typed[moved.source], approved, requests', port)
      BY <3>1, <3>9, <3>10, <3>11, <3>12, <3>13 DEF Session
    <3>15. QED
      BY <1>1, <1>4, <3>1, <3>13, <3>14, UpdateSession DEF c
  <2>10. QED
    BY <2>8, <2>9
<1>5. QED
  BY <1>3, <1>4

(* An expansion is asked for.                                               *)
LEMMA EnhanceResumesSession ==
  ASSUME TextsAssumption, SessionInv, TypeInv', EnhanceCallsAreActive',
         NEW call \in enhanceCalls, EnhanceResumes(call)
  PROVE  SessionInv'
<1> DEFINE o == Current
           q == call.position
           r == FreshRequest(q)
           n == [o EXCEPT !.activeEnhance[q] = r]
           request == [verb |-> "ENHANCE", text |-> call.text, cancelled |-> FALSE,
                       late |-> q \notin ClausesOf(o)]
           live == Post(requests, r, request)
<1>1. /\ active # 0 /\ q \in Positions
      /\ UNCHANGED <<typed, active, bindCalls, port, approved, edits>>
  BY DEF EnhanceResumes, SessionInv, EnhanceCallsAreActive, TypeInv, TypeOK
<1>2. o \in InputState /\ Session(o, typed[o.source], approved, requests, port)
  BY <1>1, CurrentSession
<1>3. CASE o.activeEnhance[q] = NoRequest /\ Update(n) /\ requests' = live
  <2>1. r \in RequestIds \ {NoRequest} /\ r \notin InUse
    BY <1>1, FreshRequestIsFree DEF RequestKinds, SessionInv, TypeInv, RequestsTyped
  <2>2. /\ r \notin DOMAIN requests /\ r # o.activeBind /\ r # o.activeSegment
        /\ r \notin EnhancesOf(o)
    BY <1>1, <2>1 DEF InUse
  <2>3. /\ DOMAIN requests \subseteq DOMAIN live /\ DOMAIN live \subseteq DOMAIN requests \cup {r}
        /\ port # "dead" => r \in DOMAIN live
        /\ \A s \in DOMAIN requests : live[s] = requests[s]
        /\ r \in DOMAIN live => live[r] = request
    BY <2>2, PostFields
  <2>4. request.verb = "ENHANCE"
    OBVIOUS
  <2> HIDE DEF r
  <2>5. /\ n.source = o.source /\ n.debounce = o.debounce /\ n.extracted = o.extracted
        /\ n.draftText = o.draftText /\ n.draftSegments = o.draftSegments
        /\ n.draftIsStale = o.draftIsStale
        /\ n.accepted = o.accepted /\ n.hasStaleAccepted = o.hasStaleAccepted
        /\ n.activeSegment = o.activeSegment /\ n.activeBind = o.activeBind
        /\ n.bindPhase = o.bindPhase /\ n.pendingGhostText = o.pendingGhostText
        /\ n.ghostStreamComplete = o.ghostStreamComplete /\ n.basis = o.basis
        /\ n.activeEnhance = [o.activeEnhance EXCEPT ![q] = r]
    BY <1>2 DEF InputState
  <2>6. o.activeEnhance \in [Positions -> RequestIds]
    BY <1>2 DEF InputState
  <2> HIDE DEF n, live, request, o
  <2>7. EnhancesOf(n) = EnhancesOf(o) \cup {r}
    BY <1>1, <1>3, <2>1, <2>5, <2>6 DEF EnhancesOf
  <2>8. Reviewed(n, approved) /\ Drafted(n, typed[o.source]) /\ Bound(n, typed[o.source])
    BY <1>2, <2>5 DEF Session, Reviewed, Drafted, Bound
  <2>9. Wired(n, live)
    <3>1. Wired(o, requests)
      BY <1>2 DEF Session
    <3>2. QED
      BY <2>2, <2>3, <2>4, <2>5, <2>7, <3>1 DEF Wired
  <2>10. Heard(live, n.activeBind, EnhancesOf(n))
    BY <1>2, <2>3, <2>4, <2>5, <2>7 DEF Session, Heard
  <2>11. Answered(n, live, port)
    BY <1>2, <2>3, <2>7 DEF Session, Answered
  <2>12. Session(n, typed[n.source], approved, live, port)
    BY <2>5, <2>8, <2>9, <2>10, <2>11 DEF Session
  <2>13. QED
    BY <1>1, <1>3, <2>5, <2>12, UpdateSession DEF o
<1>4. CASE UNCHANGED <<states, requests>>
  BY <1>1, <1>2, <1>4, IdleSession
<1>5. QED
  BY <1>3, <1>4 DEF EnhanceResumes

LEMMA EnhanceTokenSession ==
  ASSUME TextsAssumption, SessionInv, TypeInv', EnhanceCallsAreActive',
         NEW r \in DOMAIN requests, ReceiveEnhanceToken(r)
  PROVE  SessionInv'
<1> DEFINE o == Current
<1>1. active # 0 /\ UNCHANGED <<typed, active, bindCalls, requests, port, approved>>
  BY DEF ReceiveEnhanceToken
<1>2. o \in InputState /\ Session(o, typed[o.source], approved, requests, port)
  BY <1>1, CurrentSession
<1>3. PICK q \in Names(o, r) :
        Update([o EXCEPT !.enhancedText[q] = IF @ = NoText THEN requests[r].text ELSE @])
  BY DEF ReceiveEnhanceToken
<1> DEFINE n == [o EXCEPT !.enhancedText[q] = IF @ = NoText THEN requests[r].text ELSE @]
<1>4. /\ n.source = o.source /\ n.debounce = o.debounce /\ n.extracted = o.extracted
      /\ n.draftText = o.draftText /\ n.draftSegments = o.draftSegments
      /\ n.draftIsStale = o.draftIsStale
      /\ n.accepted = o.accepted /\ n.hasStaleAccepted = o.hasStaleAccepted
      /\ n.activeSegment = o.activeSegment /\ n.activeBind = o.activeBind
      /\ n.bindPhase = o.bindPhase /\ n.pendingGhostText = o.pendingGhostText
      /\ n.ghostStreamComplete = o.ghostStreamComplete /\ n.basis = o.basis
      /\ n.activeEnhance = o.activeEnhance
  BY <1>2 DEF InputState
<1>5. Update(n)
  BY <1>3
<1> HIDE DEF n
<1>6. Reviewed(n, approved)
  BY <1>2, <1>4 DEF Session, Reviewed
<1>7. Session(n, typed[o.source], approved, requests, port)
  BY <1>2, <1>4, <1>6, SameSession
<1>8. QED
  BY <1>1, <1>4, <1>5, <1>7, UpdateSession

LEMMA BindTokenSession ==
  ASSUME TextsAssumption, SessionInv, TypeInv', EnhanceCallsAreActive',
         NEW r \in DOMAIN requests, ReceiveBindToken(r)
  PROVE  SessionInv'
<1> DEFINE o == Current
           n == [o EXCEPT !.bindPhase = "BINDING", !.pendingGhostText = @ + 1]
<1>1. /\ requests[r].verb = "BIND" /\ requests' = [requests EXCEPT ![r].tokens = @ + 1]
      /\ active # 0 /\ o.activeBind = r /\ Update(n)
      /\ UNCHANGED <<typed, active, bindCalls, port, approved>>
  BY DEF ReceiveBindToken
<1>2. /\ requests[r] \in [verb : {"BIND"}, tokens : 0..MaxTokens, abandoned : BOOLEAN]
      /\ NoRequest \notin DOMAIN requests
  BY <1>1 DEF SessionInv, TypeInv, RequestsTyped, Request
<1>3. /\ DOMAIN requests' = DOMAIN requests
      /\ \A q \in DOMAIN requests : q # r => requests'[q] = requests[q]
      /\ requests'[r].verb = "BIND" /\ requests'[r].abandoned = requests[r].abandoned
      /\ requests'[r].tokens = requests[r].tokens + 1
  BY <1>1, <1>2
<1>4. o \in InputState /\ Session(o, typed[o.source], approved, requests, port)
  BY <1>1, CurrentSession
<1>5. Heard(requests', o.activeBind, EnhancesOf(o))
  BY <1>1, <1>3, <1>4 DEF Session, Heard
<1>6. Answered(o, requests', port)
  BY <1>3, <1>4 DEF Session, Answered
<1>7. r \notin EnhancesOf(o) /\ r # o.activeSegment
  BY <1>1, <1>4 DEF Session, Wired
<1>8. /\ n.source = o.source /\ n.debounce = o.debounce /\ n.extracted = o.extracted
      /\ n.draftText = o.draftText /\ n.draftSegments = o.draftSegments
      /\ n.draftIsStale = o.draftIsStale
      /\ n.accepted = o.accepted /\ n.hasStaleAccepted = o.hasStaleAccepted
      /\ n.activeSegment = o.activeSegment /\ n.activeBind = o.activeBind
      /\ n.bindPhase = "BINDING" /\ n.pendingGhostText = o.pendingGhostText + 1
      /\ n.ghostStreamComplete = o.ghostStreamComplete /\ n.basis = o.basis
      /\ n.activeEnhance = o.activeEnhance
  BY <1>4 DEF InputState
<1> HIDE DEF n, o
<1>9. EnhancesOf(n) = EnhancesOf(o)
  BY <1>8 DEF EnhancesOf
<1>10. /\ o.bindPhase # "COMPLETE" /\ o.pendingGhostText = requests[r].tokens
  BY <1>1, <1>4 DEF Session, Wired
<1>11. Reviewed(n, approved) /\ Drafted(n, typed[o.source])
  BY <1>4, <1>8 DEF Session, Reviewed, Drafted
<1>12. Bound(n, typed[o.source])
  BY <1>1, <1>2, <1>4, <1>8, <1>10 DEF Session, Bound
<1>13. Wired(n, requests')
  <2>1. Wired(o, requests)
    BY <1>4 DEF Session
  <2>2. n.pendingGhostText = requests'[r].tokens
    BY <1>3, <1>8, <1>10
  <2>3. QED
    BY <1>1, <1>3, <1>7, <1>8, <1>9, <2>1, <2>2 DEF Wired
<1>14. Session(n, typed[n.source], approved, requests', port)
  BY <1>4, <1>5, <1>6, <1>8, <1>9, <1>11, <1>12, <1>13 DEF Session, Answered
<1>15. QED
  BY <1>1, <1>8, <1>14, UpdateSession DEF o

(* A request is over for an object that does not name it, or that names it  *)
(* as an expansion.                                                         *)
LEMMA EnhanceEndedSession ==
  ASSUME SessionInv, TypeInv', EnhanceCallsAreActive', active # 0,
         NEW r \in DOMAIN requests, Update(EnhanceEnded(Current, r)), requests' = Ended(r),
         UNCHANGED <<typed, active, bindCalls, port, approved>>
  PROVE  SessionInv'
<1> DEFINE o == Current
           n == EnhanceEnded(o, r)
           ended == {r}
<1>1. /\ o \in InputState /\ Session(o, typed[o.source], approved, requests, port)
      /\ RequestsTyped(requests)
  BY CurrentSession
<1>2. /\ n.source = o.source /\ n.debounce = o.debounce /\ n.extracted = o.extracted
      /\ n.draftText = o.draftText /\ n.draftSegments = o.draftSegments
      /\ n.draftIsStale = o.draftIsStale
      /\ n.accepted = o.accepted /\ n.hasStaleAccepted = o.hasStaleAccepted
      /\ n.activeSegment = o.activeSegment /\ n.activeBind = o.activeBind
      /\ n.bindPhase = o.bindPhase /\ n.pendingGhostText = o.pendingGhostText
      /\ n.ghostStreamComplete = o.ghostStreamComplete /\ n.basis = o.basis
      /\ n.activeEnhance =
           [q \in Positions |-> IF o.activeEnhance[q] = r THEN NoRequest ELSE o.activeEnhance[q]]
  BY <1>1 DEF EnhanceEnded, InputState
<1> HIDE DEF n
<1>3. EnhancesOf(n) = EnhancesOf(o) \ ended
  BY <1>2 DEF EnhancesOf
<1>4. /\ Wired(o, requests) /\ Heard(requests, o.activeBind, EnhancesOf(o))
      /\ Answered(o, requests, port)
  BY <1>1 DEF Session
<1>5. /\ Wired(n, requests') /\ Heard(requests', n.activeBind, EnhancesOf(n))
      /\ Answered(n, requests', port)
  <2>1. /\ EnhancesOf(n) \subseteq EnhancesOf(o)
        /\ EnhancesOf(o) \ EnhancesOf(n) \subseteq ended
        /\ EnhancesOf(n) \cap ended = {}
        /\ requests' = Cancel(requests, ended)
    BY <1>3 DEF Ended
  <2> HIDE DEF ended, o
  <2>2. QED
    BY <1>1, <1>2, <1>4, <2>1, TrimmedSession
<1>6. Reviewed(n, approved) /\ Drafted(n, typed[o.source]) /\ Bound(n, typed[o.source])
  BY <1>1, <1>2 DEF Session, Reviewed, Drafted, Bound
<1>7. Session(n, typed[n.source], approved, requests', port)
  BY <1>2, <1>5, <1>6 DEF Session
<1>8. QED
  BY <1>2, <1>7, UpdateSession DEF n

(* The running bind is over: n is what it leaves.                           *)
LEMMA BindEndedSession ==
  ASSUME SessionInv, TypeInv', EnhanceCallsAreActive', active # 0,
         NEW r \in DOMAIN requests, Current.activeBind = r,
         NEW n \in {BindDone(Current), BindFailed(Current)}, Update(n), requests' = Ended(r),
         UNCHANGED <<typed, active, bindCalls, port, approved>>
  PROVE  SessionInv'
<1> DEFINE o == Current
<1>1. /\ o \in InputState /\ Session(o, typed[o.source], approved, requests, port)
      /\ RequestsTyped(requests)
  BY CurrentSession
<1>2. /\ n.source = o.source /\ n.debounce = o.debounce /\ n.extracted = o.extracted
      /\ n.draftText = o.draftText /\ n.draftSegments = o.draftSegments
      /\ n.draftIsStale = o.draftIsStale
      /\ n.accepted = o.accepted /\ n.hasStaleAccepted = o.hasStaleAccepted
      /\ n.activeSegment = o.activeSegment /\ n.activeEnhance = o.activeEnhance
      /\ \/ /\ n.activeBind = r /\ n.bindPhase = "COMPLETE" /\ n.ghostStreamComplete = TRUE
            /\ n.basis = o.basis
         \/ n.activeBind = NoRequest /\ n.bindPhase = "IDLE" /\ n.ghostStreamComplete = FALSE
  <2>1. o.activeBind = r
    OBVIOUS
  <2> HIDE DEF o
  <2>2. CASE n = BindDone(o)
    BY <1>1, <2>1, <2>2 DEF BindDone, InputState
  <2>3. CASE n = BindFailed(o)
    BY <1>1, <2>1, <2>3 DEF BindFailed, InputState
  <2>4. QED
    BY <2>2, <2>3 DEF o
<1>3. /\ DOMAIN requests' = DOMAIN requests \ {r}
      /\ \A q \in DOMAIN requests' : requests'[q] = requests[q]
      /\ NoRequest \notin DOMAIN requests
  BY <1>1 DEF Ended, Cancel, RequestsTyped
<1>4. EnhancesOf(n) = EnhancesOf(o)
  BY <1>2 DEF EnhancesOf
<1>5. requests[r].verb = "BIND" /\ r \notin EnhancesOf(o)
  BY <1>1 DEF Session, Wired
<1>6. Reviewed(n, approved) /\ Drafted(n, typed[o.source])
  BY <1>1, <1>2 DEF Session, Reviewed, Drafted
<1>7. Bound(n, typed[o.source])
  BY <1>1, <1>2, <1>3 DEF Session, Bound
<1>8. Wired(n, requests')
  BY <1>1, <1>2, <1>3, <1>4 DEF Session, Wired
<1>9. Heard(requests', n.activeBind, EnhancesOf(n))
  BY <1>1, <1>3, <1>4 DEF Session, Heard
<1>10. Answered(n, requests', port)
  BY <1>1, <1>3, <1>4, <1>5 DEF Session, Answered
<1>11. Session(n, typed[n.source], approved, requests', port)
  BY <1>2, <1>6, <1>7, <1>8, <1>9, <1>10 DEF Session
<1>12. QED
  BY <1>2, <1>11, UpdateSession

LEMMA EndSession ==
  ASSUME TextsAssumption, SessionInv, TypeInv', EnhanceCallsAreActive',
         NEW r \in DOMAIN requests, ReceiveDone(r) \/ ReceiveError(r)
  PROVE  SessionInv'
<1>1. requests' = Ended(r) /\ UNCHANGED <<typed, active, bindCalls, port, approved>>
  BY DEF ReceiveDone, ReceiveError
<1>2. CASE active = 0
  <2>1. UNCHANGED states
    BY <1>2 DEF ReceiveDone, ReceiveError
  <2>2. Heard(requests', NoRequest, {})
    BY <1>1, <1>2 DEF SessionInv, Heard, Ended, Cancel
  <2>3. QED
    BY <1>1, <1>2, <2>1, <2>2, IdleSession
<1>3. CASE active # 0 /\ Current.activeBind = r
  <2>1. Update(BindDone(Current)) \/ Update(BindFailed(Current))
    BY <1>3 DEF ReceiveDone, ReceiveError
  <2>2. QED
    BY <1>1, <1>3, <2>1, BindEndedSession
<1>4. CASE active # 0 /\ Update(EnhanceEnded(Current, r))
  BY <1>1, <1>4, EnhanceEndedSession
<1>5. CASE active # 0 /\ Current.activeSegment = r
           /\ Update([Current EXCEPT !.activeSegment = NoRequest])
  <2> DEFINE o == Current
             n == [o EXCEPT !.activeSegment = NoRequest]
             ended == {r}
  <2>1. /\ o \in InputState /\ Session(o, typed[o.source], approved, requests, port)
        /\ RequestsTyped(requests)
    BY <1>5, CurrentSession
  <2>2. /\ n.source = o.source /\ n.debounce = o.debounce /\ n.extracted = o.extracted
        /\ n.draftText = o.draftText /\ n.draftSegments = o.draftSegments
        /\ n.draftIsStale = o.draftIsStale
        /\ n.accepted = o.accepted /\ n.hasStaleAccepted = o.hasStaleAccepted
        /\ n.activeSegment = NoRequest /\ n.activeBind = o.activeBind
        /\ n.bindPhase = o.bindPhase /\ n.pendingGhostText = o.pendingGhostText
        /\ n.ghostStreamComplete = o.ghostStreamComplete /\ n.basis = o.basis
        /\ n.activeEnhance = o.activeEnhance
    BY <2>1 DEF InputState
  <2> HIDE DEF n
  <2>3. EnhancesOf(n) = EnhancesOf(o) /\ r \notin EnhancesOf(o)
    <3>1. EnhancesOf(n) = EnhancesOf(o)
      BY <2>2 DEF EnhancesOf
    <3>2. QED
      BY <1>5, <2>1, <3>1 DEF Session, Wired
  <2>4. /\ Wired(o, requests) /\ Heard(requests, o.activeBind, EnhancesOf(o))
        /\ Answered(o, requests, port)
    BY <2>1 DEF Session
  <2>5. /\ Wired(n, requests') /\ Heard(requests', n.activeBind, EnhancesOf(n))
        /\ Answered(n, requests', port)
    <3>1. /\ EnhancesOf(n) \subseteq EnhancesOf(o)
          /\ EnhancesOf(o) \ EnhancesOf(n) \subseteq ended
          /\ EnhancesOf(n) \cap ended = {}
          /\ requests' = Cancel(requests, ended)
      BY <1>1, <2>3 DEF Ended
    <3> HIDE DEF ended, o
    <3>2. QED
      BY <2>1, <2>2, <2>4, <3>1, TrimmedSession
  <2>6. Reviewed(n, approved) /\ Drafted(n, typed[o.source]) /\ Bound(n, typed[o.source])
    BY <2>1, <2>2 DEF Session, Reviewed, Drafted, Bound
  <2>7. Session(n, typed[n.source], approved, requests', port)
    BY <2>2, <2>5, <2>6 DEF Session
  <2>8. QED
    BY <1>1, <1>5, <2>2, <2>7, UpdateSession DEF n
<1>6. QED
  BY <1>2, <1>3, <1>4, <1>5 DEF ReceiveDone, ReceiveError

(* On a port whose worker is dead nothing runs, and nothing is started.     *)
DeadPortIsSilent == port = "dead" => DOMAIN requests = {}

LEMMA SilentInit == Init => DeadPortIsSilent
BY DEF Init, DeadPortIsSilent

LEMMA SilentNext ==
  ASSUME TextsAssumption, DeadPortIsSilent, [Next]_vars
  PROVE  DeadPortIsSilent'
<1> SUFFICES ASSUME port' = "dead" PROVE DOMAIN requests' = {}
  BY DEF DeadPortIsSilent
<1>1. CASE WorkerDies
  BY <1>1 DEF WorkerDies, NoRequests
<1>2. CASE PortDisconnects
  BY <1>2 DEF PortDisconnects
<1>3. ASSUME port = "dead"
      PROVE  /\ DOMAIN requests = {}
             /\ \A ended : DOMAIN Cancel(requests, ended) = {}
             /\ \A ended, o : DOMAIN Abandon(Cancel(requests, ended), o) = {}
             /\ \A rs, r, request : Post(rs, r, request) = rs
  BY <1>3 DEF DeadPortIsSilent, Cancel, Abandon, Post
<1>4. CASE Edit \/ CommitGhostText \/ SignOut
  <2>1. port = "dead"
    BY <1>4 DEF Edit, Input, CommitGhostText, SignOut
  <2>2. CASE Edit
    <3>1. PICK i \in Inputs, text \in Texts : Input(i, text)
      BY <2>2 DEF Edit
    <3>2. \/ requests' = Cancel(requests, {Current.activeBind})
          \/ requests' = Abandon(Cancel(requests, EnhancesOf(Current)), Current)
          \/ requests' = requests
      BY <3>1 DEF Input
    <3>3. QED
      BY <1>3, <2>1, <3>2
  <2>3. CASE CommitGhostText
    <3>1. DOMAIN requests' = DOMAIN requests
      BY <2>3 DEF CommitGhostText, Disown
    <3>2. QED
      BY <1>3, <2>1, <3>1
  <2>4. CASE SignOut
    <3>1. requests' = Abandon(Cancel(requests, EnhancesOf(Current)), Current)
      BY <2>4 DEF SignOut
    <3>2. QED
      BY <1>3, <2>1, <3>1
  <2>5. QED
    BY <1>4, <2>2, <2>3, <2>4
<1>5. CASE DebounceResumes
  <2>1. port = "dead"
    BY <1>5 DEF DebounceResumes
  <2>2. PICK context \in Contexts :
          \/ context = "ok" /\ \E ended, r, request :
                                 requests' = Post(Cancel(requests, ended), r, request)
          \/ context # "ok" /\ \E ended : requests' = Cancel(requests, ended)
          \/ context \notin {"ok", "paused", "signedOut"}
    <3> DEFINE segments == Split[Current.extracted]
               moved == [Migrated(Current, segments) EXCEPT
                           !.debounce = "none", !.focused = 0, !.extracted = EmptyText]
               r == FreshRequest("SEGMENT")
               n1 == Rendered([moved EXCEPT !.activeSegment = r], Current.extracted, segments, FALSE)
               n2 == [moved EXCEPT !.activeSegment = NoRequest, !.draftIsStale = TRUE]
               n3 == DraftCleared([moved EXCEPT !.activeSegment = NoRequest])
               request == [verb |-> "SEGMENT", text |-> Current.extracted]
    <3>1. PICK context \in Contexts :
            CASE context = "ok" ->
                   Update(n1) /\ requests' = Post(Cancel(requests, GivenUp(Current, n1)), r, request)
              [] context = "paused" -> Update(n2) /\ requests' = Cancel(requests, GivenUp(Current, n2))
              [] context = "signedOut" -> Update(n3) /\ requests' = Cancel(requests, GivenUp(Current, n3))
      BY <1>5, Zenon DEF DebounceResumes
    <3> HIDE DEF n1, n2, n3, r, request
    <3>2. QED
      BY <3>1
  <2>3. context \in {"ok", "paused", "signedOut"}
    BY DEF TextsAssumption
  <2>4. \E ended : requests' = Cancel(requests, ended)
    BY <1>3, <2>1, <2>2, <2>3
  <2>5. QED
    BY <1>3, <2>1, <2>4
<1>6. CASE Escape
  <2>1. port = "dead"
        /\ (requests' = requests \/ requests' = Cancel(requests, {Current.activeBind}))
    BY <1>6 DEF Escape
  <2>2. QED
    BY <1>3, <2>1
<1>7. CASE \E c \in BindCalls : BindResumes(c)
  <2>1. PICK c \in BindCalls : BindResumes(c)
    BY <1>7
  <2>2. /\ port = "dead"
        /\ \/ requests' = requests
           \/ requests' = Post(requests, FreshRequest("BIND"),
                               [verb |-> "BIND", tokens |-> 0, abandoned |-> bindCalls[c].outlived])
    BY <2>1, Zenon DEF BindResumes
  <2>3. QED
    BY <1>3, <2>2
<1>8. CASE \E call \in enhanceCalls : EnhanceResumes(call)
  <2>1. PICK call \in enhanceCalls : EnhanceResumes(call)
    BY <1>8
  <2>2. /\ port = "dead"
        /\ \/ requests' = requests
           \/ requests' = Post(requests, FreshRequest(call.position),
                               [verb |-> "ENHANCE", text |-> call.text, cancelled |-> FALSE,
                                late |-> call.position \notin ClausesOf(Current)])
    BY <2>1, Zenon DEF EnhanceResumes
  <2>3. QED
    BY <1>3, <2>2
<1>9. CASE \E r \in DOMAIN requests : Receive(r)
  <2>1. port = "dead"
    BY <1>9 DEF Receive, ReceiveSegments, ReceiveEnhanceToken, ReceiveBindToken, ReceiveDone,
                ReceiveError
  <2>2. QED
    BY <1>3, <1>9, <2>1
<1>10. CASE UNCHANGED <<requests, port>>
  BY <1>3, <1>10
<1>11. CASE PageChanges
  <2>1. port = "dead"
    BY <1>11 DEF PageChanges
  <2>2. \/ requests' = requests
        \/ \E ended : requests' = Cancel(requests, ended)
        \/ requests' = Disown(requests, EnhancesOf(Current))
    BY <1>11 DEF PageChanges, Detach, Reattach, Orphan
  <2>3. DOMAIN Disown(requests, EnhancesOf(Current)) = DOMAIN requests
    BY DEF Disown
  <2>4. QED
    BY <1>3, <2>1, <2>2, <2>3
<1>12. QED
  <2>1. ASSUME \/ DebounceFires
               \/ \E direction \in {"forward", "backward"} : FocusSegment(direction)
               \/ AcceptFocusedSegment \/ UnacceptSegment
               \/ \E c \in BindCalls : DispatchBind(c)
               \/ UNCHANGED vars
        PROVE  UNCHANGED <<requests, port>>
    BY <2>1 DEF DebounceFires, FocusSegment, AcceptFocusedSegment, UnacceptSegment, DispatchBind, vars
  <2>2. QED
    BY <1>1, <1>2, <1>4, <1>5, <1>6, <1>7, <1>8, <1>9, <1>10, <1>11, <2>1 DEF Next

LEMMA LossSession ==
  ASSUME TextsAssumption, SessionInv, DeadPortIsSilent, TypeInv', EnhanceCallsAreActive',
         WorkerDies \/ PortDisconnects \/ SignOut
  PROVE  SessionInv'
<1> DEFINE o == Current
<1>1. active # 0 => /\ o \in InputState /\ RequestsTyped(requests)
                    /\ Session(o, typed[o.source], approved, requests, port)
  BY CurrentSession
<1>2. CASE WorkerDies
  <2>1. /\ UNCHANGED <<typed, active, states, bindCalls, approved>>
        /\ requests' = NoRequests /\ port' = "dead"
    BY <1>2 DEF WorkerDies
  <2>2. DOMAIN requests' = {}
    BY <2>1 DEF NoRequests
  <2>3. Heard(requests', NoRequest, {}) /\ Heard(requests', o.activeBind, EnhancesOf(o))
        /\ Wired(o, requests') /\ Answered(o, requests', port')
    BY <2>1, <2>2 DEF Heard, Wired, Answered
  <2>4. QED
    BY <1>1, <2>1, <2>3, IdleSession DEF Session
<1>3. CASE PortDisconnects
  <2>1. /\ UNCHANGED <<typed, active, bindCalls, approved, requests>>
        /\ DOMAIN requests = {} /\ port' = "open"
    BY <1>3 DEF PortDisconnects, DeadPortIsSilent
  <2>2. CASE active = 0
    <3>1. UNCHANGED states
      BY <1>3, <2>2 DEF PortDisconnects
    <3>2. Heard(requests', NoRequest, {})
      BY <2>1 DEF Heard
    <3>3. QED
      BY <2>1, <2>2, <3>1, <3>2, IdleSession
  <2>3. CASE active # 0
    <3> DEFINE n == [o EXCEPT !.activeEnhance = [q \in Positions |-> NoRequest]]
    <3>1. Update(n)
      BY <1>3, <2>3 DEF PortDisconnects
    <3>2. /\ n.source = o.source /\ n.debounce = o.debounce /\ n.extracted = o.extracted
          /\ n.draftText = o.draftText /\ n.draftSegments = o.draftSegments
          /\ n.draftIsStale = o.draftIsStale
          /\ n.accepted = o.accepted /\ n.hasStaleAccepted = o.hasStaleAccepted
          /\ n.activeBind = o.activeBind /\ n.bindPhase = o.bindPhase
          /\ n.ghostStreamComplete = o.ghostStreamComplete /\ n.basis = o.basis
          /\ n.activeEnhance = [q \in Positions |-> NoRequest]
      BY <1>1, <2>3 DEF InputState
    <3> HIDE DEF n
    <3>3. EnhancesOf(n) = {}
      BY <3>2 DEF EnhancesOf
    <3>4. Reviewed(n, approved) /\ Drafted(n, typed[o.source]) /\ Bound(n, typed[o.source])
      BY <1>1, <2>3, <3>2 DEF Session, Reviewed, Drafted, Bound
    <3>5. /\ Wired(n, requests') /\ Heard(requests', n.activeBind, EnhancesOf(n))
          /\ Answered(n, requests', port')
      BY <2>1, <3>3 DEF Wired, Heard, Answered
    <3>6. Session(n, typed[n.source], approved', requests', port')
      BY <2>1, <3>2, <3>4, <3>5 DEF Session
    <3>7. QED
      BY <2>1, <2>3, <3>1, <3>2, <3>6, UpdateSession
  <2>4. QED
    BY <2>2, <2>3
<1>4. CASE SignOut
  <2>1. /\ active # 0 /\ active' = 0 /\ UNCHANGED typed /\ CallsKept
        /\ requests' = Abandon(Cancel(requests, EnhancesOf(o)), o)
    BY <1>4, OutlivedKeepsCalls DEF SignOut, SessionInv
  <2>2. Heard(requests, o.activeBind, EnhancesOf(o)) /\ RequestsTyped(requests)
    BY <1>1, <2>1 DEF Session
  <2>3. Heard(requests', NoRequest, {})
    <3> HIDE DEF o
    <3>1. QED
      BY <2>1, <2>2, AbandonedSession
  <2>4. CallsAreFresh'
    <3>1. \A c \in BindCalls : bindCalls[c] # NoCall => bindCalls[c].state # 0
      BY DEF SessionInv, TypeInv, TypeOK
    <3>2. QED
      BY <2>1, <3>1 DEF CallsAreFresh, CallsKept
  <2>5. QED
    BY <2>1, <2>3, <2>4 DEF SessionInv
<1>5. QED
  BY <1>2, <1>3, <1>4

(* The page takes the active input away, replaces it, or gives it back.     *)
LEMMA PageSession ==
  ASSUME TextsAssumption, SessionInv, TypeInv', EnhanceCallsAreActive', PageChanges
  PROVE  SessionInv'
<1> DEFINE o == Current
<1>1. active # 0 /\ UNCHANGED <<typed, active, bindCalls, port, approved>>
  BY DEF PageChanges
<1>2. /\ o \in InputState /\ RequestsTyped(requests)
      /\ Session(o, typed[o.source], approved, requests, port)
      /\ Wired(o, requests) /\ Heard(requests, o.activeBind, EnhancesOf(o))
      /\ Answered(o, requests, port)
  BY <1>1, CurrentSession DEF Session
<1>3. CASE UNCHANGED <<states, requests>>
  BY <1>1, <1>2, <1>3, IdleSession
<1>4. CASE o.bindPhase = "IDLE" /\ Detach
  <2> DEFINE w == WorkCleared(o)
             n == DraftCleared(BindCancelled(w))
             ended == GivenUp(o, n) \cup {o.activeBind}
  <2>1. Update(n) /\ requests' = Cancel(requests, ended)
    BY <1>4 DEF Detach
  <2>2. o.activeBind = NoRequest
    BY <1>2, <1>4 DEF Session, Bound
  <2>3. /\ w \in InputState /\ w.source = o.source /\ w.debounce = "none"
        /\ w.accepted = o.accepted /\ w.hasStaleAccepted = o.hasStaleAccepted
        /\ w.activeSegment = o.activeSegment /\ w.activeBind = o.activeBind
        /\ w.bindPhase = o.bindPhase /\ w.pendingGhostText = o.pendingGhostText
        /\ w.ghostStreamComplete = o.ghostStreamComplete /\ w.basis = o.basis
    <3>1. w \in InputState
      BY <1>2, WorkClearedType
    <3>2. QED
      BY <1>2, <1>4, <3>1 DEF WorkCleared, InputState
  <2>4. BindCancelled(w) = w
    BY <2>2, <2>3 DEF BindCancelled
  <2> HIDE DEF w
  <2>5. /\ n.source = w.source /\ n.debounce = w.debounce
        /\ n.activeSegment = w.activeSegment /\ n.activeBind = w.activeBind
        /\ n.bindPhase = w.bindPhase /\ n.pendingGhostText = w.pendingGhostText
        /\ n.ghostStreamComplete = w.ghostStreamComplete /\ n.basis = w.basis
        /\ EnhancesOf(n) = {}
        /\ n.draftText = EmptyText /\ n.draftSegments = <<>>
    BY <2>3, <2>4, ClearedFields
  <2> HIDE DEF n
  <2>6. Reviewed(n, approved) /\ Drafted(n, typed[o.source]) /\ Bound(n, typed[o.source])
    BY <1>2, <2>3, <2>5 DEF Session, Reviewed, AreDistinct, Drafted, Bound
  <2>7. /\ Wired(n, requests') /\ Heard(requests', n.activeBind, EnhancesOf(n))
        /\ Answered(n, requests', port)
    <3>1. /\ EnhancesOf(n) \subseteq EnhancesOf(o)
          /\ EnhancesOf(o) \ EnhancesOf(n) \subseteq ended
          /\ EnhancesOf(n) \cap ended = {}
      BY <2>5 DEF GivenUp
    <3>2. /\ n.activeBind = o.activeBind /\ n.bindPhase = o.bindPhase
          /\ n.pendingGhostText = o.pendingGhostText
          /\ n.activeSegment = o.activeSegment /\ n.draftText = EmptyText
      BY <2>3, <2>5
    <3> HIDE DEF o, ended
    <3>3. QED
      BY <1>2, <2>1, <3>1, <3>2, TrimmedSession
  <2>8. Session(n, typed[n.source], approved, requests', port) /\ n.source = o.source
    BY <2>3, <2>5, <2>6, <2>7 DEF Session
  <2>9. QED
    BY <1>1, <2>1, <2>8, UpdateSession
<1>5. ASSUME NEW left, Reattach(left)
      PROVE  SessionInv'
  <2>1. PICK j \in gone \ left : Update([o EXCEPT !.input = j])
    BY <1>5 DEF Reattach
  <2> DEFINE n == [o EXCEPT !.input = j]
  <2>2. Update(n) /\ requests' = requests
    BY <1>5, <2>1 DEF Reattach
  <2>3. /\ n.source = o.source /\ n.debounce = o.debounce /\ n.extracted = o.extracted
        /\ n.draftText = o.draftText /\ n.draftSegments = o.draftSegments
        /\ n.draftIsStale = o.draftIsStale
        /\ n.accepted = o.accepted /\ n.hasStaleAccepted = o.hasStaleAccepted
        /\ n.activeSegment = o.activeSegment /\ n.activeBind = o.activeBind
        /\ n.bindPhase = o.bindPhase /\ n.pendingGhostText = o.pendingGhostText
        /\ n.ghostStreamComplete = o.ghostStreamComplete /\ n.basis = o.basis
        /\ n.activeEnhance = o.activeEnhance
    BY <1>2 DEF InputState
  <2> HIDE DEF n
  <2>4. Reviewed(n, approved)
    BY <1>2, <2>3 DEF Session, Reviewed
  <2>5. Session(n, typed[o.source], approved, requests, port)
    BY <1>2, <2>3, <2>4, SameSession
  <2>6. QED
    BY <1>1, <2>2, <2>3, <2>5, UpdateSession
<1>6. CASE Orphan
  <2>1. CASE Update(DraftCleared(o)) /\ requests' = Cancel(requests, GivenUp(o, DraftCleared(o)))
    <3> DEFINE n == DraftCleared(o)
    <3>1. /\ n.source = o.source /\ n.debounce = o.debounce /\ n.extracted = o.extracted
          /\ n.activeSegment = o.activeSegment /\ n.activeBind = o.activeBind
          /\ n.bindPhase = o.bindPhase /\ n.pendingGhostText = o.pendingGhostText
          /\ n.ghostStreamComplete = o.ghostStreamComplete /\ n.basis = o.basis
          /\ EnhancesOf(n) = {}
          /\ n.draftText = EmptyText /\ n.draftSegments = <<>>
      BY <1>2, ClearedFields
    <3>2. Update(n) /\ requests' = Cancel(requests, GivenUp(o, n))
      BY <2>1
    <3> HIDE DEF n
    <3>3. Reviewed(n, approved) /\ Drafted(n, typed[o.source]) /\ Bound(n, typed[o.source])
      BY <1>2, <3>1 DEF Session, Reviewed, AreDistinct, Drafted, Bound
    <3>4. /\ Wired(n, requests') /\ Heard(requests', n.activeBind, EnhancesOf(n))
          /\ Answered(n, requests', port)
      <4> HIDE DEF o
      <4>1. QED
        BY <1>2, <3>1, <3>2, GivenUpSession
    <3>5. Session(n, typed[o.source], approved, requests', port)
      BY <3>3, <3>4 DEF Session
    <3>6. QED
      BY <1>1, <3>1, <3>2, <3>5, UpdateSession
  <2>2. CASE UNCHANGED states /\ requests' \in {Disown(requests, EnhancesOf(o)), requests}
    <3>1. Session(o, typed[o.source], approved, Disown(requests, EnhancesOf(o)), port)
      BY <1>2, DisownedSession
    <3>2. Session(o, typed[o.source], approved, requests', port)
      BY <1>2, <2>2, <3>1
    <3>3. QED
      BY <1>1, <2>2, <3>2, IdleSession
  <2>3. QED
    BY <1>6, <2>1, <2>2 DEF Orphan
<1>7. QED
  BY <1>3, <1>4, <1>5, <1>6 DEF PageChanges

LEMMA SessionInit == TextsAssumption /\ Init => SessionInv
<1> SUFFICES ASSUME TextsAssumption, Init PROVE SessionInv
  OBVIOUS
<1>1. TypeInv /\ EnhanceCallsAreActive
  BY TypeInit, CallsInit
<1>2. CallsAreFresh
  BY DEF Init, CallsAreFresh
<1>3. active = 0 /\ Heard(requests, NoRequest, {})
  BY DEF Init, Heard, NoRequests
<1>4. QED
  BY <1>1, <1>2, <1>3 DEF SessionInv

LEMMA SessionNext ==
  ASSUME TextsAssumption, SessionInv, CallsAreStopped, DeadPortIsSilent, [Next]_vars
  PROVE  SessionInv'
<1>1. TypeInv' /\ EnhanceCallsAreActive'
  BY TypeNext, CallsNext DEF SessionInv
<1>2. CASE Edit
  BY <1>1, <1>2, InputSession DEF Edit
<1>3. CASE DebounceFires \/ DebounceResumes
  BY <1>1, <1>3, DebounceFiresSession, DebounceResumesSession
<1>4. CASE \/ \E direction \in {"forward", "backward"} : FocusSegment(direction)
           \/ AcceptFocusedSegment
           \/ UnacceptSegment
           \/ Escape
  BY <1>1, <1>4, FocusSession, AcceptSession, UnacceptSession, EscapeSession
<1>5. CASE \E c \in BindCalls : DispatchBind(c) \/ BindResumes(c)
  BY <1>1, <1>5, DispatchSession, BindResumesSession
<1>6. CASE CommitGhostText
  BY <1>1, <1>6, CommitSession
<1>7. CASE \E call \in enhanceCalls : EnhanceResumes(call)
  BY <1>1, <1>7, EnhanceResumesSession
<1>8. CASE \E r \in DOMAIN requests : Receive(r)
  BY <1>1, <1>8, SegmentsSession, EnhanceTokenSession, BindTokenSession, EndSession DEF Receive
<1>9. CASE WorkerDies \/ PortDisconnects \/ SignOut
  BY <1>1, <1>9, LossSession
<1>10. CASE PageChanges
  BY <1>1, <1>10, PageSession
<1>11. CASE UNCHANGED vars
  <2>1. UNCHANGED <<typed, active, states, bindCalls, requests, port, approved>>
    BY <1>11 DEF vars
  <2>2. Current' = Current
    BY <2>1 DEF Current
  <2>3. QED
    BY <1>1, <2>1, <2>2 DEF SessionInv, CallsAreFresh
<1>12. QED
  BY <1>2, <1>3, <1>4, <1>5, <1>6, <1>7, <1>8, <1>9, <1>11, <1>10 DEF Next

-------------------------------------------------------------------------------
(* The theorems.  SessionInv is inductive with three more invariants, and   *)
(* the properties of a session are parts of them.                           *)

DraftInv == SessionInv /\ DeadPortIsSilent /\ CallsAreStopped /\ StreamsHaveClauses

LEMMA SessionHolds == Spec => []DraftInv
<1>1. Init => DraftInv
  BY TextsAssumption, SessionInit, SilentInit, StoppedInit, StreamsInit DEF DraftInv
<1>2. DraftInv /\ [Next]_vars => DraftInv'
  <2>1. SUFFICES ASSUME DraftInv, [Next]_vars PROVE DraftInv'
    OBVIOUS
  <2>2. SessionInv' /\ DeadPortIsSilent'
    BY <2>1, TextsAssumption, SessionNext, SilentNext DEF DraftInv
  <2>3. CallsAreStopped' /\ StreamsHaveClauses'
    BY <2>1, <2>2, TextsAssumption, StoppedNext, StreamsNext DEF DraftInv, SessionInv
  <2>4. QED
    BY <2>2, <2>3 DEF DraftInv
<1>3. QED
  BY <1>1, <1>2, PTL DEF Spec

(* The bind gate opens only on clauses the user has accepted since the last *)
(* input event, whatever edits, re-segmentations and late answers the       *)
(* acceptances have been carried through.                                   *)
THEOREM GateApproved == Spec => []GateMeansApproved
<1>1. DraftInv => GateMeansApproved
  BY DEF DraftInv, SessionInv, GateMeansApproved, Session, Reviewed, IsBindGateOpen
<1>2. QED
  BY <1>1, SessionHolds, PTL

(* A bind of the text of the input stays a bind of it: dispatchBindRequest  *)
(* looks at the gate again after its await, and every input event in        *)
(* between has closed it or put another object in the place.                *)
THEOREM BindAnswers == Spec => []BindAnswersInput
<1>1. DraftInv => BindAnswersInput
  BY DEF DraftInv, SessionInv, BindAnswersInput, Session, Bound
<1>2. QED
  BY <1>1, SessionHolds, PTL

(* The bind phase, request id and completion agree in every reachable state: *)
(* the gate never stays closed without a bind that Escape can cancel.       *)
THEOREM BindPhase == Spec => []BindPhaseAgrees
<1>1. DraftInv => BindPhaseAgrees
  BY DEF DraftInv, SessionInv, BindPhaseAgrees, Session, Bound
<1>2. QED
  BY <1>1, SessionHolds, PTL

(* The panel holds the tokens of the running bind and no others: those of an *)
(* earlier bind are gone, those of an abandoned one never come.             *)
THEOREM Panel == Spec => []PanelIsAnswer
<1>1. DraftInv => PanelIsAnswer
  BY DEF DraftInv, SessionInv, PanelIsAnswer, Session, Wired
<1>2. QED
  BY <1>1, SessionHolds, PTL

(* Of all the binds the worker runs one at most has an object that listens  *)
(* to it, the active one.  The others were started before the user went to  *)
(* another input or signed out, or were awaiting the storage then, or were  *)
(* awaiting it when the user edited a draft with no accepted clause left:   *)
(* every other edit, and a commit, closes the gate of a bind that awaits    *)
(* for good, and no second Cmd+Enter starts a second bind.                  *)
THEOREM BindsHeard == Spec => []BindsAreHeard
<1>1. DraftInv => BindsAreHeard
  BY DEF DraftInv, SessionInv, BindsAreHeard, Session, Heard, TypeInv, RequestsTyped
<1>2. QED
  BY <1>1, SessionHolds, PTL

(* An expansion the worker streams has its clause in the draft, but those a *)
(* commit or a detached input has cancelled and those that were asked for   *)
(* when the clause had already gone: no edit, answer, sign-out or change of *)
(* the page takes a clause away and leaves its stream running.              *)
THEOREM EnhancesHeard == Spec => []EnhancesAreHeard
<1>1. DraftInv => EnhancesAreHeard
  <2>1. SUFFICES ASSUME DraftInv, NEW r \in DOMAIN requests,
                        requests[r].verb = "ENHANCE", ~requests[r].cancelled
                 PROVE  /\ active # 0
                        /\ \E q \in Names(Current, r) :
                             requests[r].late \/ q \in ClausesOf(Current)
    BY DEF EnhancesAreHeard
  <2>2. active # 0 /\ r \in EnhancesOf(Current)
    BY <2>1 DEF DraftInv, SessionInv, Session, Heard
  <2>3. PICK q \in Positions : Current.activeEnhance[q] = r
    BY <2>2 DEF EnhancesOf
  <2>4. requests[r].late \/ q \in ClausesOf(Current)
    BY <2>1, <2>2, <2>3 DEF DraftInv, StreamsHaveClauses, Streamed, Streaming
  <2>5. QED
    BY <2>2, <2>3, <2>4 DEF Names
<1>2. QED
  BY <1>1, SessionHolds, PTL

(* On a live port a clause that waits for its expansion is being expanded.  *)
THEOREM EnhancesAnswered == Spec => []EnhancesAreAnswered
<1>1. DraftInv => EnhancesAreAnswered
  BY DEF DraftInv, SessionInv, EnhancesAreAnswered, Session, Answered
<1>2. QED
  BY <1>1, SessionHolds, PTL

(* Underlines are dimmed as soon as the input no longer holds their text.   *)
THEOREM FreshDraft == Spec => []FreshDraftIsTyped
<1>1. DraftInv => FreshDraftIsTyped
  BY DEF DraftInv, SessionInv, FreshDraftIsTyped, Session, Drafted
<1>2. QED
  BY <1>1, SessionHolds, PTL
===============================================================================
