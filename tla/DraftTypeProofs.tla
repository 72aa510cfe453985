--------------------------- MODULE DraftTypeProofs ---------------------------
(* Type correctness of DraftSession, for all texts, clauses, inputs and     *)
(* bind calls and every bound on edits and tokens.  What is hard in it is   *)
(* that the CHOOSE of a fresh number or request id always finds one: only   *)
(* finitely many are ever in use.                                           *)
EXTENDS DraftSession, FiniteSetTheorems, SequenceTheorems, WellFoundedInduction, TLAPS

-------------------------------------------------------------------------------
(* Fresh numbers.                                                           *)

(* A finite set does not use up the numbers up to its size plus one.        *)
LEMMA UnusedIsFree ==
  ASSUME NEW S, IsFiniteSet(S)
  PROVE  /\ Unused(S) \in Nat \ {0}
         /\ Unused(S) \notin S
         /\ Unused(S) <= Cardinality(S) + 1
<1> DEFINE c == Cardinality(S)
<1>1. c \in Nat
  BY FS_CardinalityType
<1>2. IsFiniteSet(1..(c + 1)) /\ Cardinality(1..(c + 1)) = c + 1
  BY <1>1, FS_Interval
<1>3. ~(1..(c + 1) \subseteq S)
  BY <1>1, <1>2, FS_Subset
<1>4. PICK n \in 1..(c + 1) : n \notin S
  BY <1>3
<1>5. Unused(S) \in 1..(c + 1) /\ Unused(S) \notin S
  BY <1>4 DEF Unused
<1>6. QED
  BY <1>1, <1>5

(* (FS_Image takes an operator, so FS_Surjection stands in for it.)          *)
LEMMA EnhancesAreFinite ==
  ASSUME TextsAssumption, NEW o
  PROVE  IsFiniteSet(EnhancesOf(o))
<1> DEFINE U == {o.activeEnhance[p] : p \in Positions}
           G == [p \in Positions |-> o.activeEnhance[p]]
<1>1. G \in Surjection(Positions, U)
  BY DEF Surjection
<1>2. IsFiniteSet(U)
  BY <1>1, FS_Surjection DEF TextsAssumption
<1>3. EnhancesOf(o) \subseteq U
  BY DEF EnhancesOf
<1>4. QED
  BY <1>2, <1>3, FS_Subset

LEMMA PairIsFinite ==
  ASSUME NEW a, NEW b
  PROVE  IsFiniteSet({a, b})
<1>1. IsFiniteSet({a})
  BY FS_Singleton
<1>2. IsFiniteSet({a} \cup {b})
  BY <1>1, FS_AddElement
<1>3. {a, b} = {a} \cup {b}
  OBVIOUS
<1>4. QED
  BY <1>2, <1>3

(* The requests the script may still name, or the worker send events of,    *)
(* are finitely many.                                                       *)
LEMMA InUseIsFinite ==
  ASSUME TextsAssumption, IsFiniteSet(DOMAIN requests)
  PROVE  IsFiniteSet(InUse)
<1>2. IsFiniteSet(EnhancesOf(Current))
  BY EnhancesAreFinite
<1>3. IsFiniteSet({Current.activeBind, Current.activeSegment})
  BY PairIsFinite
<1>4. IsFiniteSet(EnhancesOf(Current) \cup {Current.activeBind, Current.activeSegment})
  BY <1>2, <1>3, FS_Union
<1>5. IsFiniteSet({})
  BY FS_EmptySet
<1>6. IsFiniteSet(IF active = 0 THEN {}
                  ELSE EnhancesOf(Current) \cup {Current.activeBind, Current.activeSegment})
  BY <1>4, <1>5
<1>7. QED
  BY <1>6, FS_Union DEF InUse

(* A name made of a kind and an unused number is not among the given names. *)
LEMMA FreeName ==
  ASSUME NEW names, IsFiniteSet(names), NEW kind
  PROVE  \A n : n = Unused({k \in 1..(Cardinality(names) + 1) : <<kind, k>> \in names})
                   => n \in Nat \ {0} /\ <<kind, n>> \notin names
<1> DEFINE c == Cardinality(names)
           S == {k \in 1..(c + 1) : <<kind, k>> \in names}
<1>1. c \in Nat
  BY FS_CardinalityType
<1>2. IsFiniteSet(S)
  <2>1. IsFiniteSet(1..(c + 1)) /\ Cardinality(1..(c + 1)) = c + 1
    BY <1>1, FS_Interval
  <2>2. S \subseteq 1..(c + 1)
    OBVIOUS
  <2>3. QED
    BY <2>1, <2>2, FS_Subset
<1>3. Cardinality(S) <= c
  <2> DEFINE F == [k \in S |-> <<kind, k>>]
  <2>1. F \in Injection(S, names)
    BY DEF Injection, IsInjective
  <2>2. QED
    BY <2>1, <1>2, FS_Injection
<1>4. \A n : n = Unused(S) => n \in Nat \ {0} /\ n \notin S /\ n <= Cardinality(S) + 1
  <2> HIDE DEF S
  <2>1. QED
    BY <1>2, UnusedIsFree
<1>5. Cardinality(S) \in Nat
  BY <1>2, FS_CardinalityType
<1>6. ASSUME NEW n, n = Unused(S)
      PROVE  n \in Nat \ {0} /\ <<kind, n>> \notin names
  <2>1. n \in Nat \ {0} /\ n \notin S /\ n <= Cardinality(S) + 1
    BY <1>4, <1>6
  <2>2. n \in 1..(c + 1)
    <3> HIDE DEF c, S
    <3>1. QED
      BY <1>1, <1>3, <1>5, <2>1
  <2>3. QED
    BY <2>1, <2>2
<1> QED
  BY <1>6

(* A new request id is in use nowhere, as crypto.randomUUID promises.       *)
LEMMA FreshRequestIsFree ==
  ASSUME TextsAssumption, IsFiniteSet(DOMAIN requests), NEW kind \in RequestKinds
  PROVE  /\ FreshRequest(kind) \in RequestIds \ {NoRequest}
         /\ FreshRequest(kind) \notin InUse
<1> DEFINE m == Unused({k \in 1..(Cardinality(InUse) + 1) : <<kind, k>> \in InUse})
<1>1. m \in Nat \ {0} /\ <<kind, m>> \notin InUse
  BY InUseIsFinite, FreeName, Zenon
<1>2. FreshRequest(kind) = <<kind, m>>
  BY Zenon DEF FreshRequest
<1>3. <<kind, m>> \in RequestIds /\ <<kind, m>> # NoRequest
  <2> HIDE DEF m
  <2>1. QED
    BY <1>1 DEF RequestIds, NoRequest
<1>4. QED
  BY <1>1, <1>2, <1>3

-------------------------------------------------------------------------------
(* State objects keep their type.                                           *)

LEMMA NoRequestType == NoRequest \in RequestIds
BY DEF RequestIds

LEMMA BasisType == TextsAssumption => NoBasis \in Basis
BY DEF NoBasis, Basis, TextsAssumption

LEMMA NewStateType ==
  ASSUME TextsAssumption, NEW i \in Inputs, FreshBox \in Nat
  PROVE  NewState(i) \in InputState
<1>1. <<>> \in Seq(Positions)
  OBVIOUS
<1>2. QED
  BY <1>1, NoRequestType, BasisType DEF NewState, InputState, Phases, TextsAssumption

LEMMA BindCancelledType ==
  ASSUME TextsAssumption, NEW o \in InputState
  PROVE  BindCancelled(o) \in InputState
BY NoRequestType, BasisType DEF BindCancelled, InputState, Phases

LEMMA WorkClearedType ==
  ASSUME TextsAssumption, NEW o \in InputState
  PROVE  WorkCleared(o) \in InputState
BY DEF WorkCleared, InputState, Phases, TextsAssumption

LEMMA DraftClearedType ==
  ASSUME TextsAssumption, NEW o \in InputState
  PROVE  DraftCleared(o) \in InputState
<1>1. <<>> \in Seq(Positions)
  OBVIOUS
<1>2. QED
  BY <1>1, NoRequestType DEF DraftCleared, InputState, TextsAssumption

LEMMA InterruptedType ==
  ASSUME TextsAssumption, NEW o \in InputState
  PROVE  Interrupted(o) \in InputState
<1> DEFINE w == WorkCleared(BindCancelled(o))
<1>1. w \in InputState
  BY BindCancelledType, WorkClearedType
<1> HIDE DEF w
<1>2. (w.hasStaleAccepted \/ o.accepted # {}) \in BOOLEAN
  OBVIOUS
<1>3. [w EXCEPT !.draftIsStale = TRUE, !.hasStaleAccepted = @ \/ o.accepted # {}] \in InputState
  BY <1>1, <1>2 DEF InputState
<1>4. QED
  BY <1>3 DEF Interrupted, w

LEMMA CopiedType ==
  ASSUME TextsAssumption, NEW o \in InputState
  PROVE  Copied(o) \in InputState
<1>1. Interrupted(o) \in InputState /\ o.input \in Inputs
  BY InterruptedType DEF InputState
<1>2. QED
  BY <1>1 DEF Copied, InputState

LEMMA LeftBehindType ==
  ASSUME TextsAssumption, NEW o \in InputState, FreshBox \in Nat
  PROVE  LeftBehind(o) \in InputState
<1> DEFINE n == NewState(o.input)
<1>1. n \in InputState
  BY NewStateType DEF InputState
<1> HIDE DEF n
<1>2. QED
  BY <1>1 DEF LeftBehind, InputState, n

LEMMA IndexIsNat ==
  ASSUME NEW S, NEW seq \in Seq(S), NEW k \in DOMAIN seq
  PROVE  k \in Nat
<1>1. DOMAIN seq = 1..Len(seq) /\ Len(seq) \in Nat
  BY LenProperties
<1>2. k \in 1..Len(seq)
  BY <1>1
<1> DEFINE n == Len(seq)
<1> HIDE DEF n
<1>3. k \in 1..n /\ n \in Nat
  BY <1>1, <1>2 DEF n
<1>4. QED
  BY <1>3

(* A set of numbers that is not empty has a smallest.                       *)
LEMMA SmallestExists ==
  ASSUME NEW ks \in SUBSET Nat, ks # {}
  PROVE  (CHOOSE j \in ks : \A m \in ks : j <= m) \in ks
<1> DEFINE R == OpToRel(<, Nat)
<1>1. \A x, y \in Nat : <<x, y>> \in R <=> x < y
  BY DEF OpToRel
<1>2. IsWellFoundedOn(R, Nat)
  BY NatLessThanWellFounded
<1> HIDE DEF R
<1>3. PICK j \in ks : \A m \in ks : <<m, j>> \notin R
  BY <1>2, WFMin
<1>4. ASSUME NEW m \in ks
      PROVE  j <= m
  <2>1. j \in Nat /\ m \in Nat
    OBVIOUS
  <2>2. ~(m < j)
    BY <1>1, <1>3, <2>1
  <2>3. QED
    BY <2>1, <2>2
<1>5. QED
  BY <1>4

LEMMA MigratedType ==
  ASSUME TextsAssumption, NEW o \in InputState, NEW new \in Seq(Positions), OwnBox \in Nat
  PROVE  Migrated(o, new) \in InputState
<1> DEFINE kept == MigratedAcceptance(o, new)
           upstream == Undiverged(o.draftSegments, new)
           Live(p) == \/ o.activeEnhance[p] = NoRequest
                      \/ \E k \in upstream : new[k] = p
           stale == ~(kept \subseteq upstream) \/ (o.hasStaleAccepted /\ kept # {})
           enhances == [p \in Positions |-> IF Live(p) THEN o.activeEnhance[p] ELSE NoRequest]
           expansions == [p \in Positions |-> IF Live(p) THEN o.enhancedText[p] ELSE NoText]
<1>1. kept \in SUBSET Nat
  <2>1. kept \subseteq DOMAIN new
    BY DEF MigratedAcceptance
  <2>2. ASSUME NEW k \in DOMAIN new
        PROVE  k \in Nat
    BY IndexIsNat
  <2> HIDE DEF kept
  <2>3. QED
    BY <2>1, <2>2
<1>2. stale \in BOOLEAN
  OBVIOUS
<1>3. enhances \in [Positions -> RequestIds]
  BY NoRequestType DEF InputState
<1>4. expansions \in [Positions -> Texts \cup {NoText}]
  BY DEF InputState
<1>5. Migrated(o, new) = [o EXCEPT !.accepted = kept, !.box = OwnBox, !.hasStaleAccepted = stale,
                                   !.activeEnhance = enhances, !.enhancedText = expansions]
  BY DEF Migrated, InputState
<1> DEFINE e == [o EXCEPT !.accepted = kept, !.box = OwnBox, !.hasStaleAccepted = stale]
<1> HIDE DEF kept, stale, enhances, expansions, upstream, Live
<1>6. e \in InputState
  BY <1>1, <1>2 DEF InputState
<1>7. Migrated(o, new) = [e EXCEPT !.activeEnhance = enhances, !.enhancedText = expansions]
  BY <1>5
<1> HIDE DEF e
<1>8. [e EXCEPT !.activeEnhance = enhances, !.enhancedText = expansions] \in InputState
  BY <1>3, <1>4, <1>6 DEF InputState
<1>9. QED
  BY <1>7, <1>8

LEMMA RenderedType ==
  ASSUME TextsAssumption, NEW o \in InputState, NEW text \in Texts,
         NEW new \in Seq(Positions), NEW stale \in BOOLEAN
  PROVE  Rendered(o, text, new, stale) \in InputState
<1>1. [o EXCEPT !.draftText = text, !.draftSegments = new, !.draftIsStale = stale] \in InputState
  BY DEF InputState
<1>2. DraftCleared(o) \in InputState
  BY DraftClearedType
<1>3. QED
  BY <1>1, <1>2 DEF Rendered

LEMMA BindTypes ==
  ASSUME TextsAssumption, NEW o \in InputState, NEW r \in RequestIds, NEW basis \in Basis
  PROVE  /\ Binding(o, r, basis) \in InputState
         /\ BindDone(o) \in InputState
         /\ BindFailed(o) \in InputState
         /\ EnhanceEnded(o, r) \in InputState
<1>1. Binding(o, r, basis) \in InputState
  BY DEF Binding, InputState, Phases
<1>2. BindDone(o) \in InputState /\ BindFailed(o) \in InputState
  BY NoRequestType, BasisType DEF BindDone, BindFailed, InputState, Phases
<1>3. EnhanceEnded(o, r) \in InputState
  BY NoRequestType DEF EnhanceEnded, InputState
<1>4. QED
  BY <1>1, <1>2, <1>3

LEMMA ResetType ==
  ASSUME TextsAssumption, NEW o \in InputState, FreshBox \in Nat
  PROVE  Reset(o) \in InputState
<1> DEFINE e == [o EXCEPT !.accepted = {}, !.box = FreshBox, !.hasStaleAccepted = FALSE,
                  !.focused = 0, !.activeSegment = NoRequest, !.activeBind = NoRequest,
                  !.basis = NoBasis, !.pendingGhostText = 0, !.ghostStreamComplete = FALSE]
<1>1. e \in InputState
  BY NoRequestType, BasisType DEF InputState
<1> HIDE DEF e
<1>2. QED
  BY <1>1, WorkClearedType, DraftClearedType DEF Reset, e

-------------------------------------------------------------------------------
(* Requests keep their type.                                                *)

RequestsTyped(rs) ==
  /\ IsFiniteSet(DOMAIN rs)
  /\ \A r \in DOMAIN rs : r \in RequestIds \ {NoRequest} /\ rs[r] \in Request

LEMMA MarkedType ==
  ASSUME NEW q \in Request
  PROVE  /\ [q EXCEPT !.cancelled = TRUE] \in Request
         /\ [q EXCEPT !.abandoned = TRUE] \in Request
<1>1. CASE q \in [verb : {"SEGMENT"}, text : Texts]
  <2>1. [q EXCEPT !.cancelled = TRUE] = q /\ [q EXCEPT !.abandoned = TRUE] = q
    BY <1>1
  <2>2. QED
    BY <2>1
<1>2. CASE q \in [verb : {"ENHANCE"}, text : Texts, cancelled : BOOLEAN, late : BOOLEAN]
  <2>1. [q EXCEPT !.abandoned = TRUE] = q
    BY <1>2
  <2>2. [q EXCEPT !.cancelled = TRUE]
          \in [verb : {"ENHANCE"}, text : Texts, cancelled : BOOLEAN, late : BOOLEAN]
    BY <1>2
  <2>3. QED
    BY <2>1, <2>2 DEF Request
<1>3. CASE q \in [verb : {"BIND"}, tokens : 0..MaxTokens, abandoned : BOOLEAN]
  <2>1. [q EXCEPT !.cancelled = TRUE] = q
    BY <1>3
  <2>2. [q EXCEPT !.abandoned = TRUE] \in [verb : {"BIND"}, tokens : 0..MaxTokens, abandoned : BOOLEAN]
    BY <1>3
  <2>3. QED
    BY <2>1, <2>2 DEF Request
<1>4. QED
  BY <1>1, <1>2, <1>3 DEF Request

LEMMA DisownType ==
  ASSUME NEW rs, RequestsTyped(rs), NEW ended
  PROVE  RequestsTyped(Disown(rs, ended))
BY MarkedType DEF Disown, RequestsTyped

LEMMA PostType ==
  ASSUME NEW rs, RequestsTyped(rs), NEW r \in RequestIds \ {NoRequest}, NEW request \in Request
  PROVE  RequestsTyped(Post(rs, r, request))
<1>1. IsFiniteSet(DOMAIN rs \cup {r})
  BY FS_AddElement DEF RequestsTyped
<1>2. QED
  BY <1>1 DEF Post, RequestsTyped

LEMMA CancelType ==
  ASSUME NEW rs, RequestsTyped(rs), NEW ended
  PROVE  RequestsTyped(Cancel(rs, ended))
<1>1. IsFiniteSet(DOMAIN rs \ ended)
  BY FS_Subset DEF RequestsTyped
<1>2. QED
  BY <1>1 DEF Cancel, RequestsTyped

LEMMA AbandonType ==
  ASSUME NEW rs, RequestsTyped(rs), NEW o
  PROVE  RequestsTyped(Abandon(rs, o))
BY MarkedType DEF Abandon, RequestsTyped

-------------------------------------------------------------------------------
(* Type correctness.  The numbers given to objects and boxes exist because  *)
(* only finitely many are in use.                                           *)

TypeInv ==
  /\ TypeOK
  /\ IsFiniteSet(DOMAIN states)
  /\ RequestsTyped(requests)

LEMMA BoxesAreFinite ==
  ASSUME NEW S, IsFiniteSet(S), NEW objects
  PROVE  IsFiniteSet({objects[s].box : s \in S})
<1> DEFINE U == {objects[s].box : s \in S}
           G == [s \in S |-> objects[s].box]
<1>1. G \in Surjection(S, U)
  BY DEF Surjection
<1>2. QED
  BY <1>1, FS_Surjection

LEMMA FreshNumbers ==
  ASSUME TypeInv
  PROVE  /\ FreshState \in Nat \ {0}
         /\ FreshState \notin DOMAIN states
         /\ FreshBox \in Nat
         /\ OwnBox \in Nat
<1>1. FreshState \in Nat \ {0} /\ FreshState \notin DOMAIN states
  BY UnusedIsFree DEF FreshState, TypeInv
<1>2. IsFiniteSet({states[s].box : s \in DOMAIN states})
  BY BoxesAreFinite, Zenon DEF TypeInv
<1>3. FreshBox \in Nat
  <2>1. Unused({states[s].box : s \in DOMAIN states}) \in Nat \ {0}
    BY <1>2, UnusedIsFree, Zenon
  <2>2. QED
    BY <2>1 DEF FreshBox
<1>4. IsFiniteSet(DOMAIN states \ {active})
  BY FS_Subset DEF TypeInv
<1>5. IsFiniteSet({states[s].box : s \in DOMAIN states \ {active}})
  BY <1>4, BoxesAreFinite, Zenon
<1>6. OwnBox \in Nat
  <2>1. Unused({states[s].box : s \in DOMAIN states \ {active}}) \in Nat \ {0}
    BY <1>5, UnusedIsFree, Zenon
  <2>2. QED
    BY <2>1 DEF OwnBox
<1>7. QED
  BY <1>1, <1>3, <1>6

LEMMA HeldIsFinite ==
  ASSUME TextsAssumption
  PROVE  IsFiniteSet(Held)
<1>1. \A calls : IsFiniteSet({calls[c].state : c \in {d \in BindCalls : calls[d] # NoCall}})
  <2> TAKE calls
  <2> DEFINE S == {d \in BindCalls : calls[d] # NoCall}
             U == {calls[c].state : c \in S}
             G == [c \in S |-> calls[c].state]
  <2>1. IsFiniteSet(S)
    BY FS_Subset DEF TextsAssumption
  <2>2. G \in Surjection(S, U)
    BY DEF Surjection
  <2>3. QED
    BY <2>1, <2>2, FS_Surjection
<1>2. QED
  BY <1>1, Zenon DEF Held

(* What Update and Supersede leave in the variables they write.             *)
LEMMA UpdateType ==
  ASSUME TypeInv, active # 0, NEW o \in InputState, Update(o)
  PROVE  /\ DOMAIN states' = DOMAIN states
         /\ states'[active] = o
         /\ \A s \in DOMAIN states' : s \in Nat \ {0} /\ states'[s] \in InputState
<1>1. DOMAIN states' = DOMAIN states /\ active \in DOMAIN states /\ states'[active] = o
  BY DEF Update, TypeInv, TypeOK
<1>2. ASSUME NEW s \in DOMAIN states, s # active
      PROVE  states'[s] \in InputState
  <2>1. states[s] \in InputState /\ o.accepted \in SUBSET Nat
    BY <1>2 DEF TypeInv, TypeOK, InputState
  <2>2. [states[s] EXCEPT !.accepted = o.accepted] \in InputState
    BY <2>1 DEF InputState
  <2>3. states'[s] \in {[states[s] EXCEPT !.accepted = o.accepted], states[s]}
    BY <1>2 DEF Update
  <2>4. QED
    BY <2>1, <2>2, <2>3
<1>3. \A s \in DOMAIN states : s \in Nat \ {0}
  BY DEF TypeInv, TypeOK
<1>4. QED
  BY <1>1, <1>2, <1>3

LEMMA SupersedeType ==
  ASSUME TextsAssumption, TypeInv, NEW left \in InputState, NEW o \in InputState,
         Supersede(left, o)
  PROVE  /\ active' \in Nat \ {0}
         /\ active' \notin DOMAIN states
         /\ DOMAIN states' = Held \cup {active'}
         /\ IsFiniteSet(DOMAIN states')
         /\ states'[active'] = o
         /\ \A s \in DOMAIN states' : s \in Nat \ {0} /\ states'[s] \in InputState
         /\ enhanceCalls' = {}
<1>1. /\ active' = FreshState
      /\ states' = [s \in (Held \cup {active'}) |->
                       IF s = active' THEN o
                       ELSE IF s = active THEN LeftBehind(left) ELSE states[s]]
      /\ enhanceCalls' = {}
  BY DEF Supersede
<1>2. active' \in Nat \ {0} /\ active' \notin DOMAIN states
  BY <1>1, FreshNumbers
<1>3. Held \subseteq DOMAIN states
  BY DEF Held, TypeInv, TypeOK
<1>4. IsFiniteSet(Held \cup {active'})
  BY HeldIsFinite, FS_AddElement
<1>5. LeftBehind(left) \in InputState
  BY LeftBehindType, FreshNumbers
<1>6. ASSUME NEW s \in Held \cup {active'}
      PROVE  s \in Nat \ {0} /\ states'[s] \in InputState
  <2>1. CASE s = active'
    BY <2>1, <1>1, <1>2
  <2>2. CASE s # active'
    <3>1. s \in DOMAIN states
      BY <2>2, <1>3
    <3>2. states'[s] = IF s = active THEN LeftBehind(left) ELSE states[s]
      BY <2>2, <1>1
    <3>3. QED
      BY <3>1, <3>2, <1>5 DEF TypeInv, TypeOK
  <2>3. QED
    BY <2>1, <2>2
<1>7. QED
  BY <1>1, <1>2, <1>4, <1>6

LEMMA CurrentType ==
  ASSUME TypeInv, active # 0
  PROVE  /\ active \in DOMAIN states
         /\ Current \in InputState
         /\ Current.input \in Inputs
         /\ Current.source \in Inputs
BY DEF TypeInv, TypeOK, Current, InputState

(* Actions that change the active object only.                              *)
LEMMA UpdatePreservesType ==
  ASSUME TypeInv, active # 0, NEW o \in InputState, Update(o), RequestsTyped(requests'),
         enhanceCalls' \subseteq [position : Positions, text : Texts],
         port' \in {"open", "dead"}, approved' \subseteq Positions, gone' \subseteq Inputs,
         UNCHANGED <<typed, active, bindCalls, edits>>
  PROVE  TypeInv'
<1>1. /\ DOMAIN states' = DOMAIN states
      /\ \A s \in DOMAIN states' : s \in Nat \ {0} /\ states'[s] \in InputState
  BY UpdateType
<1>2. TypeOK'
  BY <1>1 DEF TypeInv, TypeOK, RequestsTyped
<1>3. QED
  BY <1>1, <1>2 DEF TypeInv

(* The calls that await go on, on the objects they were made on.            *)
CallsKept ==
  /\ bindCalls' \in [BindCalls -> BindCall]
  /\ \A c \in BindCalls :
       /\ bindCalls'[c] # NoCall <=> bindCalls[c] # NoCall
       /\ bindCalls'[c].state = bindCalls[c].state

LEMMA OutlivedKeepsCalls ==
  ASSUME TypeInv, bindCalls' = Outlived \/ UNCHANGED bindCalls
  PROVE  CallsKept
<1>1. CASE UNCHANGED bindCalls
  BY <1>1 DEF CallsKept, TypeInv, TypeOK
<1>2. CASE bindCalls' = Outlived
  <2>1. ASSUME NEW c \in BindCalls
        PROVE  /\ Outlived[c] \in BindCall
               /\ Outlived[c] # NoCall <=> bindCalls[c] # NoCall
               /\ Outlived[c].state = bindCalls[c].state
    <3>1. bindCalls[c] \in BindCall
      BY DEF TypeInv, TypeOK
    <3>2. CASE ~(active # 0 /\ bindCalls[c].state = active)
      BY <3>1, <3>2 DEF Outlived
    <3>3. CASE active # 0 /\ bindCalls[c].state = active
      <4>1. Outlived[c] = [bindCalls[c] EXCEPT !.outlived = TRUE]
        BY <3>3 DEF Outlived
      <4>2. Outlived[c] \in BindCall /\ Outlived[c].state = active
        BY <3>1, <3>3, <4>1 DEF BindCall
      <4>3. Outlived[c] # NoCall /\ bindCalls[c] # NoCall
        BY <3>3, <4>2 DEF NoCall
      <4>4. QED
        BY <3>3, <4>2, <4>3
    <3>4. QED
      BY <3>2, <3>3
  <2>2. Outlived \in [BindCalls -> BindCall]
    BY <2>1 DEF Outlived
  <2>3. QED
    BY <1>2, <2>1, <2>2 DEF CallsKept
<1>3. QED
  BY <1>1, <1>2

LEMMA SupersedePreservesType ==
  ASSUME TextsAssumption, TypeInv, NEW left \in InputState, NEW o \in InputState,
         Supersede(left, o), RequestsTyped(requests'), typed' \in [Inputs -> Texts],
         approved' = {}, edits' \in Nat, CallsKept, UNCHANGED <<gone, port>>
  PROVE  TypeInv'
<1>1. /\ active' \in Nat \ {0}
      /\ DOMAIN states' = Held \cup {active'}
      /\ IsFiniteSet(DOMAIN states')
      /\ \A s \in DOMAIN states' : s \in Nat \ {0} /\ states'[s] \in InputState
      /\ enhanceCalls' = {}
  BY SupersedeType
<1>2. \A c \in BindCalls : bindCalls'[c] # NoCall => bindCalls'[c].state \in DOMAIN states'
  BY <1>1 DEF Held, CallsKept
<1>3. TypeOK'
  BY <1>1, <1>2 DEF TypeInv, TypeOK, RequestsTyped, CallsKept
<1>4. QED
  BY <1>1, <1>3 DEF TypeInv

LEMMA InputType ==
  ASSUME TextsAssumption, TypeInv, NEW i \in Inputs, NEW text \in Texts, Input(i, text)
  PROVE  TypeInv'
<1>1. typed' \in [Inputs -> Texts] /\ edits' \in Nat /\ approved' = {}
  <2>1. /\ typed' = [typed EXCEPT ![i] = text] /\ edits' = edits + 1 /\ approved' = {}
        /\ typed \in [Inputs -> Texts] /\ edits \in Nat
    BY DEF Input, TypeInv, TypeOK
  <2>2. edits' \in Nat
    <3>1. edits \in Nat
      BY DEF TypeInv, TypeOK
    <3>2. edits' = edits + 1
      BY DEF Input
    <3>3. QED
      BY <3>1, <3>2
  <2>3. typed' \in [Inputs -> Texts]
    BY <2>1, Zenon
  <2>4. QED
    BY <2>1, <2>2, <2>3
<1>2. NewState(i) \in InputState /\ CallsKept
  <2>1. bindCalls' = Outlived \/ UNCHANGED bindCalls
    BY DEF Input
  <2>2. QED
    BY <2>1, NewStateType, FreshNumbers, OutlivedKeepsCalls
<1>3. CASE active # 0 /\ Current.input = i
  <2>1. Interrupted(Current) \in InputState
    BY <1>3, CurrentType, InterruptedType
  <2>2. Copied(Current) \in InputState
    BY <1>3, CurrentType, CopiedType
  <2>3. Supersede(Interrupted(Current), Copied(Current))
    BY <1>3 DEF Input
  <2>4. RequestsTyped(requests')
    <3>1. requests' = Cancel(requests, {Current.activeBind})
      BY <1>3 DEF Input
    <3>2. QED
      BY <3>1, CancelType DEF TypeInv
  <2>5. QED
    BY <1>1, <1>2, <2>1, <2>2, <2>3, <2>4, SupersedePreservesType DEF Input
<1>4. CASE active # 0 /\ Current.input # i
  <2>1. DraftCleared(WorkCleared(Current)) \in InputState
    BY <1>4, CurrentType, WorkClearedType, DraftClearedType
  <2>2. Supersede(DraftCleared(WorkCleared(Current)), NewState(i))
    BY <1>4 DEF Input
  <2>3. RequestsTyped(requests')
    BY <1>4, CancelType, AbandonType DEF Input, TypeInv
  <2>4. QED
    BY <1>1, <1>2, <2>1, <2>2, <2>3, SupersedePreservesType DEF Input
<1>5. CASE active = 0
  <2>1. Supersede(NewState(i), NewState(i)) /\ requests' = requests
    BY <1>5 DEF Input
  <2>2. QED
    BY <1>1, <1>2, <2>1, SupersedePreservesType DEF Input, TypeInv
<1>6. QED
  BY <1>3, <1>4, <1>5

LEMMA DebounceType ==
  ASSUME TextsAssumption, TypeInv, DebounceFires \/ DebounceResumes
  PROVE  TypeInv'
<1>1. active # 0 /\ Current \in InputState /\ typed[Current.source] \in Texts
  BY CurrentType DEF DebounceFires, DebounceResumes, TypeInv, TypeOK
<1>2. CASE DebounceFires
  <2>1. [Current EXCEPT !.debounce = "reading", !.extracted = typed[Current.source]] \in InputState
    BY <1>1 DEF InputState
  <2>2. QED
    BY <1>1, <1>2, <2>1, UpdatePreservesType DEF DebounceFires, TypeInv, TypeOK
<1>3. CASE DebounceResumes
  <2> DEFINE text == Current.extracted
             segments == Split[text]
             moved == [Migrated(Current, segments) EXCEPT
                         !.debounce = "none", !.focused = 0, !.extracted = EmptyText]
             r == FreshRequest("SEGMENT")
             drawn == Rendered([moved EXCEPT !.activeSegment = r], text, segments, FALSE)
             paused == [moved EXCEPT !.activeSegment = NoRequest, !.draftIsStale = TRUE]
             cleared == DraftCleared([moved EXCEPT !.activeSegment = NoRequest])
             Sent(o) == Cancel(requests, GivenUp(Current, o))
  <2>1. text \in Texts /\ segments \in Seq(Positions)
    BY <1>1 DEF InputState, TextsAssumption
  <2>2. moved \in InputState
    <3>1. Migrated(Current, segments) \in InputState
      BY <1>1, <2>1, MigratedType, FreshNumbers
    <3>2. QED
      BY <3>1 DEF InputState, TextsAssumption
  <2>3. r \in RequestIds \ {NoRequest}
    BY FreshRequestIsFree DEF RequestKinds, TypeInv, RequestsTyped
  <2>4. \A o : RequestsTyped(Sent(o))
    BY CancelType DEF TypeInv
  <2>5. RequestsTyped(Post(Sent(drawn), r, [verb |-> "SEGMENT", text |-> text]))
    <3>1. [verb |-> "SEGMENT", text |-> text] \in Request
      BY <2>1 DEF Request
    <3>2. RequestsTyped(Sent(drawn))
      BY <2>4
    <3> HIDE DEF text, Sent, r, drawn
    <3>3. QED
      BY <2>3, <3>1, <3>2, PostType
  <2>6. PICK context \in Contexts :
          CASE context = "ok" ->
                 /\ Update(drawn)
                 /\ requests' = Post(Sent(drawn), r, [verb |-> "SEGMENT", text |-> text])
            [] context = "paused" -> Update(paused) /\ requests' = Sent(paused)
            [] context = "signedOut" -> Update(cleared) /\ requests' = Sent(cleared)
    BY <1>3, Zenon DEF DebounceResumes
  <2>7. context \in {"ok", "paused", "signedOut"}
    BY DEF TextsAssumption
  <2>8. UNCHANGED <<typed, gone, active, bindCalls, enhanceCalls, port, approved, edits>>
    BY <1>3 DEF DebounceResumes
  <2>9. drawn \in InputState /\ paused \in InputState /\ cleared \in InputState
    <3> HIDE DEF text, segments, moved, r
    <3>1. [moved EXCEPT !.activeSegment = r] \in InputState
      BY <2>2, <2>3 DEF InputState
    <3>2. [moved EXCEPT !.activeSegment = NoRequest] \in InputState
      BY <2>2, NoRequestType DEF InputState
    <3>3. paused \in InputState
      BY <2>2, NoRequestType DEF InputState
    <3>4. QED
      BY <2>1, <3>1, <3>2, <3>3, RenderedType, DraftClearedType
  <2> HIDE DEF drawn, paused, cleared, text, r, Sent
  <2>10. \E o \in InputState : Update(o) /\ RequestsTyped(requests')
    <3>1. CASE context = "ok"
      BY <2>5, <2>6, <2>9, <3>1
    <3>2. CASE context = "paused"
      BY <2>4, <2>6, <2>9, <3>2
    <3>3. CASE context = "signedOut"
      BY <2>4, <2>6, <2>9, <3>3
    <3>4. QED
      BY <2>7, <3>1, <3>2, <3>3
  <2>11. QED
    BY <1>1, <2>8, <2>10, UpdatePreservesType DEF TypeInv, TypeOK
<1>4. QED
  BY <1>2, <1>3

(* The keys of the review.                                                  *)
LEMMA ReviewType ==
  ASSUME TextsAssumption, TypeInv,
         \/ \E direction \in {"forward", "backward"} : FocusSegment(direction)
         \/ AcceptFocusedSegment
         \/ UnacceptSegment
         \/ Escape
  PROVE  TypeInv'
<1>1. active # 0 /\ Current \in InputState
  BY CurrentType DEF FocusSegment, AcceptFocusedSegment, UnacceptSegment, Escape, Reviewing, HasKeys
<1>2. enhanceCalls \subseteq [position : Positions, text : Texts] /\ port \in {"open", "dead"}
  BY DEF TypeInv, TypeOK
<1>3. RequestsTyped(requests) /\ approved \subseteq Positions /\ gone \subseteq Inputs
  BY DEF TypeInv, TypeOK
<1>4. {Current.draftSegments[j] : j \in {Current.focused} \cap DOMAIN Current.draftSegments}
         \subseteq Positions
  <2>1. Current.draftSegments \in Seq(Positions)
    BY <1>1 DEF InputState
  <2>2. \A j \in DOMAIN Current.draftSegments : Current.draftSegments[j] \in Positions
    BY <2>1, LenProperties
  <2>3. QED
    BY <2>2
<1>5. ASSUME NEW direction \in {"forward", "backward"}, FocusSegment(direction)
      PROVE  TypeInv'
  <2> DEFINE count == Len(Current.draftSegments)
             next == IF direction = "forward"
                     THEN (Current.focused % count) + 1
                     ELSE IF Current.focused = 0 THEN count
                          ELSE ((Current.focused + count - 2) % count) + 1
  <2>1. count \in Nat /\ count # 0
    <3>1. Current.draftSegments \in Seq(Positions) /\ Current.draftSegments # <<>>
      BY <1>1, <1>5 DEF InputState, FocusSegment, Reviewing, HasKeys
    <3>2. QED
      BY <3>1, EmptySeq, LenProperties
  <2>2. next \in Nat
    <3>1. Current.focused \in Nat
      BY <1>1 DEF InputState
    <3> HIDE DEF count
    <3>2. \A n \in Int : n % count \in Nat
      BY <2>1
    <3>3. Current.focused + count - 2 \in Int
      BY <2>1, <3>1
    <3>4. Current.focused % count \in Nat
      BY <3>1, <3>2
    <3>5. (Current.focused + count - 2) % count \in Nat
      BY <3>2, <3>3
    <3>6. QED
      BY <2>1, <3>4, <3>5
  <2>3. Update([Current EXCEPT !.focused = next])
    BY <1>5, Zenon DEF FocusSegment
  <2> HIDE DEF next
  <2>4. [Current EXCEPT !.focused = next] \in InputState
    BY <1>1, <2>2 DEF InputState
  <2>5. QED
    BY <1>1, <1>2, <1>3, <1>5, <2>3, <2>4, UpdatePreservesType DEF FocusSegment
<1>6. CASE AcceptFocusedSegment
  <2> DEFINE k == Current.focused
             set == Current.accepted \cup {k}
             next == NextUnaccepted(Current, set, k)
  <2>1. k \in Nat /\ set \in SUBSET Nat
    BY <1>1 DEF InputState
  <2>2. next \in Nat
    <3> DEFINE after == {j \in DOMAIN Current.draftSegments : j > k} \ set
               before == (1..k) \ set
    <3>1. \A ks \in SUBSET Nat : ks # {} => (CHOOSE j \in ks : \A m \in ks : j <= m) \in Nat
      BY SmallestExists
    <3>2. after \in SUBSET Nat /\ before \in SUBSET Nat
      <4>1. Current.draftSegments \in Seq(Positions)
        BY <1>1 DEF InputState
      <4>2. QED
        BY <2>1, <4>1, IndexIsNat
    <3>3. next = IF after # {} THEN CHOOSE j \in after : \A m \in after : j <= m
                 ELSE IF before # {} THEN CHOOSE j \in before : \A m \in before : j <= m ELSE k
      BY Zenon DEF NextUnaccepted
    <3> HIDE DEF after, before, next, k
    <3>4. QED
      BY <2>1, <3>1, <3>2, <3>3
  <2>3. /\ Update([Current EXCEPT !.accepted = set, !.focused = next])
        /\ approved' = approved \cup
             {Current.draftSegments[j] : j \in {k} \cap DOMAIN Current.draftSegments}
    BY <1>6, Zenon DEF AcceptFocusedSegment
  <2>4. approved' \subseteq Positions
    BY <1>3, <1>4, <2>3
  <2> HIDE DEF k, set, next
  <2>5. [Current EXCEPT !.accepted = set, !.focused = next] \in InputState
    BY <1>1, <2>1, <2>2 DEF InputState
  <2>6. QED
    BY <1>1, <1>2, <1>3, <1>6, <2>3, <2>4, <2>5, UpdatePreservesType DEF AcceptFocusedSegment
<1>7. CASE UnacceptSegment
  <2> DEFINE set == Current.accepted \ {Current.focused}
             stale == Current.hasStaleAccepted /\ set # {}
             o == [Current EXCEPT !.accepted = set, !.hasStaleAccepted = stale]
  <2>1. Update(o)
    BY <1>7, <1>1 DEF UnacceptSegment, InputState
  <2>2. set \in SUBSET Nat /\ stale \in BOOLEAN
    BY <1>1 DEF InputState
  <2>3. approved' \subseteq Positions
    BY <1>3, <1>7 DEF UnacceptSegment
  <2>4. o \in InputState
    <3> HIDE DEF set, stale
    <3>1. QED
      BY <1>1, <2>2 DEF InputState
  <2> HIDE DEF o
  <2>5. QED
    BY <1>1, <1>2, <1>3, <1>7, <2>1, <2>3, <2>4, UpdatePreservesType DEF UnacceptSegment
<1>8. CASE Escape
  <2>1. CASE Current.activeBind # NoRequest
    <3>1. RequestsTyped(requests') /\ Update(BindCancelled(Current))
      BY <1>3, <1>8, <2>1, CancelType DEF Escape
    <3>2. BindCancelled(Current) \in InputState
      BY <1>1, BindCancelledType
    <3>3. QED
      BY <1>1, <1>2, <1>3, <1>8, <3>1, <3>2, UpdatePreservesType DEF Escape
  <2>2. CASE Current.activeBind = NoRequest
    <3>1. Update([Current EXCEPT !.focused = 0]) /\ requests' = requests
      BY <1>8, <2>2 DEF Escape
    <3>2. [Current EXCEPT !.focused = 0] \in InputState
      BY <1>1 DEF InputState
    <3>3. QED
      BY <1>1, <1>2, <1>3, <1>8, <3>1, <3>2, UpdatePreservesType DEF Escape
  <2>3. QED
    BY <2>1, <2>2
<1>9. QED
  BY <1>5, <1>6, <1>7, <1>8

(* Calls of dispatchBindRequest, before and after their await.              *)
LEMMA DispatchType ==
  ASSUME TypeInv, NEW c \in BindCalls, DispatchBind(c)
  PROVE  TypeInv'
<1> DEFINE basis == [text |-> Current.draftText,
                     fresh |-> Current.draftText = typed[Current.source],
                     accepted |-> {Current.draftSegments[k] :
                                     k \in Current.accepted \cap DOMAIN Current.draftSegments}]
           call == [state |-> active, basis |-> basis, outlived |-> FALSE]
<1>1. active # 0 /\ active \in DOMAIN states /\ Current \in InputState /\ active \in Nat
  BY CurrentType DEF DispatchBind, Reviewing, HasKeys, TypeInv, TypeOK
<1>2. basis \in Basis
  <2>1. Current.draftSegments \in Seq(Positions) /\ Current.draftText \in Texts
    BY <1>1 DEF InputState
  <2>2. \A k \in DOMAIN Current.draftSegments : Current.draftSegments[k] \in Positions
    BY <2>1, LenProperties
  <2>3. QED
    BY <2>1, <2>2 DEF Basis
<1>3. bindCalls' = [bindCalls EXCEPT ![c] = call]
  BY Zenon DEF DispatchBind
<1>4. call \in BindCall
  BY <1>1, <1>2 DEF BindCall
<1> HIDE DEF basis
<1>5. bindCalls' \in [BindCalls -> BindCall]
  BY <1>3, <1>4 DEF TypeInv, TypeOK
<1>6. \A d \in BindCalls : bindCalls'[d] # NoCall => bindCalls'[d].state \in DOMAIN states
  BY <1>1, <1>3 DEF TypeInv, TypeOK
<1>7. UNCHANGED <<typed, gone, active, states, enhanceCalls, requests, port, approved, edits>>
  BY DEF DispatchBind
<1>8. QED
  BY <1>5, <1>6, <1>7 DEF TypeInv, TypeOK

LEMMA ForgetType ==
  ASSUME TextsAssumption, TypeInv, NEW c \in BindCalls
  PROVE  /\ Forget(c) \subseteq DOMAIN states
         /\ IsFiniteSet(Forget(c))
         /\ active # 0 => active \in Forget(c)
         /\ \A d \in BindCalls :
              [bindCalls EXCEPT ![c] = NoCall][d] # NoCall =>
                /\ [bindCalls EXCEPT ![c] = NoCall][d] = bindCalls[d]
                /\ bindCalls[d].state \in Forget(c)
<1> DEFINE calls == [bindCalls EXCEPT ![c] = NoCall]
           held == {calls[d].state : d \in {e \in BindCalls : calls[e] # NoCall}}
<1>1. Forget(c) = held \cup ({active} \ {0})
  BY DEF Forget
<1>2. \A d \in BindCalls : calls[d] # NoCall => calls[d] = bindCalls[d]
  BY DEF TypeInv, TypeOK
<1>3. held \subseteq DOMAIN states
  BY <1>2 DEF TypeInv, TypeOK
<1>4. Forget(c) \subseteq DOMAIN states
  BY <1>1, <1>3 DEF TypeInv, TypeOK
<1>5. IsFiniteSet(Forget(c))
  BY <1>4, FS_Subset DEF TypeInv
<1>6. QED
  BY <1>1, <1>2, <1>4, <1>5

LEMMA BindResumesType ==
  ASSUME TextsAssumption, TypeInv, NEW c \in BindCalls, BindResumes(c)
  PROVE  TypeInv'
<1> DEFINE s == bindCalls[c].state
           r == FreshRequest("BIND")
           o == Binding(states[s], r, bindCalls[c].basis)
<1>1. s \in DOMAIN states /\ bindCalls[c] \in BindCall
  BY DEF BindResumes, TypeInv, TypeOK
<1>2. r \in RequestIds \ {NoRequest}
  BY FreshRequestIsFree DEF RequestKinds, TypeInv, RequestsTyped
<1>3. o \in InputState
  <2>1. states[s] \in InputState /\ bindCalls[c].basis \in Basis
    BY <1>1 DEF BindCall, TypeInv, TypeOK
  <2> HIDE DEF s, r
  <2>2. QED
    BY <1>2, <2>1, BindTypes DEF o
<1>4. /\ bindCalls' = [bindCalls EXCEPT ![c] = NoCall]
      /\ UNCHANGED <<typed, gone, active, enhanceCalls, port, approved, edits>>
  BY DEF BindResumes
<1>5. /\ DOMAIN states' = Forget(c)
      /\ \A q \in Forget(c) : states'[q] \in {o, states[q]}
      /\ RequestsTyped(requests')
  <2>1. CASE /\ states' = [q \in Forget(c) |-> IF q = s THEN o ELSE states[q]]
             /\ requests' = Post(requests, r, [verb |-> "BIND", tokens |-> 0,
                                              abandoned |-> bindCalls[c].outlived])
    <3>1. [verb |-> "BIND", tokens |-> 0, abandoned |-> bindCalls[c].outlived] \in Request
      BY <1>1 DEF BindCall, Request, TextsAssumption
    <3>2. RequestsTyped(requests')
      <4> HIDE DEF r
      <4>1. QED
        BY <1>2, <2>1, <3>1, PostType DEF TypeInv
    <3>3. QED
      BY <2>1, <3>2
  <2>2. CASE states' = [q \in Forget(c) |-> states[q]] /\ requests' = requests
    BY <2>2 DEF TypeInv
  <2>3. QED
    BY <2>1, <2>2, Zenon DEF BindResumes
<1> HIDE DEF o
<1>6. \A q \in DOMAIN states' : q \in Nat \ {0} /\ states'[q] \in InputState
  BY <1>3, <1>5, ForgetType DEF TypeInv, TypeOK
<1>7. bindCalls' \in [BindCalls -> BindCall]
  <2>1. NoCall \in BindCall
    BY BasisType DEF NoCall, BindCall
  <2>2. QED
    BY <1>4, <2>1 DEF TypeInv, TypeOK
<1>8. \A d \in BindCalls : bindCalls'[d] # NoCall => bindCalls'[d].state \in DOMAIN states'
  BY <1>4, <1>5, ForgetType
<1>9. active # 0 => active \in DOMAIN states'
  BY <1>5, ForgetType
<1>10. TypeOK'
  BY <1>4, <1>5, <1>6, <1>7, <1>8, <1>9 DEF TypeInv, TypeOK, RequestsTyped
<1>11. QED
  BY <1>5, <1>10, ForgetType DEF TypeInv

LEMMA CommitType ==
  ASSUME TextsAssumption, TypeInv, CommitGhostText
  PROVE  TypeInv'
<1>1. active # 0 /\ Current \in InputState /\ Current.input \in Inputs
  BY CurrentType DEF CommitGhostText, HasKeys
<1>2. typed' \in [Inputs -> Texts]
  <2>1. PICK text \in Texts : typed' = [typed EXCEPT ![Current.input] = text]
    BY DEF CommitGhostText
  <2>2. QED
    BY <2>1 DEF TypeInv, TypeOK
<1>3. edits' \in Nat /\ approved' = {}
  BY DEF CommitGhostText, TypeInv, TypeOK
<1>4. Interrupted(Current) \in InputState
  BY <1>1, InterruptedType
<1>5. Copied(Current) \in InputState
  BY <1>1, CopiedType
<1>6. Reset(Interrupted(Current)) \in InputState
  BY <1>4, ResetType, FreshNumbers
<1>7. RequestsTyped(requests')
  BY DisownType DEF CommitGhostText, TypeInv
<1>8. Supersede(Reset(Interrupted(Current)), Copied(Current))
  BY DEF CommitGhostText
<1>9. CallsKept
  BY OutlivedKeepsCalls DEF CommitGhostText
<1>10. QED
  BY <1>2, <1>3, <1>5, <1>6, <1>7, <1>8, <1>9, SupersedePreservesType DEF CommitGhostText

(* Messages of the bridge.                                                  *)
LEMMA AnswersType ==
  ASSUME TextsAssumption, NEW r, requests[r].text \in Texts, NEW new \in Answers(r)
  PROVE  new \in Seq(Positions)
<1>1. CASE new = <<>>
  BY <1>1
<1>2. CASE new \in Sections[requests[r].text]
  BY <1>2 DEF TextsAssumption
<1>3. QED
  BY <1>1, <1>2 DEF Answers

LEMMA SegmentsType ==
  ASSUME TextsAssumption, TypeInv, NEW r \in DOMAIN requests, ReceiveSegments(r)
  PROVE  TypeInv'
<1> DEFINE o == [Current EXCEPT !.activeSegment = NoRequest]
           M(new) == Rendered(Migrated(o, new), o.draftText, new, o.draftIsStale)
           E(new) == {[position |-> p, text |-> o.draftText] :
                        p \in {q \in {new[k] : k \in DOMAIN new} :
                                 /\ M(new).activeEnhance[q] = NoRequest
                                 /\ M(new).enhancedText[q] = NoText}}
<1>1. requests[r].text \in Texts
  <2>1. requests[r] \in Request /\ requests[r].verb = "SEGMENT"
    BY DEF TypeInv, RequestsTyped, ReceiveSegments
  <2>2. QED
    BY <2>1 DEF Request
<1>2. UNCHANGED <<typed, gone, active, bindCalls, port, approved, edits>>
  BY DEF ReceiveSegments
<1>3. \A ended : RequestsTyped(Cancel(requests, ended))
  BY CancelType DEF TypeInv
<1>4. RequestsTyped(requests) /\ enhanceCalls \subseteq [position : Positions, text : Texts]
  BY DEF TypeInv, TypeOK
<1>5. CASE active # 0 /\ Current.activeSegment = r
  <2>1. Current \in InputState
    BY <1>5, CurrentType
  <2>2. o \in InputState
    BY <2>1, NoRequestType DEF InputState
  <2>3. PICK new \in Answers(r) :
          IF new = <<>>
          THEN Update(o) /\ requests' = Ended(r) /\ UNCHANGED enhanceCalls
          ELSE /\ Update(M(new))
               /\ requests' = Cancel(requests, {r} \cup GivenUp(o, M(new)))
               /\ enhanceCalls' = enhanceCalls \cup E(new)
    BY <1>5, Zenon DEF ReceiveSegments
  <2>4. new \in Seq(Positions)
    BY <1>1, AnswersType
  <2>5. CASE new = <<>>
    <3>1. Update(o) /\ requests' = Cancel(requests, {r}) /\ enhanceCalls' = enhanceCalls
      BY <2>3, <2>5 DEF Ended
    <3>2. QED
      BY <1>2, <1>3, <1>4, <1>5, <2>2, <3>1, UpdatePreservesType DEF TypeInv, TypeOK
  <2>6. CASE new # <<>>
    <3>1. Update(M(new)) /\ RequestsTyped(requests') /\ enhanceCalls' = enhanceCalls \cup E(new)
      BY <1>3, <2>3, <2>6
    <3>2. M(new) \in InputState
      <4>1. Migrated(o, new) \in InputState
        BY <2>4, <2>2, MigratedType, FreshNumbers
      <4>2. o.draftText \in Texts /\ o.draftIsStale \in BOOLEAN
        BY <2>2 DEF InputState
      <4> HIDE DEF o
      <4>3. QED
        BY <2>4, <4>1, <4>2, RenderedType
    <3>3. E(new) \subseteq [position : Positions, text : Texts]
      <4>1. \A k \in DOMAIN new : new[k] \in Positions
        BY <2>4, LenProperties
      <4>2. o.draftText \in Texts
        BY <2>2 DEF InputState
      <4> HIDE DEF o, M
      <4>3. QED
        BY <4>1, <4>2
    <3> HIDE DEF o, M, E
    <3>4. QED
      BY <1>2, <1>4, <1>5, <3>1, <3>2, <3>3, UpdatePreservesType DEF TypeInv, TypeOK
  <2>7. QED
    BY <2>5, <2>6
<1>6. CASE ~(active # 0 /\ Current.activeSegment = r)
  <2>1. requests' = Cancel(requests, {r}) /\ UNCHANGED <<states, enhanceCalls>>
    BY <1>6, Zenon DEF ReceiveSegments, Ended
  <2>2. QED
    BY <1>2, <1>3, <2>1 DEF TypeInv, TypeOK, RequestsTyped
<1>7. QED
  BY <1>5, <1>6

(* What changes neither objects nor calls.                                  *)
LEMMA RequestsChangeType ==
  ASSUME TypeInv, RequestsTyped(requests'), port' \in {"open", "dead"},
         UNCHANGED <<typed, gone, active, states, bindCalls, enhanceCalls, approved, edits>>
  PROVE  TypeInv'
BY DEF TypeInv, TypeOK, RequestsTyped

LEMMA EnhanceResumesType ==
  ASSUME TextsAssumption, TypeInv, active # 0, NEW call \in enhanceCalls, EnhanceResumes(call)
  PROVE  TypeInv'
<1> DEFINE p == call.position
           r == FreshRequest(p)
           o == [Current EXCEPT !.activeEnhance[p] = r]
<1>1. p \in Positions /\ call.text \in Texts /\ Current \in InputState
  BY CurrentType DEF TypeInv, TypeOK
<1>2. r \in RequestIds \ {NoRequest}
  BY <1>1, FreshRequestIsFree DEF RequestKinds, TypeInv, RequestsTyped
<1>3. /\ enhanceCalls' \subseteq [position : Positions, text : Texts]
      /\ UNCHANGED <<typed, gone, active, bindCalls, port, approved, edits>>
  BY DEF EnhanceResumes, TypeInv, TypeOK
<1>4. CASE Update(o) /\ requests' = Post(requests, r,
             [verb |-> "ENHANCE", text |-> call.text, cancelled |-> FALSE,
              late |-> p \notin ClausesOf(Current)])
  <2>1. [verb |-> "ENHANCE", text |-> call.text, cancelled |-> FALSE,
         late |-> p \notin ClausesOf(Current)] \in Request
    BY <1>1 DEF Request
  <2> HIDE DEF p, r
  <2>2. RequestsTyped(requests')
    BY <1>2, <1>4, <2>1, PostType DEF TypeInv
  <2>3. o \in InputState
    BY <1>1, <1>2 DEF InputState
  <2> HIDE DEF o
  <2>4. QED
    BY <1>3, <1>4, <2>2, <2>3, UpdatePreservesType DEF TypeInv, TypeOK
<1>5. CASE UNCHANGED <<states, requests>>
  BY <1>3, <1>5 DEF TypeInv, TypeOK, RequestsTyped
<1>6. QED
  BY <1>4, <1>5, Zenon DEF EnhanceResumes

LEMMA TokenType ==
  ASSUME TextsAssumption, TypeInv, NEW r \in DOMAIN requests,
         ReceiveEnhanceToken(r) \/ ReceiveBindToken(r)
  PROVE  TypeInv'
<1>1. requests[r] \in Request
  BY DEF TypeInv, RequestsTyped
<1>2. active # 0 => Current \in InputState
  BY CurrentType
<1>3. CASE ReceiveEnhanceToken(r)
  <2>1. active # 0 /\ requests[r].text \in Texts
    BY <1>1, <1>3 DEF ReceiveEnhanceToken, Request
  <2>2. PICK p \in Names(Current, r) :
          Update([Current EXCEPT !.enhancedText[p] = IF @ = NoText THEN requests[r].text ELSE @])
    BY <1>3 DEF ReceiveEnhanceToken
  <2>3. p \in Positions
    BY <2>2 DEF Names
  <2>4. [Current EXCEPT !.enhancedText[p] = IF @ = NoText THEN requests[r].text ELSE @] \in InputState
    BY <1>2, <2>1, <2>3 DEF InputState
  <2>5. QED
    BY <1>3, <2>1, <2>2, <2>4, UpdatePreservesType DEF ReceiveEnhanceToken, TypeInv, TypeOK
<1>4. CASE ReceiveBindToken(r)
  <2>1. requests[r] \in [verb : {"BIND"}, tokens : 0..MaxTokens, abandoned : BOOLEAN]
    BY <1>1, <1>4 DEF ReceiveBindToken, Request
  <2>2. [requests[r] EXCEPT !.tokens = @ + 1] \in Request
    <3>1. requests[r].tokens + 1 \in 0..MaxTokens
      BY <1>4, <2>1 DEF ReceiveBindToken, TextsAssumption
    <3>2. QED
      BY <2>1, <3>1 DEF Request
  <2>3. requests' = [requests EXCEPT ![r] = [requests[r] EXCEPT !.tokens = @ + 1]]
    BY <1>4, Zenon DEF ReceiveBindToken
  <2>4. RequestsTyped(requests')
    BY <2>2, <2>3 DEF TypeInv, RequestsTyped
  <2>5. active # 0
    BY <1>4 DEF ReceiveBindToken
  <2>6. [Current EXCEPT !.bindPhase = "BINDING", !.pendingGhostText = @ + 1] \in InputState
    <3> DEFINE n == Current.pendingGhostText + 1
    <3>1. n \in Nat
      BY <1>2, <2>5 DEF InputState
    <3> HIDE DEF n
    <3>2. [Current EXCEPT !.bindPhase = "BINDING", !.pendingGhostText = n] \in InputState
      BY <1>2, <2>5, <3>1 DEF InputState, Phases
    <3>3. QED
      BY <3>2 DEF n
  <2>7. Update([Current EXCEPT !.bindPhase = "BINDING", !.pendingGhostText = @ + 1])
    BY <1>4 DEF ReceiveBindToken
  <2>8. QED
    BY <1>4, <2>4, <2>5, <2>6, <2>7, UpdatePreservesType DEF ReceiveBindToken, TypeInv, TypeOK
<1>5. QED
  BY <1>3, <1>4

LEMMA EndType ==
  ASSUME TextsAssumption, TypeInv, NEW r \in DOMAIN requests, ReceiveDone(r) \/ ReceiveError(r)
  PROVE  TypeInv'
<1>1. RequestsTyped(requests')
  BY CancelType DEF ReceiveDone, ReceiveError, Ended, TypeInv
<1>2. UNCHANGED <<typed, gone, active, bindCalls, enhanceCalls, port, approved, edits>>
  BY DEF ReceiveDone, ReceiveError
<1>3. CASE active = 0
  <2>1. UNCHANGED states
    BY <1>3 DEF ReceiveDone, ReceiveError
  <2>2. QED
    BY <1>1, <1>2, <2>1, RequestsChangeType DEF TypeInv, TypeOK
<1>4. CASE active # 0
  <2>1. Current \in InputState /\ r \in RequestIds
    BY <1>4, CurrentType DEF TypeInv, TypeOK
  <2>2. NoBasis \in Basis
    BY BasisType
  <2>3. /\ BindDone(Current) \in InputState
        /\ BindFailed(Current) \in InputState
        /\ EnhanceEnded(Current, r) \in InputState
    BY <2>1, <2>2, BindTypes
  <2>4. [Current EXCEPT !.activeSegment = NoRequest] \in InputState
    BY <2>1, NoRequestType DEF InputState
  <2>5. PICK o \in {BindDone(Current), BindFailed(Current), EnhanceEnded(Current, r),
                    [Current EXCEPT !.activeSegment = NoRequest]} : Update(o)
    BY <1>4 DEF ReceiveDone, ReceiveError
  <2>6. o \in InputState
    BY <2>3, <2>4
  <2>7. QED
    BY <1>1, <1>2, <1>4, <2>5, <2>6, UpdatePreservesType DEF TypeInv, TypeOK
<1>5. QED
  BY <1>3, <1>4

(* Loss of the port and of the session.                                     *)
LEMMA LossType ==
  ASSUME TextsAssumption, TypeInv, WorkerDies \/ PortDisconnects \/ SignOut
  PROVE  TypeInv'
<1>1. CASE WorkerDies
  <2>1. RequestsTyped(requests')
    <3>1. IsFiniteSet({})
      BY FS_EmptySet
    <3>2. DOMAIN requests' = {}
      BY <1>1 DEF WorkerDies, NoRequests
    <3>3. QED
      BY <3>1, <3>2 DEF RequestsTyped
  <2>2. QED
    BY <1>1, <2>1, RequestsChangeType DEF WorkerDies
<1>2. CASE PortDisconnects
  <2> DEFINE o == [Current EXCEPT !.activeEnhance = [p \in Positions |-> NoRequest]]
  <2>1. CASE active = 0
    BY <1>2, <2>1, RequestsChangeType DEF PortDisconnects, TypeInv
  <2>2. CASE active # 0
    <3>1. o \in InputState
      BY <2>2, CurrentType, NoRequestType DEF InputState
    <3>2. Update(o)
      BY <1>2, <2>2 DEF PortDisconnects
    <3>3. QED
      BY <1>2, <2>2, <3>1, <3>2, UpdatePreservesType DEF PortDisconnects, TypeInv, TypeOK
  <2>3. QED
    BY <2>1, <2>2
<1>3. CASE SignOut
  <2>1. active # 0 /\ Current \in InputState
    BY <1>3, CurrentType DEF SignOut
  <2>2. LeftBehind(WorkCleared(Current)) \in InputState
    BY <2>1, WorkClearedType, LeftBehindType, FreshNumbers
  <2>3. RequestsTyped(requests')
    BY <1>3, CancelType, AbandonType DEF SignOut, TypeInv
  <2>4. Held \subseteq DOMAIN states
    BY DEF Held, TypeInv, TypeOK
  <2>5. /\ DOMAIN states' = Held
        /\ \A s \in Held : states'[s] \in {LeftBehind(WorkCleared(Current)), states[s]}
    BY <1>3 DEF SignOut
  <2>6. \A s \in DOMAIN states' : s \in Nat \ {0} /\ states'[s] \in InputState
    BY <2>2, <2>4, <2>5 DEF TypeInv, TypeOK
  <2>7. CallsKept
    BY <1>3, OutlivedKeepsCalls DEF SignOut
  <2>8. TypeOK'
    <3>1. \A c \in BindCalls : bindCalls'[c] # NoCall => bindCalls'[c].state \in DOMAIN states'
      BY <2>5, <2>7 DEF Held, CallsKept
    <3>2. QED
      BY <1>3, <2>3, <2>6, <2>7, <3>1 DEF SignOut, TypeInv, TypeOK, RequestsTyped, CallsKept
  <2>9. QED
    BY <2>3, <2>5, <2>8, HeldIsFinite DEF TypeInv
<1>4. QED
  BY <1>1, <1>2, <1>3

(* The page takes inputs away and adds others.                              *)
LEMMA PageType ==
  ASSUME TextsAssumption, TypeInv, PageChanges
  PROVE  TypeInv'
<1>1. active # 0 /\ Current \in InputState
  BY CurrentType DEF PageChanges
<1>2. /\ gone' \subseteq Inputs
      /\ UNCHANGED <<typed, active, bindCalls, enhanceCalls, port, approved, edits>>
  BY DEF PageChanges
<1>3. \A ended : RequestsTyped(Cancel(requests, ended))
  BY CancelType DEF TypeInv
<1>4. ASSUME NEW o \in InputState, Update(o), RequestsTyped(requests')
      PROVE  TypeInv'
  BY <1>1, <1>2, <1>4, UpdatePreservesType DEF TypeInv, TypeOK
<1>5. ASSUME UNCHANGED states, RequestsTyped(requests')
      PROVE  TypeInv'
  BY <1>2, <1>5 DEF TypeInv, TypeOK, RequestsTyped
<1>6. CASE Detach
  <2> DEFINE o == DraftCleared(BindCancelled(WorkCleared(Current)))
  <2>1. o \in InputState
    BY <1>1, WorkClearedType, BindCancelledType, DraftClearedType
  <2>2. Update(o) /\ RequestsTyped(requests')
    BY <1>3, <1>6 DEF Detach
  <2> HIDE DEF o
  <2>3. QED
    BY <1>4, <2>1, <2>2
<1>7. ASSUME NEW left, Reattach(left)
      PROVE  TypeInv'
  <2>1. PICK j \in gone \ left : Update([Current EXCEPT !.input = j])
    BY <1>7 DEF Reattach
  <2>2. [Current EXCEPT !.input = j] \in InputState
    BY <1>1 DEF InputState, TypeInv, TypeOK
  <2>3. RequestsTyped(requests')
    BY <1>7 DEF Reattach, TypeInv
  <2>4. QED
    BY <1>4, <2>1, <2>2, <2>3
<1>8. CASE Orphan
  <2>1. DraftCleared(Current) \in InputState
    BY <1>1, DraftClearedType
  <2>2. CASE Update(DraftCleared(Current)) /\ RequestsTyped(requests')
    BY <1>4, <2>1, <2>2
  <2>3. RequestsTyped(requests')
    BY <1>3, <1>8, DisownType DEF Orphan, TypeInv
  <2>4. QED
    BY <1>5, <1>8, <2>2, <2>3 DEF Orphan
<1>9. CASE UNCHANGED <<states, requests>>
  BY <1>5, <1>9 DEF TypeInv
<1>10. QED
  BY <1>6, <1>7, <1>8, <1>9 DEF PageChanges

LEMMA TypeInit == TextsAssumption /\ Init => TypeInv
<1>1. IsFiniteSet({})
  BY FS_EmptySet
<1>2. NoCall \in BindCall
  BY TextsAssumption, BasisType DEF NoCall, BindCall
<1>3. ASSUME TextsAssumption, Init
      PROVE  TypeInv
  <2>1. DOMAIN states = {} /\ DOMAIN requests = {}
    BY <1>3 DEF Init, NoRequests
  <2>2. RequestsTyped(requests)
    BY <1>1, <2>1 DEF RequestsTyped
  <2>3. TypeOK
    BY <1>2, <1>3, <2>1 DEF TypeOK, Init, TextsAssumption
  <2>4. QED
    BY <1>1, <2>1, <2>2, <2>3 DEF TypeInv
<1>4. QED
  BY <1>3

(* A call of dispatchEnhanceRequest waits only on the active object.        *)
EnhanceCallsAreActive == enhanceCalls # {} => active # 0

LEMMA TypeNext ==
  ASSUME TextsAssumption, TypeInv, EnhanceCallsAreActive, [Next]_vars
  PROVE  TypeInv'
<1>1. CASE Edit
  BY <1>1, InputType DEF Edit
<1>2. CASE DebounceFires \/ DebounceResumes
  BY <1>2, DebounceType
<1>3. CASE \/ \E direction \in {"forward", "backward"} : FocusSegment(direction)
           \/ AcceptFocusedSegment
           \/ UnacceptSegment
           \/ Escape
  BY <1>3, ReviewType
<1>4. CASE \E c \in BindCalls : DispatchBind(c) \/ BindResumes(c)
  BY <1>4, DispatchType, BindResumesType
<1>5. CASE CommitGhostText
  BY <1>5, CommitType
<1>6. CASE \E call \in enhanceCalls : EnhanceResumes(call)
  BY <1>6, EnhanceResumesType DEF EnhanceCallsAreActive
<1>7. CASE \E r \in DOMAIN requests : Receive(r)
  BY <1>7, SegmentsType, TokenType, EndType DEF Receive
<1>8. CASE WorkerDies \/ PortDisconnects \/ SignOut
  BY <1>8, LossType
<1>9. CASE PageChanges
  BY <1>9, PageType
<1>10. CASE UNCHANGED vars
  BY <1>10 DEF vars, TypeInv, TypeOK, RequestsTyped
<1>11. QED
  BY <1>1, <1>2, <1>3, <1>4, <1>5, <1>6, <1>7, <1>8, <1>9, <1>10 DEF Next

LEMMA CallsInit == Init => EnhanceCallsAreActive
BY DEF Init, EnhanceCallsAreActive

LEMMA CallsNext ==
  ASSUME TextsAssumption, TypeInv, EnhanceCallsAreActive, [Next]_vars
  PROVE  EnhanceCallsAreActive'
<1>1. CASE Edit \/ CommitGhostText \/ SignOut
  BY <1>1 DEF Edit, Input, CommitGhostText, SignOut, Supersede, EnhanceCallsAreActive
<1>2. CASE \E r \in DOMAIN requests : ReceiveSegments(r)
  <2>1. PICK r \in DOMAIN requests : ReceiveSegments(r)
    BY <1>2
  <2>2. active' = active /\ (enhanceCalls' = enhanceCalls \/ active # 0)
    BY <2>1 DEF ReceiveSegments
  <2>3. QED
    BY <2>2 DEF EnhanceCallsAreActive
<1>3. CASE \E call \in enhanceCalls : EnhanceResumes(call)
  BY <1>3 DEF EnhanceResumes, EnhanceCallsAreActive
<1>4. CASE UNCHANGED <<active, enhanceCalls>>
  BY <1>4 DEF EnhanceCallsAreActive
<1>5. QED
  <2>1. CASE \/ DebounceFires \/ DebounceResumes
             \/ \E direction \in {"forward", "backward"} : FocusSegment(direction)
             \/ AcceptFocusedSegment \/ UnacceptSegment \/ Escape
             \/ \E c \in BindCalls : DispatchBind(c) \/ BindResumes(c)
             \/ WorkerDies \/ PortDisconnects \/ PageChanges \/ UNCHANGED vars
    <3>1. UNCHANGED <<active, enhanceCalls>>
      BY <2>1 DEF DebounceFires, DebounceResumes, FocusSegment, AcceptFocusedSegment, UnacceptSegment,
                  Escape, DispatchBind, BindResumes, WorkerDies, PortDisconnects, PageChanges,
                  vars
    <3>2. QED
      BY <3>1, <1>4
  <2>2. CASE \E r \in DOMAIN requests :
               ReceiveEnhanceToken(r) \/ ReceiveBindToken(r) \/ ReceiveDone(r) \/ ReceiveError(r)
    <3>1. UNCHANGED <<active, enhanceCalls>>
      BY <2>2 DEF ReceiveEnhanceToken, ReceiveBindToken, ReceiveDone, ReceiveError
    <3>2. QED
      BY <3>1, <1>4
  <2>3. QED
    BY <1>1, <1>2, <1>3, <2>1, <2>2 DEF Next, Receive

(* Every reachable state is well typed; in particular a number for a new    *)
(* object, and an id for a new request, can always be found.                *)
THEOREM DraftTypeCorrect == Spec => []TypeOK
<1>1. Init => TypeInv /\ EnhanceCallsAreActive
  BY TextsAssumption, TypeInit, CallsInit
<1>2. TypeInv /\ EnhanceCallsAreActive /\ [Next]_vars => (TypeInv /\ EnhanceCallsAreActive)'
  BY TextsAssumption, TypeNext, CallsNext
<1>3. TypeInv => TypeOK
  BY DEF TypeInv
<1>4. QED
  BY <1>1, <1>2, <1>3, PTL DEF Spec
===============================================================================
