-------------------------- MODULE PromptHistoryProofs --------------------------
(***************************************************************************)
(* Theorems about PromptHistory, for any number of overlapping operations  *)
(* and any limits.  They rest on one invariant: every list that is stored, *)
(* or that an operation has read, is a good one, so whichever operation    *)
(* writes last, the list it writes is made from a good one.                *)
(***************************************************************************)
EXTENDS PromptHistory, FiniteSetTheorems, WellFoundedInduction, TLAPS

Good(entries, now) ==
  /\ entries \subseteq Entry
  /\ IsFiniteSet(entries)
  /\ \A e \in entries : e.id <= now /\ e.saved <= now
  /\ \A e, f \in entries :
       e.prompt = f.prompt \/ e.id = f.id \/ e.saved = f.saved => e = f
  /\ Cardinality(Pinned(entries)) <= PinnedLimit
  /\ Cardinality(entries) <= UnpinnedLimit + PinnedLimit

ListInv ==
  /\ Good(history, clock)
  /\ \A c \in Callers : Good(op[c].read, clock)

-------------------------------------------------------------------------------
(* The latest unpinned entries, as Kept takes them.                         *)
Latest(entries) ==
  {e \in Unpinned(entries) :
     Cardinality({f \in Unpinned(entries) : f.saved > e.saved}) < UnpinnedLimit}

(* A non-empty set of entries has an oldest one.                            *)
LEMMA OldestExists ==
  ASSUME NEW S \in SUBSET Entry, S # {}
  PROVE  \E m \in S : \A e \in S : m.saved <= e.saved
<1> DEFINE T == {e.saved : e \in S}
<1>1. T \subseteq Nat /\ T # {}
  BY DEF Entry
<1>2. PICK n \in T : \A k \in T : <<k, n>> \notin OpToRel(<, Nat)
  <2> HIDE DEF T
  <2> QED
    BY <1>1, WFMin, NatLessThanWellFounded
<1>3. PICK m \in S : m.saved = n
  BY <1>2
<1>4. ASSUME NEW e \in S PROVE m.saved <= e.saved
  <2>1. e.saved \in T /\ e.saved \in Nat /\ m.saved \in Nat
    BY DEF Entry
  <2>2. ~(e.saved < m.saved)
    BY <1>2, <1>3, <2>1 DEF OpToRel
  <2> QED
    BY <2>1, <2>2
<1> QED
  BY <1>4

(* With distinct stamps, at most UnpinnedLimit entries are among the latest *)
(* UnpinnedLimit ones.                                                      *)
LEMMA LatestBound ==
  ASSUME NEW S \in SUBSET Entry, IsFiniteSet(S),
         \A e, f \in S : e.saved = f.saved => e = f
  PROVE  IsFiniteSet(Latest(S)) /\ Cardinality(Latest(S)) <= UnpinnedLimit
<1> DEFINE L == Latest(S)
           U == Unpinned(S)
<1>1. L \subseteq U /\ U \subseteq S
  BY DEF Latest, Unpinned
<1>2. IsFiniteSet(U) /\ IsFiniteSet(L) /\ Cardinality(L) \in Nat
  BY <1>1, FS_Subset, FS_CardinalityType
<1>3. CASE L = {}
  BY <1>2, <1>3, FS_EmptySet, LimitsAssumption
<1>4. CASE L # {}
  <2>1. L \in SUBSET Entry
    BY <1>1
  <2>2. PICK m \in L : \A e \in L : m.saved <= e.saved
    <3> HIDE DEF L
    <3> QED BY <1>4, <2>1, OldestExists
  <2> DEFINE N == {f \in U : f.saved > m.saved}
  <2>3. Cardinality(N) < UnpinnedLimit
    BY <2>2 DEF Latest
  <2>4. L \ {m} \subseteq N
    <3> SUFFICES ASSUME NEW e \in L, e # m PROVE e \in N
      OBVIOUS
    <3>1. e.saved \in Nat /\ m.saved \in Nat /\ e \in S /\ m \in S
      BY <1>1, <2>1, <2>2 DEF Entry
    <3>2. m.saved <= e.saved /\ e.saved # m.saved
      BY <2>2, <3>1
    <3> QED
      BY <1>1, <3>1, <3>2
  <2>5. IsFiniteSet(N) /\ Cardinality(N) \in Nat
    <3>1. N \subseteq U
      OBVIOUS
    <3> QED
      BY <1>2, <3>1, FS_Subset, FS_CardinalityType
  <2>6. Cardinality(L \ {m}) <= Cardinality(N)
    BY <2>4, <2>5, FS_Subset
  <2>7. Cardinality(L \ {m}) = Cardinality(L) - 1
    <3> HIDE DEF L
    <3> QED BY <1>2, <2>2, FS_RemoveElement
  <2> HIDE DEF L, N
  <2> QED
    BY <1>2, <2>3, <2>5, <2>6, <2>7, LimitsAssumption DEF L
<1> QED
  BY <1>3, <1>4

(* A part of a good list is good, and a good list stays so.                 *)
LEMMA PartIsGood ==
  ASSUME NEW S, NEW T \in SUBSET S, NEW n \in Nat, NEW k \in Nat, n <= k, Good(S, n)
  PROVE  Good(T, k)
<1>1. IsFiniteSet(S) /\ IsFiniteSet(T) /\ Cardinality(T) <= Cardinality(S)
  BY FS_Subset DEF Good
<1>2. Cardinality(S) \in Nat /\ Cardinality(T) \in Nat
  BY <1>1, FS_CardinalityType
<1>3. Pinned(S) \subseteq S /\ Pinned(T) \subseteq Pinned(S)
  BY DEF Pinned
<1>4. IsFiniteSet(Pinned(S)) /\ IsFiniteSet(Pinned(T))
  BY <1>1, <1>3, FS_Subset
<1>5. Cardinality(Pinned(T)) <= Cardinality(Pinned(S))
      /\ Cardinality(Pinned(S)) \in Nat /\ Cardinality(Pinned(T)) \in Nat
  BY <1>3, <1>4, FS_Subset, FS_CardinalityType
<1>6. \A e \in T : e.id <= k /\ e.saved <= k
  BY DEF Good, Entry
<1> QED
  BY <1>1, <1>2, <1>5, <1>6, LimitsAssumption DEF Good

LEMMA NothingIsGood ==
  ASSUME NEW n \in Nat
  PROVE  Good({}, n)
<1>1. Pinned({}) = {}
  BY DEF Pinned
<1> QED
  BY <1>1, FS_EmptySet, LimitsAssumption DEF Good

(* What savePromptToHistory writes.                                         *)
LEMMA SaveIsGood ==
  ASSUME NEW S, NEW n \in Nat, NEW p \in Prompts, Good(S, n)
  PROVE  Good(Kept({e \in S : e.prompt # p} \cup {Saved(p, S, n + 1)}), n + 1)
<1> DEFINE R == {e \in S : e.prompt # p}
           x == Saved(p, S, n + 1)
           T == R \cup {x}
           K == Kept(T)
<1>1. R \subseteq S /\ S \subseteq Entry /\ IsFiniteSet(S)
  BY DEF Good
<1>2. Good(R, n)
  BY PartIsGood, <1>1
<1>3. /\ x \in Entry
      /\ x.prompt = p
      /\ x.saved = n + 1
      /\ x.id <= n + 1
      /\ \A e \in R : e.id # x.id
      /\ x.pinned => \E o \in Pinned(S) : o \notin R
  <2> DEFINE same == {e \in S : e.prompt = p}
  <2>1. CASE same = {}
    <3>1. x = [id |-> n + 1, prompt |-> p, saved |-> n + 1, pinned |-> FALSE]
      BY <2>1 DEF Saved
    <3>2. \A e \in R : e.id \in Nat /\ e.id <= n
      BY <1>1 DEF Good, Entry
    <3>3. n + 1 \in Nat /\ ~(n + 1 <= n)
      OBVIOUS
    <3> HIDE DEF x, R
    <3>4. x \in Entry
      BY <3>1, <3>3 DEF Entry
    <3>5. x.prompt = p /\ x.saved = n + 1 /\ x.id = n + 1
      BY <3>1
    <3>6. x.pinned = FALSE
      BY <3>1
    <3> QED
      BY <3>2, <3>3, <3>4, <3>5, <3>6
  <2>2. CASE same # {}
    <3> DEFINE o == CHOOSE e \in same : TRUE
    <3>1. o \in S /\ o.prompt = p
      BY <2>2
    <3>2. x = [o EXCEPT !.saved = n + 1]
      BY <2>2 DEF Saved
    <3>3. o \in Entry /\ o.id <= n
      BY <1>1, <3>1 DEF Good
    <3> HIDE DEF o
    <3>4. \A e \in R : e # o /\ e \in S
      BY <3>1
    <3>5. \A e \in R : e.id # o.id
      BY <3>1, <3>4 DEF Good
    <3>6. /\ x \in Entry /\ x.prompt = o.prompt /\ x.saved = n + 1
          /\ x.id = o.id /\ x.pinned = o.pinned
      BY <3>2, <3>3 DEF Entry
    <3>7. o.id \in Nat
      BY <3>3 DEF Entry
    <3>8. x.id <= n + 1
      BY <3>3, <3>6, <3>7
    <3>9. x.pinned => o \in Pinned(S) /\ o \notin R
      BY <3>1, <3>6 DEF Pinned
    <3> QED
      BY <3>1, <3>5, <3>6, <3>8, <3>9
  <2> QED
    BY <2>1, <2>2
<1> HIDE DEF x
<1>4. T \subseteq Entry /\ IsFiniteSet(T)
  BY <1>1, <1>2, <1>3, FS_AddElement DEF Good
<1>5. \A e \in T : e.id <= n + 1 /\ e.saved <= n + 1
  BY <1>2, <1>3 DEF Good, Entry
<1>6. \A e, f \in T : e.prompt = f.prompt \/ e.id = f.id \/ e.saved = f.saved => e = f
  <2>1. \A e \in R : e.prompt # x.prompt /\ e.id # x.id /\ e.saved # x.saved
    <3>1. \A e \in R : e.saved \in Nat /\ e.saved <= n
      BY <1>2 DEF Good, Entry
    <3> QED
      BY <1>3, <3>1
  <2>2. \A e, f \in R : e.prompt = f.prompt \/ e.id = f.id \/ e.saved = f.saved => e = f
    BY <1>2 DEF Good
  <2> QED
    BY <2>1, <2>2
<1>7. /\ IsFiniteSet(Pinned(T))
      /\ Cardinality(Pinned(T)) \in Nat
      /\ Cardinality(Pinned(T)) <= PinnedLimit
  <2>1. IsFiniteSet(Pinned(T)) /\ Cardinality(Pinned(T)) \in Nat
    BY <1>4, FS_Subset, FS_CardinalityType DEF Pinned
  <2>2. IsFiniteSet(Pinned(S)) /\ Cardinality(Pinned(S)) \in Nat
        /\ Cardinality(Pinned(S)) <= PinnedLimit
    BY <1>1, FS_Subset, FS_CardinalityType DEF Pinned, Good
  <2>3. CASE x.pinned
    <3>1. PICK o \in Pinned(S) : o \notin R
      BY <1>3, <2>3
    <3>2. Pinned(T) \ {x} \subseteq Pinned(S) \ {o}
      BY <3>1 DEF Pinned
    <3>3. IsFiniteSet(Pinned(S) \ {o})
          /\ Cardinality(Pinned(S) \ {o}) = Cardinality(Pinned(S)) - 1
      BY <2>2, <3>1, FS_RemoveElement
    <3>4. Cardinality(Pinned(T) \ {x}) <= Cardinality(Pinned(S) \ {o})
      BY <3>2, <3>3, FS_Subset
    <3>5. Cardinality(Pinned(T) \ {x}) = Cardinality(Pinned(T)) - 1
      BY <2>1, <2>3, FS_RemoveElement DEF Pinned
    <3> QED
      BY <2>1, <2>2, <3>3, <3>4, <3>5, LimitsAssumption
  <2>4. CASE ~x.pinned
    <3>1. Pinned(T) \subseteq Pinned(S)
      BY <2>4 DEF Pinned
    <3>2. Cardinality(Pinned(T)) <= Cardinality(Pinned(S))
      BY <2>2, <3>1, FS_Subset
    <3> QED
      BY <2>1, <2>2, <3>2, LimitsAssumption
  <2> QED
    BY <2>1, <2>3, <2>4
<1>8. IsFiniteSet(Latest(T)) /\ Cardinality(Latest(T)) <= UnpinnedLimit
  BY <1>4, <1>6, LatestBound
<1>9. K = Pinned(T) \cup Latest(T) /\ K \subseteq T /\ Pinned(K) \subseteq Pinned(T)
  BY DEF Kept, Latest, Pinned, Unpinned
<1>10. IsFiniteSet(K) /\ Cardinality(K) <= UnpinnedLimit + PinnedLimit
  <2> DEFINE P == Pinned(T)
             L == Latest(T)
  <2>0. IsFiniteSet(P) /\ IsFiniteSet(L)
    BY <1>7, <1>8
  <2> HIDE DEF T, P, L
  <2>1. /\ IsFiniteSet(P \cup L)
        /\ Cardinality(P \cup L) = Cardinality(P) + Cardinality(L) - Cardinality(P \cap L)
    BY <2>0, FS_Union
  <2>2. Cardinality(P \cap L) \in Nat /\ Cardinality(L) \in Nat
    <3>1. IsFiniteSet(P \cap L)
      BY <2>0, FS_Subset
    <3> QED
      BY <2>0, <3>1, FS_CardinalityType
  <2>3. K = P \cup L /\ Cardinality(P) \in Nat /\ Cardinality(P) <= PinnedLimit
        /\ Cardinality(L) <= UnpinnedLimit
    BY <1>7, <1>8, <1>9 DEF P, L
  <2> HIDE DEF K
  <2> QED
    BY <2>1, <2>2, <2>3, LimitsAssumption
<1>11. Cardinality(Pinned(K)) <= PinnedLimit
  <2>1. Cardinality(Pinned(K)) <= Cardinality(Pinned(T)) /\ IsFiniteSet(Pinned(K))
    BY <1>7, <1>9, FS_Subset
  <2>2. Cardinality(Pinned(K)) \in Nat
    BY <2>1, FS_CardinalityType
  <2> QED
    BY <1>7, <2>1, <2>2, LimitsAssumption
<1>12. Good(K, n + 1)
  <2> HIDE DEF K
  <2>1. K \subseteq T
    BY <1>9
  <2> HIDE DEF T
  <2> QED
    BY <1>4, <1>5, <1>6, <1>10, <1>11, <2>1 DEF Good
<1> QED
  BY <1>12 DEF x

(* What setPromptPinned writes.                                             *)
LEMMA PinIsGood ==
  ASSUME NEW S, NEW n \in Nat, NEW e \in S, NEW flag \in BOOLEAN,
         Good(S, n), MayPin(e, flag, S)
  PROVE  Good((S \ {e}) \cup {[e EXCEPT !.pinned = flag]}, n)
<1> DEFINE x == [e EXCEPT !.pinned = flag]
           R == S \ {e}
           T == R \cup {x}
<1>1. S \subseteq Entry /\ IsFiniteSet(S) /\ Cardinality(S) \in Nat
  BY FS_CardinalityType DEF Good
<1>2. /\ x \in Entry /\ x.id = e.id /\ x.prompt = e.prompt
      /\ x.saved = e.saved /\ x.pinned = flag
  BY <1>1 DEF Entry
<1> HIDE DEF x
<1>3. IsFiniteSet(R) /\ Cardinality(R) = Cardinality(S) - 1
  BY <1>1, FS_RemoveElement
<1>4. IsFiniteSet(T) /\ Cardinality(T) <= Cardinality(S) /\ Cardinality(T) \in Nat
  <2>1. IsFiniteSet(T)
        /\ Cardinality(T) = IF x \in R THEN Cardinality(R) ELSE Cardinality(R) + 1
    BY <1>3, FS_AddElement
  <2> QED
    BY <1>1, <1>3, <2>1, FS_CardinalityType
<1>5. \A f \in T : f.id <= n /\ f.saved <= n
  BY <1>2 DEF Good
<1>6. \A f, g \in T : f.prompt = g.prompt \/ f.id = g.id \/ f.saved = g.saved => f = g
  BY <1>2 DEF Good
<1>7. Cardinality(Pinned(T)) <= PinnedLimit
  <2>1. /\ IsFiniteSet(Pinned(S)) /\ Cardinality(Pinned(S)) \in Nat
        /\ Cardinality(Pinned(S)) <= PinnedLimit
        /\ IsFiniteSet(Pinned(T)) /\ Cardinality(Pinned(T)) \in Nat
    BY <1>1, <1>4, FS_Subset, FS_CardinalityType DEF Pinned, Good
  <2>2. CASE flag /\ ~e.pinned
    <3>1. Cardinality(Pinned(S)) < PinnedLimit
      BY <2>2 DEF MayPin
    <3>2. Pinned(T) \subseteq Pinned(S) \cup {x}
      BY DEF Pinned
    <3>3. IsFiniteSet(Pinned(S) \cup {x})
          /\ Cardinality(Pinned(S) \cup {x}) <= Cardinality(Pinned(S)) + 1
      <4> DEFINE Q == Pinned(S)
      <4>1. IsFiniteSet(Q) /\ Cardinality(Q) \in Nat
        BY <2>1
      <4> HIDE DEF Q
      <4>2. IsFiniteSet(Q \cup {x}) /\ Cardinality(Q \cup {x}) <= Cardinality(Q) + 1
        BY <4>1, FS_AddElement
      <4> QED
        BY <4>2 DEF Q
    <3>4. Cardinality(Pinned(T)) <= Cardinality(Pinned(S) \cup {x})
          /\ Cardinality(Pinned(S) \cup {x}) \in Nat
      BY <3>2, <3>3, FS_Subset, FS_CardinalityType
    <3> QED
      BY <2>1, <3>1, <3>3, <3>4, LimitsAssumption
  <2>3. CASE ~flag
    <3>1. Pinned(T) \subseteq Pinned(S)
      BY <1>2, <2>3 DEF Pinned
    <3>2. Cardinality(Pinned(T)) <= Cardinality(Pinned(S))
      BY <2>1, <3>1, FS_Subset
    <3> QED
      BY <2>1, <3>2, LimitsAssumption
  <2>4. CASE flag /\ e.pinned
    <3>1. x = e
      BY <1>1, <2>4 DEF x, Entry
    <3>2. T = S
      BY <3>1
    <3> QED
      BY <2>1, <3>2
  <2> QED
    BY <2>2, <2>3, <2>4
<1>8. T \subseteq Entry
  BY <1>1, <1>2
<1>9. Cardinality(T) <= UnpinnedLimit + PinnedLimit
  BY <1>1, <1>4, LimitsAssumption DEF Good
<1>10. Good(T, n)
  <2> HIDE DEF T
  <2> QED
    BY <1>4, <1>5, <1>6, <1>7, <1>8, <1>9 DEF Good
<1> QED
  BY <1>10 DEF x

-------------------------------------------------------------------------------
(* Operations are of the declared types, and the lists they have read are   *)
(* sets of entries.                                                         *)
LEMMA TypeAndLists == Spec => [](TypeOK /\ ListInv)
<1>1. Init => TypeOK /\ ListInv
  <2> SUFFICES ASSUME Init PROVE TypeOK /\ ListInv
    OBVIOUS
  <2>1. TypeOK
    BY DEF Init, TypeOK, Operation
  <2>2. ListInv
    BY NothingIsGood DEF Init, ListInv, Idle
  <2> QED
    BY <2>1, <2>2
<1>2. TypeOK /\ ListInv /\ [Next]_vars => (TypeOK /\ ListInv)'
  <2> SUFFICES ASSUME TypeOK, ListInv, [Next]_vars PROVE TypeOK' /\ ListInv'
    OBVIOUS
  <2>0. clock \in Nat /\ Good(history, clock) /\ \A k \in Callers : Good(op[k].read, clock)
    BY DEF TypeOK, ListInv
  <2>1. ASSUME NEW c \in Callers, NEW operation \in Operation,
               operation.read = history, Read(c, operation)
        PROVE  TypeOK' /\ ListInv'
    <3>1. TypeOK'
      BY <2>1 DEF Read, TypeOK
    <3>2. op' = [op EXCEPT ![c] = operation] /\ UNCHANGED <<history, clock>>
      BY <2>1 DEF Read
    <3>3. \A k \in Callers : op'[k].read = op[k].read \/ op'[k].read = history
      BY <2>1, <3>2 DEF TypeOK
    <3>4. ListInv'
      BY <2>0, <3>2, <3>3 DEF ListInv
    <3> QED
      BY <3>1, <3>4
  <2>2. ASSUME NEW c \in Callers, op' = [op EXCEPT ![c] = Idle],
               clock' \in Nat, clock <= clock', Good(history', clock')
        PROVE  TypeOK' /\ ListInv'
    <3>1. history' \subseteq Entry
      BY <2>2 DEF Good
    <3>2. TypeOK'
      BY <2>2, <3>1 DEF TypeOK, Operation
    <3>3. ASSUME NEW k \in Callers PROVE Good(op'[k].read, clock')
      <4>1. op'[k].read \subseteq op[k].read
        BY <2>2 DEF TypeOK, Idle
      <4> QED
        BY <2>0, <2>2, <4>1, PartIsGood
    <3> QED
      BY <2>2, <3>2, <3>3 DEF ListInv
  <2>3. ASSUME NEW c \in Callers, StartSave(c) PROVE TypeOK' /\ ListInv'
    <3>1. PICK prompt \in Prompts :
            Read(c, [kind |-> "save", prompt |-> prompt, read |-> history])
      BY <2>3 DEF StartSave
    <3>2. [kind |-> "save", prompt |-> prompt, read |-> history] \in Operation
      BY DEF TypeOK, Operation
    <3> QED
      BY <2>1, <3>1, <3>2
  <2>4. ASSUME NEW c \in Callers, StartPin(c) PROVE TypeOK' /\ ListInv'
    <3>1. PICK id \in 1..clock, pinned \in BOOLEAN :
            Read(c, [kind |-> "pin", id |-> id, pinned |-> pinned, read |-> history])
      BY <2>4 DEF StartPin
    <3>2. [kind |-> "pin", id |-> id, pinned |-> pinned, read |-> history] \in Operation
      BY DEF TypeOK, Operation
    <3> QED
      BY <2>1, <3>1, <3>2
  <2>5. ASSUME NEW c \in Callers, StartDelete(c) PROVE TypeOK' /\ ListInv'
    <3>1. PICK id \in 1..clock :
            Read(c, [kind |-> "delete", id |-> id, read |-> history])
      BY <2>5 DEF StartDelete
    <3>2. [kind |-> "delete", id |-> id, read |-> history] \in Operation
      BY DEF TypeOK, Operation
    <3> QED
      BY <2>1, <3>1, <3>2
  <2>6. ASSUME NEW c \in Callers, Save(c) PROVE TypeOK' /\ ListInv'
    <3>1. op[c].prompt \in Prompts
      BY <2>6 DEF Save, TypeOK, Operation, Idle
    <3>2. Good(history', clock')
      BY <2>0, <2>6, <3>1, SaveIsGood DEF Save, Write
    <3>3. op' = [op EXCEPT ![c] = Idle] /\ clock' \in Nat /\ clock <= clock'
      BY <2>0, <2>6 DEF Save, Write
    <3> QED
      BY <2>2, <3>2, <3>3
  <2>7. ASSUME NEW c \in Callers, SetPinned(c) PROVE TypeOK' /\ ListInv'
    <3>1. op[c].pinned \in BOOLEAN
      BY <2>7 DEF SetPinned, TypeOK, Operation, Idle
    <3>2. Good(history', clock')
      BY <2>0, <2>7, <3>1, PinIsGood DEF SetPinned, Write
    <3>3. op' = [op EXCEPT ![c] = Idle] /\ clock' \in Nat /\ clock <= clock'
      BY <2>0, <2>7 DEF SetPinned, Write
    <3> QED
      BY <2>2, <3>2, <3>3
  <2>8. ASSUME NEW c \in Callers, Delete(c) PROVE TypeOK' /\ ListInv'
    <3>1. history' \subseteq op[c].read /\ clock' = clock
      BY <2>8 DEF Delete, Write
    <3>2. Good(history', clock')
      BY <2>0, <3>1, PartIsGood
    <3>3. op' = [op EXCEPT ![c] = Idle] /\ clock' \in Nat /\ clock <= clock'
      BY <2>0, <2>8 DEF Delete, Write
    <3> QED
      BY <2>2, <3>2, <3>3
  <2>9. ASSUME NEW c \in Callers, RefusePin(c) \/ Fail(c) PROVE TypeOK' /\ ListInv'
    BY <2>0, <2>2, <2>9 DEF RefusePin, Fail
  <2>10. CASE UNCHANGED vars
    BY <2>10 DEF vars, TypeOK, ListInv
  <2> QED
    BY <2>3, <2>4, <2>5, <2>6, <2>7, <2>8, <2>9, <2>10 DEF Next
<1> QED
  BY <1>1, <1>2, PTL DEF Spec

(* Type correctness of the history and of the operations on it.             *)
THEOREM HistoryTypeCorrect == Spec => []TypeOK
BY TypeAndLists, PTL

(* A prompt is listed once and an id names one entry, however the saves of  *)
(* the pages and the pins and deletes of the popup overlap.                 *)
THEOREM UniqueEntries == Spec => []EntriesAreUnique
<1>1. ListInv => EntriesAreUnique
  BY DEF ListInv, Good, EntriesAreUnique
<1> QED
  BY <1>1, TypeAndLists, PTL

(* setPromptPinned checks the limit on a list that may be outdated when it  *)
(* writes, yet the limit holds: what it writes is that same list.           *)
THEOREM PinLimit == Spec => []PinLimitHolds
<1>1. ListInv => PinLimitHolds
  BY DEF ListInv, Good, PinLimitHolds
<1> QED
  BY <1>1, TypeAndLists, PTL

(* The stored list never exceeds the two caps together.                     *)
THEOREM BoundedHistory == Spec => []HistoryIsBounded
<1>1. ListInv => HistoryIsBounded
  BY DEF ListInv, Good, HistoryIsBounded
<1> QED
  BY <1>1, TypeAndLists, PTL

-------------------------------------------------------------------------------
(* The list a save writes holds every entry that was pinned in the list it  *)
(* was made from.                                                           *)
LEMMA SaveKeepsPins ==
  ASSUME NEW S, NEW n \in Nat, NEW p \in Prompts, Good(S, n), NEW f \in Pinned(S)
  PROVE  Has(Kept({e \in S : e.prompt # p} \cup {Saved(p, S, n + 1)}), f.id)
<1> DEFINE T == {e \in S : e.prompt # p} \cup {Saved(p, S, n + 1)}
<1>1. f \in S /\ f.pinned /\ f \in Entry
  BY DEF Pinned, Good
<1>2. CASE f.prompt # p
  <2>1. f \in Kept(T)
    BY <1>1, <1>2 DEF Kept, Pinned
  <2> QED
    BY <2>1 DEF Has
<1>3. CASE f.prompt = p
  <2> DEFINE same == {e \in S : e.prompt = p}
  <2>1. same = {f}
    BY <1>1, <1>3 DEF Good
  <2>2. Saved(p, S, n + 1) = [f EXCEPT !.saved = n + 1]
    BY <2>1 DEF Saved
  <2>3. Saved(p, S, n + 1).pinned /\ Saved(p, S, n + 1).id = f.id
    BY <1>1, <2>2 DEF Entry
  <2>4. Saved(p, S, n + 1) \in Kept(T)
    BY <2>3 DEF Kept, Pinned
  <2> QED
    BY <2>3, <2>4 DEF Has
<1> QED
  BY <1>2, <1>3

(* An operation removes an entry it knew to be pinned only if it deletes    *)
(* that very entry.                                                         *)
THEOREM PinsSurvive == Spec => KnownPinsSurvive
<1>1. ASSUME TypeOK, ListInv, [Next]_vars, NEW c \in Callers,
             op[c] # Idle, op'[c] = Idle,
             NEW e \in Pinned(history), NEW f \in Pinned(op[c].read), f.id = e.id,
             ~Has(history', e.id)
      PROVE  op[c].kind = "delete" /\ op[c].id = e.id
  <2>1. e \in history /\ Has(history, e.id)
    BY DEF Pinned, Has
  <2>2. clock \in Nat /\ Good(op[c].read, clock) /\ f \in op[c].read
    BY <1>1 DEF TypeOK, ListInv, Pinned
  <2>3. history' # history
    BY <1>1, <2>1
  <2>4. PICK k \in Callers : Save(k) \/ SetPinned(k) \/ Delete(k)
    BY <1>1, <2>3 DEF Next, vars, StartSave, StartPin, StartDelete, Read, RefusePin, Fail
  <2>5. k = c
    BY <1>1, <2>4 DEF Save, SetPinned, Delete, Write, TypeOK
  <2>6. CASE Save(c)
    <3>1. op[c].prompt \in Prompts
      BY <1>1, <2>6 DEF Save, TypeOK, Operation, Idle
    <3>2. Has(history', f.id)
      BY <2>2, <2>6, <3>1, SaveKeepsPins DEF Save, Write
    <3> QED
      BY <1>1, <3>2
  <2>7. CASE SetPinned(c)
    <3>1. PICK g \in op[c].read :
            history' = (op[c].read \ {g}) \cup {[g EXCEPT !.pinned = op[c].pinned]}
      BY <2>7 DEF SetPinned, Write
    <3>2. [g EXCEPT !.pinned = op[c].pinned].id = g.id
      BY <2>2 DEF Good, Entry
    <3>3. Has(history', f.id)
      BY <2>2, <3>1, <3>2 DEF Has
    <3> QED
      BY <1>1, <3>3
  <2>8. CASE Delete(c)
    <3>1. op[c].kind = "delete" /\ history' = {g \in op[c].read : g.id # op[c].id}
      BY <2>8 DEF Delete, Write
    <3>2. f.id = op[c].id
      BY <1>1, <2>2, <3>1 DEF Has
    <3> QED
      BY <1>1, <3>1, <3>2
  <2> QED
    BY <2>4, <2>5, <2>6, <2>7, <2>8
<1>2. TypeOK /\ ListInv /\ [Next]_vars =>
        [\A c \in Callers : op[c] # Idle /\ op'[c] = Idle =>
           \A e \in Pinned(history) :
             (\E f \in Pinned(op[c].read) : f.id = e.id) /\ ~Has(history', e.id)
               => op[c].kind = "delete" /\ op[c].id = e.id]_vars
  BY <1>1
<1> QED
  BY <1>2, TypeAndLists, PTL DEF Spec, KnownPinsSurvive

-------------------------------------------------------------------------------
(* From a list S a save of p makes a list K: p is in front, no more entries *)
(* than their limit are unpinned, and what is dropped of the others was     *)
(* unpinned and older than every unpinned entry that is left.               *)
SaveOutcome(S, K, p) ==
  /\ UnpinnedLimit > 0 =>
       \E e \in K : e.prompt = p /\ \A f \in K : f # e => f.saved < e.saved
  /\ \A f \in S \ K : f.prompt # p =>
       ~f.pinned /\ \A g \in Unpinned(K) : f.saved < g.saved
  /\ Cardinality(Unpinned(K)) <= UnpinnedLimit

(* Every save does so to the list it has read, however old that list is.    *)
SavesTakeEffect ==
  [][\A c \in Callers : Save(c) => SaveOutcome(op[c].read, history', op[c].prompt)]_vars

(* What Kept drops is older than what it keeps.                             *)
LEMMA KeptAreLatest ==
  ASSUME NEW T \in SUBSET Entry, IsFiniteSet(T),
         NEW f \in T \ Kept(T), NEW g \in Unpinned(Kept(T))
  PROVE  ~f.pinned /\ f.saved < g.saved
<1> DEFINE Later(e) == {h \in Unpinned(T) : h.saved > e.saved}
<1>1. /\ f \in Entry /\ f \in Unpinned(T)
      /\ g \in Entry /\ g \in Unpinned(T)
      /\ f.saved \in Nat /\ g.saved \in Nat
  BY DEF Kept, Pinned, Unpinned, Entry
<1>2. IsFiniteSet(Unpinned(T)) /\ \A h \in Unpinned(T) : h.saved \in Nat
  BY FS_Subset DEF Unpinned, Entry
<1>3. /\ IsFiniteSet(Later(f)) /\ IsFiniteSet(Later(g))
      /\ Cardinality(Later(f)) \in Nat /\ Cardinality(Later(g)) \in Nat
  BY <1>2, FS_Subset, FS_CardinalityType
<1>4. ~(Cardinality(Later(f)) < UnpinnedLimit) /\ Cardinality(Later(g)) < UnpinnedLimit
  BY <1>1 DEF Kept, Pinned, Unpinned
<1>5. ASSUME g.saved <= f.saved
      PROVE  FALSE
  <2>1. Later(f) \subseteq Later(g)
    BY <1>1, <1>2, <1>5
  <2>2. Cardinality(Later(f)) <= Cardinality(Later(g))
    BY <1>3, <2>1, FS_Subset
  <2> QED
    BY <1>3, <1>4, <2>2, LimitsAssumption
<1> QED
  BY <1>1, <1>5 DEF Unpinned

LEMMA SaveEffect ==
  ASSUME NEW S, NEW n \in Nat, NEW p \in Prompts, Good(S, n)
  PROVE  SaveOutcome(S, Kept({e \in S : e.prompt # p} \cup {Saved(p, S, n + 1)}), p)
<1> DEFINE x == Saved(p, S, n + 1)
           R == {e \in S : e.prompt # p}
           T == R \cup {x}
           K == Kept(T)
<1>1. x \in Entry /\ x.prompt = p /\ x.saved = n + 1
  <2> DEFINE same == {e \in S : e.prompt = p}
  <2>1. CASE same = {}
    BY <2>1 DEF Saved, Entry
  <2>2. CASE same # {}
    <3>1. (CHOOSE e \in same : TRUE) \in same
      BY <2>2
    <3> DEFINE e == CHOOSE e \in same : TRUE
    <3>2. x = [e EXCEPT !.saved = n + 1] /\ e \in Entry /\ e.prompt = p
      BY <2>2, <3>1 DEF Saved, Good
    <3> HIDE DEF e, x
    <3> QED
      BY <3>2 DEF Entry
  <2> QED
    BY <2>1, <2>2
<1>2. S \subseteq Entry /\ IsFiniteSet(S)
  BY DEF Good
<1> HIDE DEF x
<1>3. T \in SUBSET Entry /\ IsFiniteSet(T)
  BY <1>1, <1>2, FS_Subset, FS_AddElement
<1>4. \A f \in R : f.saved \in Nat /\ f.saved <= n
  BY <1>2 DEF Good, Entry
<1>5. K \subseteq T
  BY DEF Kept, Pinned, Unpinned, x
<1>6. ASSUME UnpinnedLimit > 0
      PROVE  x \in K
  <2>1. {f \in Unpinned(T) : f.saved > x.saved} = {}
    BY <1>1, <1>4 DEF Unpinned
  <2>2. Cardinality({f \in Unpinned(T) : f.saved > x.saved}) < UnpinnedLimit
    BY <1>6, <2>1, FS_EmptySet
  <2> QED
    BY <1>5, <2>2 DEF Kept, Pinned, Unpinned
<1>7. \A f \in K : f # x => f.saved < x.saved
  <2> SUFFICES ASSUME NEW f \in K, f # x
               PROVE  f.saved < x.saved
    OBVIOUS
  <2>1. f \in R
    BY <1>5
  <2> QED
    BY <1>1, <1>4, <2>1
<1>8. ASSUME NEW f \in S \ K, f.prompt # p
      PROVE  ~f.pinned /\ \A g \in Unpinned(K) : f.saved < g.saved
  <2>1. f \in T \ Kept(T)
    BY <1>5, <1>8
  <2>2. ~f.pinned
    BY <2>1 DEF Kept, Pinned
  <2> QED
    BY <1>3, <1>5, <2>1, <2>2, KeptAreLatest
<1>9. Cardinality(Unpinned(K)) <= UnpinnedLimit
  <2>1. Unpinned(K) = Latest(T)
    BY <1>5 DEF Kept, Pinned, Unpinned, Latest
  <2>2. \A e, f \in T : e.saved = f.saved => e = f
    <3>1. \A e, f \in R : e.saved = f.saved => e = f
      BY DEF Good
    <3>2. \A e \in R : e.saved # x.saved
      BY <1>1, <1>4
    <3> QED
      BY <3>1, <3>2
  <2> QED
    BY <1>3, <2>1, <2>2, LatestBound
<1> HIDE DEF K, T, R
<1>10. SaveOutcome(S, K, p)
  BY <1>1, <1>6, <1>7, <1>8, <1>9 DEF SaveOutcome
<1> QED
  BY <1>10 DEF K, T, R, x

(* Overlapping operations or not, a save does what it says.                 *)
THEOREM SavesHold == Spec => SavesTakeEffect
<1>1. ASSUME TypeOK, ListInv, NEW c \in Callers, Save(c)
      PROVE  SaveOutcome(op[c].read, history', op[c].prompt)
  <2>1. clock \in Nat /\ op[c].prompt \in Prompts /\ Good(op[c].read, clock)
    BY <1>1 DEF TypeOK, ListInv, Save, Operation, Idle
  <2>2. history' = Kept({e \in op[c].read : e.prompt # op[c].prompt}
                          \cup {Saved(op[c].prompt, op[c].read, clock + 1)})
    BY <1>1 DEF Save, Write
  <2> QED
    BY <2>1, <2>2, SaveEffect
<1>2. TypeOK /\ ListInv =>
        [\A c \in Callers : Save(c) => SaveOutcome(op[c].read, history', op[c].prompt)]_vars
  BY <1>1
<1> QED
  BY <1>2, TypeAndLists, PTL DEF Spec, SavesTakeEffect
===============================================================================
