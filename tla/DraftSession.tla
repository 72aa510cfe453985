------------------------------ MODULE DraftSession ------------------------------
(***************************************************************************)
(* The draft session of the content script (extension/src/content/         *)
(* index.ts): from a keystroke over the debounced segmentation, the review *)
(* of the clauses and their expansions to the bind and the commit.         *)
(*                                                                         *)
(* The script is single-threaded; an action is the code between two        *)
(* awaits.  Each input event replaces activeInputState by a copy, and a    *)
(* bind that awaits the storage still holds the copy it was started on, so *)
(* the state objects are numbered: states[active] is activeInputState, the *)
(* others are those some bind call holds.  A copy shares its set of        *)
(* accepted clauses with the original: two objects with the same box have  *)
(* one set.                                                                *)
(*                                                                         *)
(* A text is a model value.  A clause is known by its positional id        *)
(* ("seg-start-end"), as in the code: Split gives the ids of the clauses   *)
(* the script cuts a text into, Sections those the backend may answer, and *)
(* Wording what stands at an id in a text.                                 *)
(*                                                                         *)
(* The other end of the port is the background worker as RequestStream     *)
(* describes it: tokens, then at most one terminal event per request.      *)
(***************************************************************************)
EXTENDS Naturals, Sequences, FiniteSets

CONSTANTS
  Inputs,     \* instrumented inputs of the page
  Texts,      \* what an input may hold
  EmptyText,  \* the empty one
  Positions,  \* positional clause ids
  Split,      \* Split[t]: splitTextIntoDraftSegments
  Sections,   \* Sections[t]: the answers to SEGMENT, located in t
  Wording,    \* Wording[t][p]: the characters of t at p
  BindCalls,  \* dispatchBindRequest calls that may await at the same time
  Contexts,   \* what resolveBridgeContext may find
  MaxTokens,  \* bound on the tokens of one stream
  MaxEdits    \* bound on the input events; the worker and the page change before the last

NoText == "none"

(* Two clauses of a draft have two positions.                               *)
AreDistinct(segments) ==
  \A j, k \in DOMAIN segments : segments[j] = segments[k] => j = k

ASSUME TextsAssumption ==
  /\ EmptyText \in Texts
  /\ NoText \notin Texts
  /\ Split \in [Texts -> Seq(Positions)]
  /\ Split[EmptyText] = <<>>
  /\ Sections \in [Texts -> SUBSET Seq(Positions)]
  /\ Sections[EmptyText] = {<<>>}
  /\ \A t \in Texts : AreDistinct(Split[t]) /\ \A new \in Sections[t] : AreDistinct(new)
  /\ IsFiniteSet(Positions) /\ IsFiniteSet(BindCalls)
  /\ Contexts \subseteq {"ok", "paused", "signedOut"}
  /\ MaxTokens \in Nat
  /\ MaxEdits \in Nat

VARIABLES
  typed,        \* typed[i]: the text in input i at its last input event
  gone,         \* the inputs that are not in the page (!isConnected)
  active,       \* the number of activeInputState, 0 if undefined
  states,       \* the state objects still referenced, by number
  bindCalls,    \* bindCalls[c]: a dispatchBindRequest that awaits the storage
  enhanceCalls, \* dispatchEnhanceRequest calls on the active state, awaiting too
  requests,     \* requests the worker has and has not ended, by id
  port,         \* "open", or "dead" until onDisconnect has run
  approved,     \* the clauses accepted since the last input event
  edits         \* number of input events

vars == <<typed, gone, active, states, bindCalls, enhanceCalls, requests, port, approved, edits>>

(* Request ids: the kind of the request (its clause, for an ENHANCE) tells  *)
(* more than a number would.                                                *)
RequestKinds == {"SEGMENT", "BIND"} \cup Positions
NoRequest    == <<"none", 0>>
RequestIds   == (RequestKinds \X (Nat \ {0})) \cup {NoRequest}

Phases == {"IDLE", "BINDING", "COMPLETE"}

(* What a BIND was collected from: the draft, whether it was the text of    *)
(* the input, and the clauses it carries as accepted.                       *)
Basis == [text : Texts, fresh : BOOLEAN, accepted : SUBSET Positions]

(* The input is that of the keys and of the commit; the debounce goes on    *)
(* reading the source, the input of the last input event.                   *)
InputState ==
  [input : Inputs, source : Inputs, debounce : {"none", "timer", "reading"},
   extracted : Texts, draftText : Texts, draftSegments : Seq(Positions), draftIsStale : BOOLEAN,
   accepted : SUBSET Nat, box : Nat, focused : Nat, hasStaleAccepted : BOOLEAN,
   activeSegment : RequestIds, activeBind : RequestIds, bindPhase : Phases,
   pendingGhostText : Nat, ghostStreamComplete : BOOLEAN, basis : Basis,
   activeEnhance : [Positions -> RequestIds], enhancedText : [Positions -> Texts \cup {NoText}]]

Request ==
       [verb : {"SEGMENT"}, text : Texts]
  \cup [verb : {"ENHANCE"}, text : Texts, cancelled : BOOLEAN, late : BOOLEAN]
  \cup [verb : {"BIND"}, tokens : 0..MaxTokens, abandoned : BOOLEAN]

(* A dispatchBindRequest that awaits; its state is 0 when there is none.    *)
(* outlived is history: what took the object away left its gate as it was.  *)
BindCall == [state : Nat, basis : Basis, outlived : BOOLEAN]

NoBasis == [text |-> EmptyText, fresh |-> FALSE, accepted |-> {}]
NoCall  == [state |-> 0, basis |-> NoBasis, outlived |-> FALSE]

TypeOK ==
  /\ typed \in [Inputs -> Texts]
  /\ gone \subseteq Inputs
  /\ active \in Nat
  /\ active # 0 => active \in DOMAIN states
  /\ \A s \in DOMAIN states : s \in Nat \ {0} /\ states[s] \in InputState
  /\ bindCalls \in [BindCalls -> BindCall]
  /\ \A c \in BindCalls : bindCalls[c] # NoCall => bindCalls[c].state \in DOMAIN states
  /\ enhanceCalls \subseteq [position : Positions, text : Texts]
  /\ \A r \in DOMAIN requests : r \in RequestIds \ {NoRequest} /\ requests[r] \in Request
  /\ port \in {"open", "dead"}
  /\ approved \subseteq Positions
  /\ edits \in Nat

NoRequests == [r \in {} |-> r]

Init ==
  /\ typed = [i \in Inputs |-> EmptyText]
  /\ gone \in SUBSET Inputs
  /\ active = 0
  /\ states = [s \in {} |-> s]
  /\ bindCalls = [c \in BindCalls |-> NoCall]
  /\ enhanceCalls = {}
  /\ requests = NoRequests
  /\ port = "open"
  /\ approved = {}
  /\ edits = 0

Current == states[active]

-------------------------------------------------------------------------------
(* State objects.                                                           *)

Unused(numbers) == CHOOSE n \in 1..(Cardinality(numbers) + 1) : n \notin numbers

FreshState == Unused(DOMAIN states)
FreshBox   == Unused({states[s].box : s \in DOMAIN states})
OwnBox     == Unused({states[s].box : s \in DOMAIN states \ {active}})

Held == {bindCalls[c].state : c \in {d \in BindCalls : bindCalls[d] # NoCall}}

(* The state of an input that was not the active one.                       *)
NewState(i) ==
  [input |-> i, source |-> i, debounce |-> "timer", extracted |-> EmptyText,
   draftText |-> EmptyText, draftSegments |-> <<>>, draftIsStale |-> FALSE,
   accepted |-> {}, box |-> FreshBox, focused |-> 0, hasStaleAccepted |-> FALSE,
   activeSegment |-> NoRequest, activeBind |-> NoRequest, bindPhase |-> "IDLE",
   pendingGhostText |-> 0, ghostStreamComplete |-> FALSE, basis |-> NoBasis,
   activeEnhance |-> [p \in Positions |-> NoRequest],
   enhancedText |-> [p \in Positions |-> NoText]]

(* The active object becomes o; the objects that share its set of accepted  *)
(* clauses see that set change.                                             *)
Update(o) ==
  states' = [s \in DOMAIN states |->
               IF s = active THEN o
               ELSE IF states[s].box = o.box
                    THEN [states[s] EXCEPT !.accepted = o.accepted]
                    ELSE states[s]]

(* What a bind call can still read of an object that is not active.         *)
LeftBehind(o) ==
  [NewState(o.input) EXCEPT
     !.debounce = "none", !.accepted = o.accepted, !.box = o.box,
     !.hasStaleAccepted = o.hasStaleAccepted, !.activeBind = o.activeBind,
     !.bindPhase = o.bindPhase]

(* The active object gives way to o, and is left behind as left if a bind   *)
(* call holds it.  Its enhance calls return without effect (the guard       *)
(* activeInputState === state), so they are dropped here.                   *)
Supersede(left, o) ==
  LET n == FreshState
  IN  /\ active' = n
      /\ states' = [s \in (Held \cup {n}) |->
                      IF s = n THEN o ELSE IF s = active THEN LeftBehind(left) ELSE states[s]]
      /\ enhanceCalls' = {}

(* cancelActiveBindStream: the object.                                      *)
BindCancelled(o) ==
  IF o.activeBind = NoRequest THEN o
  ELSE [o EXCEPT !.activeBind = NoRequest, !.bindPhase = "IDLE", !.basis = NoBasis,
                 !.pendingGhostText = 0, !.ghostStreamComplete = FALSE]

(* clearActiveInputWork: the debounce is aborted, before or after its await. *)
WorkCleared(o) == [o EXCEPT !.debounce = "none", !.extracted = EmptyText, !.bindPhase = "IDLE"]

(* clearDraftRendering: the object; acceptances are left as they are.       *)
DraftCleared(o) ==
  [o EXCEPT !.draftText = EmptyText, !.draftSegments = <<>>, !.draftIsStale = FALSE,
            !.activeEnhance = [p \in Positions |-> NoRequest],
            !.enhancedText = [p \in Positions |-> NoText]]

EnhancesOf(o) == {o.activeEnhance[p] : p \in Positions} \ {NoRequest}

Names(o, r) == {p \in Positions : o.activeEnhance[p] = r}

ClausesOf(o) == {o.draftSegments[k] : k \in DOMAIN o.draftSegments}

(* The calls that await on the active object go on without it.              *)
Outlived ==
  [c \in BindCalls |-> IF active # 0 /\ bindCalls[c].state = active
                       THEN [bindCalls[c] EXCEPT !.outlived = TRUE] ELSE bindCalls[c]]

-------------------------------------------------------------------------------
(* Requests.  What is posted on a dead port is lost.  The events of a       *)
(* cancelled request find no object that names it and are ignored, so the   *)
(* request is dropped here.                                                 *)

InUse == DOMAIN requests
           \cup (IF active = 0 THEN {}
                 ELSE EnhancesOf(Current) \cup {Current.activeBind, Current.activeSegment})

(* crypto.randomUUID: a name that nothing has.                              *)
FreshRequest(kind) == <<kind, Unused({n \in 1..(Cardinality(InUse) + 1) : <<kind, n>> \in InUse})>>

Post(rs, r, request) ==
  IF port = "dead" THEN rs
  ELSE [q \in (DOMAIN rs \cup {r}) |-> IF q = r THEN request ELSE rs[q]]

Cancel(rs, ended) == [q \in (DOMAIN rs \ ended) |-> rs[q]]

(* A CANCEL of requests whose ids the active object keeps.                  *)
Disown(rs, ended) ==
  [q \in DOMAIN rs |-> IF q \in ended THEN [rs[q] EXCEPT !.cancelled = TRUE] ELSE rs[q]]

(* Nobody listens to the running bind of o any more.                        *)
Abandon(rs, o) ==
  [q \in DOMAIN rs |->
     IF q = o.activeBind THEN [rs[q] EXCEPT !.abandoned = TRUE] ELSE rs[q]]

-------------------------------------------------------------------------------
(* Acceptance migration.                                                    *)

SmallerOf(m, n) == IF m < n THEN m ELSE n

(* The clauses before firstDivergenceIndex.                                 *)
Undiverged(old, new) ==
  {k \in 1..SmallerOf(Len(old), Len(new)) : \A j \in 1..k : old[j] = new[j]}

MigratedAcceptance(o, new) ==
  {k \in DOMAIN new :
     \E j \in o.accepted \cap DOMAIN o.draftSegments : o.draftSegments[j] = new[k]}

(* The acceptances follow their ids to the new clauses, in a new set; the   *)
(* streams of the clauses that are gone, or behind the first difference,    *)
(* are given up.                                                            *)
Migrated(o, new) ==
  LET kept == MigratedAcceptance(o, new)
      upstream == Undiverged(o.draftSegments, new)
      Live(p) == \/ o.activeEnhance[p] = NoRequest
                 \/ \E k \in upstream : new[k] = p
  IN  [o EXCEPT !.accepted = kept, !.box = OwnBox,
                !.hasStaleAccepted =
                   \/ ~(kept \subseteq upstream)
                   \/ o.hasStaleAccepted /\ kept # {},
                !.activeEnhance = [p \in Positions |-> IF Live(p) THEN @[p] ELSE NoRequest],
                !.enhancedText = [p \in Positions |-> IF Live(p) THEN @[p] ELSE NoText]]

(* Mutant: the streams are forgotten, not cancelled.                        *)
NoneGivenUp(o, new) == {}

(* The requests that are cancelled when o becomes new.                      *)
GivenUp(o, new) == EnhancesOf(o) \ EnhancesOf(new)

(* renderDraftSegments.                                                     *)
Rendered(o, text, segments, stale) ==
  IF text = EmptyText \/ o.input \in gone THEN DraftCleared(o)
  ELSE [o EXCEPT !.draftText = text, !.draftSegments = segments, !.draftIsStale = stale]

-------------------------------------------------------------------------------
(* Input events.                                                            *)

(* Mutant: the acceptances are not marked stale.                            *)
InterruptedUnmarked(o) == [WorkCleared(BindCancelled(o)) EXCEPT !.draftIsStale = TRUE]

(* Mutant: the running bind is left alone.                                  *)
InterruptedStillBinding(o) ==
  [WorkCleared(o) EXCEPT
     !.draftIsStale = TRUE,
     !.hasStaleAccepted = @ \/ o.accepted # {}]

(* Mutant: the underlines are not dimmed.                                   *)
InterruptedUndimmed(o) ==
  [WorkCleared(BindCancelled(o)) EXCEPT !.hasStaleAccepted = @ \/ o.accepted # {}]

(* What scheduleDebouncedExtraction makes of the active object of input i.  *)
Interrupted(o) ==
  [WorkCleared(BindCancelled(o)) EXCEPT
     !.draftIsStale = TRUE,
     !.hasStaleAccepted = @ \/ o.accepted # {}]

(* The copy of the active object that an input event makes.                 *)
Copied(o) ==
  [Interrupted(o) EXCEPT !.debounce = "timer", !.source = o.input]

(* An input event on input i, which now holds text.                         *)
Input(i, text) ==
  /\ i \notin gone
  /\ edits < MaxEdits
  /\ edits' = edits + 1
  /\ typed' = [typed EXCEPT ![i] = text]
  /\ approved' = {}
  /\ IF active # 0 /\ Current.input = i
     THEN /\ Supersede(Interrupted(Current), Copied(Current))
          /\ requests' = Cancel(requests, {Current.activeBind})
          /\ bindCalls' = IF Current.accepted = {} THEN Outlived ELSE bindCalls
     ELSE IF active # 0
     THEN /\ Supersede(DraftCleared(WorkCleared(Current)), NewState(i))
          /\ requests' = Abandon(Cancel(requests, EnhancesOf(Current)), Current)
          /\ bindCalls' = Outlived
     ELSE /\ Supersede(NewState(i), NewState(i))
          /\ UNCHANGED <<requests, bindCalls>>
  /\ UNCHANGED <<gone, port>>

Edit == \E i \in Inputs, text \in Texts : Input(i, text)

(* The debounce timer fires: the text of the input it was set for is read,  *)
(* then the storage awaited.                                                *)
DebounceFires ==
  /\ active # 0
  /\ Current.debounce = "timer"
  /\ Update([Current EXCEPT !.debounce = "reading", !.extracted = typed[Current.source]])
  /\ UNCHANGED <<typed, gone, active, bindCalls, enhanceCalls, requests, port, approved, edits>>

(* The storage has been read: the acceptances migrate, and a SEGMENT goes   *)
(* out with the new draft rendered, unless there is no token or the         *)
(* extension is paused.                                                     *)
DebounceResumes ==
  /\ active # 0
  /\ Current.debounce = "reading"
  /\ \E context \in Contexts :
       LET text     == Current.extracted
           segments == Split[text]
           moved    == [Migrated(Current, segments) EXCEPT !.debounce = "none", !.focused = 0,
                                 !.extracted = EmptyText]
           r        == FreshRequest("SEGMENT")
           Becomes(o) == Update(o) /\ requests' = Cancel(requests, GivenUp(Current, o))
       IN  CASE context = "ok" ->
                  LET o    == Rendered([moved EXCEPT !.activeSegment = r], text, segments, FALSE)
                      sent == Cancel(requests, GivenUp(Current, o))
                  IN  /\ Update(o)
                      /\ requests' = Post(sent, r, [verb |-> "SEGMENT", text |-> text])
             [] context = "paused" ->
                  Becomes([moved EXCEPT !.activeSegment = NoRequest, !.draftIsStale = TRUE])
             [] context = "signedOut" ->
                  Becomes(DraftCleared([moved EXCEPT !.activeSegment = NoRequest]))
  /\ UNCHANGED <<typed, gone, active, bindCalls, enhanceCalls, port, approved, edits>>

-------------------------------------------------------------------------------
(* Review: Tab, Enter, Backspace and Escape on the active input.            *)

HasKeys == active # 0 /\ Current.input \notin gone

Reviewing == HasKeys /\ Current.draftSegments # <<>>

(* Mutant: the focus does not wrap around.                                  *)
FocusWithoutWrapping(direction) ==
  /\ Reviewing
  /\ Update([Current EXCEPT !.focused = IF direction = "forward" THEN @ + 1 ELSE @ - 1])
  /\ UNCHANGED <<typed, gone, active, bindCalls, enhanceCalls, requests, port, approved, edits>>

FocusSegment(direction) ==
  /\ Reviewing
  /\ LET count == Len(Current.draftSegments)
         next  == IF direction = "forward"
                  THEN (Current.focused % count) + 1
                  ELSE IF Current.focused = 0 THEN count
                       ELSE ((Current.focused + count - 2) % count) + 1
     IN  Update([Current EXCEPT !.focused = next])
  /\ UNCHANGED <<typed, gone, active, bindCalls, enhanceCalls, requests, port, approved, edits>>

MayCommit(o) == o.ghostStreamComplete /\ o.pendingGhostText > 0

(* findNextUnacceptedIndex from the clause after k on, k if there is none.  *)
NextUnaccepted(o, accepted, k) ==
  LET after  == {j \in DOMAIN o.draftSegments : j > k} \ accepted
      before == (1..k) \ accepted
      First(ks) == CHOOSE j \in ks : \A m \in ks : j <= m
  IN  IF after # {} THEN First(after) ELSE IF before # {} THEN First(before) ELSE k

(* Enter accepts the focused clause.  An answer of the backend may have left *)
(* the focus behind the last clause; nothing checks that here.              *)
AcceptFocusedSegment ==
  /\ Reviewing
  /\ Current.focused # 0
  /\ ~MayCommit(Current)
  /\ LET k   == Current.focused
         set == Current.accepted \cup {k}
     IN  /\ Update([Current EXCEPT !.accepted = set, !.focused = NextUnaccepted(Current, set, k)])
         /\ approved' = approved \cup {Current.draftSegments[j] : j \in {k} \cap DOMAIN Current.draftSegments}
  /\ UNCHANGED <<typed, gone, active, bindCalls, enhanceCalls, requests, port, edits>>

UnacceptSegment ==
  /\ HasKeys
  /\ Current.focused \in Current.accepted
  /\ LET k   == Current.focused
         set == Current.accepted \ {k}
     IN  /\ Update([Current EXCEPT !.accepted = set, !.hasStaleAccepted = @ /\ set # {}])
         /\ approved' = approved \ {Current.draftSegments[j] : j \in {k} \cap DOMAIN Current.draftSegments}
  /\ UNCHANGED <<typed, gone, active, bindCalls, enhanceCalls, requests, port, edits>>

(* Escape cancels the running bind, or else leaves the review.  A complete  *)
(* bind still has its request id, so its own branch is never taken.         *)
Escape ==
  /\ HasKeys
  /\ \/ /\ Current.activeBind # NoRequest
        /\ Update(BindCancelled(Current))
        /\ requests' = Cancel(requests, {Current.activeBind})
     \/ /\ Current.activeBind = NoRequest
        /\ Current.focused # 0
        /\ Update([Current EXCEPT !.focused = 0])
        /\ UNCHANGED requests
  /\ UNCHANGED <<typed, gone, active, bindCalls, enhanceCalls, port, approved, edits>>

-------------------------------------------------------------------------------
(* Bind and commit.                                                         *)

IsBindGateOpen(o) ==
  /\ o.accepted # {}
  /\ ~o.hasStaleAccepted
  /\ o.activeBind = NoRequest
  /\ o.bindPhase = "IDLE"

(* Cmd+Enter: the sections are collected, then the storage awaited.         *)
DispatchBind(c) ==
  /\ bindCalls[c] = NoCall
  /\ Reviewing
  /\ IsBindGateOpen(Current)
  /\ bindCalls' = [bindCalls EXCEPT ![c] =
       [state |-> active,
        basis |-> [text |-> Current.draftText,
                   fresh |-> Current.draftText = typed[Current.source],
                   accepted |-> {Current.draftSegments[k] :
                                   k \in Current.accepted \cap DOMAIN Current.draftSegments}],
        outlived |-> FALSE]]
  /\ UNCHANGED <<typed, gone, active, states, enhanceCalls, requests, port, approved, edits>>

Forget(c) ==
  LET calls == [bindCalls EXCEPT ![c] = NoCall]
      held  == {calls[d].state : d \in {e \in BindCalls : calls[e] # NoCall}}
  IN  held \cup ({active} \ {0})

(* Mutant: the text of a failed bind stays in front of the answer.          *)
BindingOnTop(o, r, basis) ==
  [o EXCEPT !.bindPhase = "BINDING", !.activeBind = r, !.basis = basis,
            !.ghostStreamComplete = FALSE]

Binding(o, r, basis) ==
  [o EXCEPT !.bindPhase = "BINDING", !.activeBind = r, !.basis = basis,
            !.pendingGhostText = 0, !.ghostStreamComplete = FALSE]

(* Mutant: the gate is not looked at again.                                 *)
IsAssumedOpen(o) == TRUE

(* The gate after the await.                                                *)
IsStillOpen(o) == IsBindGateOpen(o)

(* The storage has been read: the gate is looked at again, on the object    *)
(* the call was made on.                                                    *)
BindResumes(c) ==
  /\ bindCalls[c] # NoCall
  /\ LET s == bindCalls[c].state
         r == FreshRequest("BIND")
     IN  \/ /\ Contexts \cap {"ok", "paused"} # {}
            /\ IsStillOpen(states[s])
            /\ states' = [q \in Forget(c) |->
                            IF q = s THEN Binding(states[s], r, bindCalls[c].basis) ELSE states[q]]
            /\ requests' = Post(requests, r,
                 [verb |-> "BIND", tokens |-> 0, abandoned |-> bindCalls[c].outlived])
         \/ /\ "signedOut" \in Contexts \/ ~IsStillOpen(states[s])
            /\ states' = [q \in Forget(c) |-> states[q]]
            /\ UNCHANGED requests
  /\ bindCalls' = [bindCalls EXCEPT ![c] = NoCall]
  /\ UNCHANGED <<typed, gone, active, enhanceCalls, port, approved, edits>>

(* resetActiveInputAfterCommit: of the object the commit was started on.    *)
Reset(o) ==
  DraftCleared(WorkCleared(
    [o EXCEPT !.accepted = {}, !.box = FreshBox, !.hasStaleAccepted = FALSE,
              !.focused = 0, !.activeSegment = NoRequest, !.activeBind = NoRequest, !.basis = NoBasis,
              !.pendingGhostText = 0, !.ghostStreamComplete = FALSE]))

(* Enter on a complete bind: the text is written and an input event fired,  *)
(* whose handler runs at once and copies the state; then the original is    *)
(* reset.  The reset cancels the expansions, whose ids the copy still has.  *)
CommitGhostText ==
  /\ HasKeys
  /\ MayCommit(Current)
  /\ edits < MaxEdits
  /\ edits' = edits + 1
  /\ \E text \in Texts \ {EmptyText} : typed' = [typed EXCEPT ![Current.input] = text]
  /\ approved' = {}
  /\ Supersede(Reset(Interrupted(Current)), Copied(Current))
  /\ requests' = Disown(requests, EnhancesOf(Current))
  /\ UNCHANGED <<gone, bindCalls, port>>

-------------------------------------------------------------------------------
(* Bridge messages, routed by request id.                                   *)

Ended(r) == Cancel(requests, {r})

(* mapBackendSectionsToDraftSegments finds nothing in a draft that has been *)
(* cleared.                                                                 *)
Answers(r) == IF Current.draftText = EmptyText THEN {<<>>} ELSE Sections[requests[r].text]

ReceiveSegments(r) ==
  /\ requests[r].verb = "SEGMENT"
  /\ IF active # 0 /\ Current.activeSegment = r
     THEN \E new \in Answers(r) :
       LET o     == [Current EXCEPT !.activeSegment = NoRequest]
           moved == Rendered(Migrated(o, new), o.draftText, new, o.draftIsStale)
       IN  IF new = <<>> THEN Update(o) /\ requests' = Ended(r) /\ UNCHANGED enhanceCalls
           ELSE /\ Update(moved)
                /\ requests' = Cancel(requests, {r} \cup GivenUp(o, moved))
                /\ enhanceCalls' = enhanceCalls \cup
                     {[position |-> p, text |-> o.draftText] :
                        p \in {q \in {new[k] : k \in DOMAIN new} :
                                 /\ moved.activeEnhance[q] = NoRequest
                                 /\ moved.enhancedText[q] = NoText}}
     ELSE requests' = Ended(r) /\ UNCHANGED <<states, enhanceCalls>>
  /\ UNCHANGED <<typed, gone, active, bindCalls, port, approved, edits>>

(* dispatchEnhanceRequest after its await.                                  *)
EnhanceResumes(call) ==
  /\ enhanceCalls' = enhanceCalls \ {call}
  /\ LET p == call.position
         r == FreshRequest(p)
     IN  \/ /\ Contexts \cap {"ok", "paused"} # {}
            /\ Current.activeEnhance[p] = NoRequest
            /\ Update([Current EXCEPT !.activeEnhance[p] = r])
            /\ requests' = Post(requests, r,
                 [verb |-> "ENHANCE", text |-> call.text, cancelled |-> FALSE,
                  late |-> p \notin ClausesOf(Current)])
         \/ /\ "signedOut" \in Contexts \/ Current.activeEnhance[p] # NoRequest
            /\ UNCHANGED <<states, requests>>
  /\ UNCHANGED <<typed, gone, active, bindCalls, port, approved, edits>>

ReceiveEnhanceToken(r) ==
  /\ requests[r].verb = "ENHANCE"
  /\ active # 0
  /\ \E p \in Names(Current, r) :
       Update([Current EXCEPT !.enhancedText[p] = IF @ = NoText THEN requests[r].text ELSE @])
  /\ UNCHANGED <<typed, gone, active, bindCalls, enhanceCalls, requests, port, approved, edits>>

ReceiveBindToken(r) ==
  /\ requests[r].verb = "BIND"
  /\ requests[r].tokens < MaxTokens
  /\ active # 0
  /\ Current.activeBind = r
  /\ requests' = [requests EXCEPT ![r].tokens = @ + 1]
  /\ Update([Current EXCEPT !.bindPhase = "BINDING", !.pendingGhostText = @ + 1])
  /\ UNCHANGED <<typed, gone, active, bindCalls, enhanceCalls, port, approved, edits>>

(* handleBindStreamDone keeps the request id.                               *)
BindDone(o) == [o EXCEPT !.bindPhase = "COMPLETE", !.ghostStreamComplete = TRUE]

(* Mutant: the request id of a failed bind stays.                           *)
BindFailedKeepingId(o) == [o EXCEPT !.bindPhase = "IDLE", !.ghostStreamComplete = FALSE]

(* handleBindStreamError keeps the text that has come.                      *)
BindFailed(o) ==
  [o EXCEPT !.bindPhase = "IDLE", !.ghostStreamComplete = FALSE, !.activeBind = NoRequest,
            !.basis = NoBasis]

EnhanceEnded(o, r) ==
  [o EXCEPT !.activeEnhance = [p \in Positions |-> IF @[p] = r THEN NoRequest ELSE @[p]]]

ReceiveDone(r) ==
  /\ requests[r].verb # "SEGMENT"
  /\ requests' = Ended(r)
  /\ IF active = 0 THEN UNCHANGED states
     ELSE IF Current.activeBind = r THEN Update(BindDone(Current))
     ELSE Update(EnhanceEnded(Current, r))
  /\ UNCHANGED <<typed, gone, active, bindCalls, enhanceCalls, port, approved, edits>>

ReceiveError(r) ==
  /\ requests' = Ended(r)
  /\ IF active = 0 THEN UNCHANGED states
     ELSE IF Current.activeBind = r THEN Update(BindFailed(Current))
     ELSE IF Current.activeSegment = r THEN Update([Current EXCEPT !.activeSegment = NoRequest])
     ELSE Update(EnhanceEnded(Current, r))
  /\ UNCHANGED <<typed, gone, active, bindCalls, enhanceCalls, port, approved, edits>>

-------------------------------------------------------------------------------
(* The page takes inputs away and adds others: the discovery observer.      *)

(* Without a bind, an object whose input has gone is cleared.               *)
Detach ==
  LET o == DraftCleared(BindCancelled(WorkCleared(Current)))
  IN  /\ Update(o)
      /\ requests' = Cancel(requests, GivenUp(Current, o) \cup {Current.activeBind})

(* reattachActiveInput: a bind goes on in an input that has come.           *)
Reattach(left) ==
  /\ \E j \in gone \ left : Update([Current EXCEPT !.input = j])
  /\ UNCHANGED requests

(* No input that has come resembles the one that has gone: the bind goes    *)
(* on, and what is cleared is the object rendered last.  That is the active *)
(* one, or one it is a copy of, whose expansions are then cancelled while   *)
(* the copy keeps their ids, or none.                                       *)
Orphan ==
  \/ LET o == DraftCleared(Current)
     IN  Update(o) /\ requests' = Cancel(requests, GivenUp(Current, o))
  \/ /\ requests' \in {Disown(requests, EnhancesOf(Current)), requests}
     /\ UNCHANGED states

(* What comes and goes while the active input stays is not looked at.       *)
PageChanges ==
  /\ active # 0
  /\ edits < MaxEdits
  /\ \E left \in SUBSET Inputs :
       /\ Current.input \in gone \cup left
       /\ gone' = left
       /\ \/ Current.input \notin left /\ UNCHANGED <<states, requests>>
          \/ Current.input \in left /\ Current.bindPhase = "IDLE" /\ Detach
          \/ Current.input \in left /\ Current.bindPhase # "IDLE" /\ (Reattach(left) \/ Orphan)
  /\ UNCHANGED <<typed, active, bindCalls, enhanceCalls, port, approved, edits>>

-------------------------------------------------------------------------------
(* The worker dies with its requests; the script learns of it later, and    *)
(* forgets its expansions, not its bind.                                    *)
WorkerDies ==
  /\ edits < MaxEdits
  /\ port = "open"
  /\ port' = "dead"
  /\ requests' = NoRequests
  /\ UNCHANGED <<typed, gone, active, states, bindCalls, enhanceCalls, approved, edits>>

(* Mutant: the expansions are still waited for.                             *)
PortDisconnectsUnnoticed ==
  /\ port = "dead"
  /\ port' = "open"
  /\ UNCHANGED <<typed, gone, active, states, bindCalls, enhanceCalls, requests, approved, edits>>

PortDisconnects ==
  /\ port = "dead"
  /\ port' = "open"
  /\ IF active = 0 THEN UNCHANGED states
     ELSE Update([Current EXCEPT !.activeEnhance = [p \in Positions |-> NoRequest]])
  /\ UNCHANGED <<typed, gone, active, bindCalls, enhanceCalls, requests, approved, edits>>

(* The popup or the worker has removed promptcompiler.auth.                 *)
SignOut ==
  /\ active # 0
  /\ active' = 0
  /\ states' = [s \in Held |->
                  IF s = active THEN LeftBehind(WorkCleared(Current)) ELSE states[s]]
  /\ requests' = Abandon(Cancel(requests, EnhancesOf(Current)), Current)
  /\ enhanceCalls' = {}
  /\ bindCalls' = Outlived
  /\ approved' = {}
  /\ UNCHANGED <<typed, gone, port, edits>>

-------------------------------------------------------------------------------
Receive(r) ==
  ReceiveSegments(r) \/ ReceiveEnhanceToken(r) \/ ReceiveBindToken(r)
    \/ ReceiveDone(r) \/ ReceiveError(r)

Next ==
  \/ Edit
  \/ DebounceFires
  \/ DebounceResumes
  \/ \E direction \in {"forward", "backward"} : FocusSegment(direction)
  \/ AcceptFocusedSegment
  \/ UnacceptSegment
  \/ Escape
  \/ \E c \in BindCalls : DispatchBind(c)
  \/ \E c \in BindCalls : BindResumes(c)
  \/ CommitGhostText
  \/ \E call \in enhanceCalls : EnhanceResumes(call)
  \/ \E r \in DOMAIN requests : Receive(r)
  \/ WorkerDies
  \/ PortDisconnects
  \/ SignOut
  \/ PageChanges

Spec == Init /\ [][Next]_vars

-------------------------------------------------------------------------------
(* Properties.                                                              *)

(* Whenever the bind gate is open, the user has accepted every clause it    *)
(* would bind as accepted, and since the last input event: no chain of      *)
(* edits, re-segmentations and late answers carries an acceptance over to a *)
(* text the user has not reviewed.                                          *)
GateMeansApproved ==
  active # 0 /\ IsBindGateOpen(Current) =>
    \A k \in Current.accepted \cap DOMAIN Current.draftSegments :
      Current.draftSegments[k] \in approved

(* A bind of the text that was in the input is a bind of the text that is:  *)
(* its answer never replaces what was typed meanwhile.  (When the page has  *)
(* replaced the input, of the text of the one that was typed into.)         *)
BindAnswersInput ==
  active # 0 /\ Current.activeBind # NoRequest /\ Current.basis.fresh =>
    Current.basis.text = typed[Current.source]

(* The phase, the request id and the completion of a bind agree, whatever   *)
(* the order of keys, edits and stream events: the gate is not left closed  *)
(* without a bind that can be cancelled, nor a commit offered without one.  *)
BindPhaseAgrees ==
  active # 0 =>
    /\ Current.activeBind = NoRequest <=> Current.bindPhase = "IDLE"
    /\ Current.ghostStreamComplete <=> Current.bindPhase = "COMPLETE"

(* The panel holds the tokens of the running bind, all and only.            *)
PanelIsAnswer ==
  active # 0 /\ Current.activeBind \in DOMAIN requests =>
    Current.pendingGhostText = requests[Current.activeBind].tokens

(* A bind the worker runs is the active one, which Escape and the next edit *)
(* cancel, unless the user has gone to another input or signed out, before  *)
(* the bind or during it: two quick Cmd+Enter start one bind, and an edit   *)
(* or a commit stops also a bind that still awaits the storage.  One edit   *)
(* does not: that made when nothing was accepted any more, as the gate is   *)
(* then opened for the awaiting bind by the next acceptance.                *)
BindsAreHeard ==
  \A r \in DOMAIN requests :
    requests[r].verb = "BIND" /\ ~requests[r].abandoned =>
      active # 0 /\ Current.activeBind = r

(* An expansion the worker streams is that of a clause of the draft: it is  *)
(* given up with its clause, whether an edit, another input, an answer of   *)
(* the backend, a sign-out or the page takes that away.  But the guard of   *)
(* dispatchEnhanceRequest does not see a clause that goes while the storage *)
(* is read (late): the position still names such a stream.                  *)
EnhancesAreHeard ==
  \A r \in DOMAIN requests :
    requests[r].verb = "ENHANCE" /\ ~requests[r].cancelled =>
      /\ active # 0
      /\ \E p \in Names(Current, r) : requests[r].late \/ p \in ClausesOf(Current)

(* A clause that waits for an expansion has one coming, or onDisconnect is  *)
(* about to run: a lost one does not keep the clause from being asked for   *)
(* again.                                                                   *)
EnhancesAreAnswered ==
  active # 0 /\ port = "open" => EnhancesOf(Current) \subseteq DOMAIN requests

(* Underlines that are not dimmed are those of the text in the input, or in *)
(* the one that it has replaced.                                            *)
FreshDraftIsTyped ==
  active # 0 /\ Current.draftSegments # <<>> /\ ~Current.draftIsStale =>
    Current.draftText = typed[Current.source]

(* A comment (content/index.ts:2702) says a pure pass-through bind cannot   *)
(* fire: each bind that is started carries a clause the user accepted.      *)
NoPassThroughBind ==
  \A c \in BindCalls : bindCalls[c] # NoCall => bindCalls[c].basis.accepted # {}

(* UX_FLOW.md:135 says that an edit of a clause clears the expansions of    *)
(* the clauses that depend on it, those after it, which are expanded again  *)
(* before they can be bound: no clause is bound with an expansion made when *)
(* an earlier clause was worded otherwise.                                  *)
BoundExpansionsAreCurrent ==
  active # 0 /\ IsBindGateOpen(Current) =>
    \A k \in Current.accepted \cap DOMAIN Current.draftSegments :
      LET source == Current.enhancedText[Current.draftSegments[k]]
      IN  source # NoText =>
            \A j \in 1..(k - 1) :
              LET p == Current.draftSegments[j]
              IN  Wording[source][p] = Wording[Current.draftText][p]
===============================================================================
