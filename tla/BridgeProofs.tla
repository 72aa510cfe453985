----------------------------- MODULE BridgeProofs -----------------------------
(* Theorems of Bridge, for every set of tabs, ports and requests.           *)
EXTENDS Bridge, TLAPS

USE DEF Working, Clearing, InFlight

(* A post appends one event or nothing.                                     *)
LEMMA PostType ==
  ASSUME TypeOK, NEW p \in Ports, NEW r \in Requests, NEW e \in Events, Post(p, r, e)
  PROVE  out' \in [Requests -> Seq(Events)]
<1>1. Append(out[r], e) \in Seq(Events)
  BY DEF TypeOK
<1>2. QED
  BY <1>1 DEF TypeOK, Post

(* The variables that Coroutine, the CANCEL handlers and the port handlers  *)
(* write through the helpers keep their types.                              *)
LEMMA RequestType ==
  ASSUME TypeOK, ParametersAssumption, NEW r \in Requests
  PROVE  /\ Tab(r) \in Tabs
         /\ PortOf[r] \in Ports
         /\ SetTerminal(r) => terminalSent' \in [Requests -> BOOLEAN]
         /\ EnterFinally(r) => /\ pc' \in [Requests -> InFlight \cup {"idle", "finished", "killed"}]
                               /\ saw' \in [Requests -> BOOLEAN]
<1>1. PortOf[r] \in Ports /\ Tab(r) \in Tabs
  BY DEF ParametersAssumption, Tab
<1>2. SetTerminal(r) => terminalSent' \in [Requests -> BOOLEAN]
  BY Zenon DEF TypeOK, SetTerminal
<1>3. EnterFinally(r) => pc' \in [Requests -> InFlight \cup {"idle", "finished", "killed"}]
  BY DEF TypeOK, EnterFinally
<1>4. EnterFinally(r) => saw' \in [Requests -> BOOLEAN]
  BY DEF TypeOK, EnterFinally
<1>5. QED
  BY <1>1, <1>2, <1>3, <1>4

LEMMA AnswerType ==
  ASSUME TypeOK, ParametersAssumption, NEW r \in Requests, NEW e \in Terminal,
         Answer(r, e) \/ AnswerOnce(r, e)
  PROVE  /\ out' \in [Requests -> Seq(Events)]
         /\ terminalSent' \in [Requests -> BOOLEAN]
         /\ pc' \in [Requests -> InFlight \cup {"idle", "finished", "killed"}]
         /\ saw' \in [Requests -> BOOLEAN]
<1>1. CASE Answer(r, e)
  <2>1. e \in Events
    BY DEF Terminal, Events
  <2>2. out' \in [Requests -> Seq(Events)]
    BY <1>1, <2>1, PostType, RequestType DEF Answer
  <2>3. QED
    BY <1>1, <2>2, RequestType DEF Answer
<1>2. CASE HasTerminalBeenSent(r) /\ EnterFinally(r) /\ UNCHANGED <<out, terminalSent>>
  BY <1>2, RequestType DEF TypeOK
<1>3. QED
  BY <1>1, <1>2 DEF AnswerOnce

LEMMA CancelLoopType ==
  ASSUME TypeOK, ParametersAssumption, NEW c \in Cancels,
         NEW target \in Requests \cup {NoReq}, NEW todo \in SUBSET Requests,
         CancelLoop(c, target, todo)
  PROVE  /\ out' \in [Requests -> Seq(Events)]
         /\ terminalSent' \in [Requests -> BOOLEAN]
         /\ aborted' \in [Requests -> BOOLEAN]
         /\ marker' \in [Tabs -> Requests \cup {NoReq}]
         /\ rejected' \in BOOLEAN
         /\ cancel' \in [Cancels -> [pc : CancelPc,
                                    target : Requests \cup {NoReq},
                                    todo : SUBSET Requests,
                                    cur : Requests \cup {NoReq},
                                    saw : BOOLEAN]]
<1>0. PortOf[c] \in Ports
  BY DEF ParametersAssumption
<1>1. ASSUME NEW r \in todo \cap active,
             IF terminalSent[r] THEN UNCHANGED out ELSE Post(PortOf[c], r, "done")
      PROVE  out' \in [Requests -> Seq(Events)]
  <2>1. r \in Requests /\ "done" \in Events
    BY DEF Events
  <2>2. CASE terminalSent[r]
    BY <1>1, <2>2 DEF TypeOK
  <2>3. CASE ~terminalSent[r]
    BY <1>0, <1>1, <2>1, <2>3, PostType
  <2>4. QED
    BY <2>2, <2>3
<1>2. CASE \E r \in todo \cap active :
             /\ IF terminalSent[r] THEN UNCHANGED out
                                   ELSE Post(PortOf[c], r, "done")
             /\ terminalSent' = [terminalSent EXCEPT ![r] = TRUE]
             /\ aborted' = [aborted EXCEPT ![r] = TRUE]
             /\ cancel' = [cancel EXCEPT ![c] =
                             [pc |-> "clearing", target |-> target,
                              todo |-> todo \ {r}, cur |-> r,
                              saw |-> marker[Tab(r)] = r]]
             /\ UNCHANGED storageVars
  <2>1. PICK r \in todo \cap active :
             /\ IF terminalSent[r] THEN UNCHANGED out
                                   ELSE Post(PortOf[c], r, "done")
             /\ terminalSent' = [terminalSent EXCEPT ![r] = TRUE]
             /\ aborted' = [aborted EXCEPT ![r] = TRUE]
             /\ cancel' = [cancel EXCEPT ![c] =
                             [pc |-> "clearing", target |-> target,
                              todo |-> todo \ {r}, cur |-> r,
                              saw |-> marker[Tab(r)] = r]]
             /\ UNCHANGED storageVars
    BY <1>2
  <2>2. [pc |-> "clearing", target |-> target, todo |-> todo \ {r}, cur |-> r,
         saw |-> marker[Tab(r)] = r]
          \in [pc : CancelPc, target : Requests \cup {NoReq}, todo : SUBSET Requests,
              cur : Requests \cup {NoReq}, saw : BOOLEAN]
    BY <2>1 DEF CancelPc
  <2>3. out' \in [Requests -> Seq(Events)]
    BY <2>1, <1>1
  <2>4. QED
    BY <2>1, <2>2, <2>3 DEF TypeOK, storageVars
<1>3. CASE /\ todo \cap active = {}
           /\ marker' = [marker EXCEPT ![Tab(c)] = NoReq]
           /\ cancel' = [cancel EXCEPT ![c] = [IdleCancel EXCEPT !.pc = "clearingTab"]]
           /\ UNCHANGED <<rejected, out, terminalSent, aborted>>
  BY <1>3 DEF TypeOK, IdleCancel, CancelPc
<1>4. CASE /\ todo \cap active = {}
           /\ RemoveRejected
           /\ cancel' = [cancel EXCEPT ![c] =
                           [IdleCancel EXCEPT !.pc = "tabClearFailed", !.target = target]]
           /\ UNCHANGED <<out, terminalSent, aborted>>
  BY <1>4 DEF TypeOK, IdleCancel, CancelPc, RemoveRejected
<1>5. QED
  BY <1>2, <1>3, <1>4 DEF CancelLoop

LEMMA RemoveMarkerType ==
  ASSUME TypeOK, NEW t \in Tabs, RemoveMarker(t)
  PROVE  marker' \in [Tabs -> Requests \cup {NoReq}] /\ rejected' \in BOOLEAN
BY DEF TypeOK, RemoveMarker, RemoveRejected

(* Type correctness, one step per action.                                   *)
LEMMA TypeInit == ParametersAssumption /\ Init => TypeOK
<1> SUFFICES ASSUME ParametersAssumption, Init
             PROVE  TypeOK
  OBVIOUS
<1>1. IdleCancel \in [pc : CancelPc, target : Requests \cup {NoReq},
                     todo : SUBSET Requests, cur : Requests \cup {NoReq},
                     saw : BOOLEAN]
  BY DEF IdleCancel, CancelPc
<1>2. <<>> \in Seq(Events)
  OBVIOUS
<1>3. 0 \in 0..MaxTokens /\ 0 \in 0..MaxCrashes
  BY DEF ParametersAssumption
<1>4. pc \in [Requests -> InFlight \cup {"idle", "finished", "killed"}]
  BY DEF Init
<1>5. QED
  BY <1>1, <1>2, <1>3, <1>4 DEF Init, TypeOK

LEMMA CoroutineType ==
  ASSUME TypeOK, ParametersAssumption, NEW r \in Requests, Coroutine(r)
  PROVE  TypeOK'
<1> USE DEF RequestFrame, recoveryVars, historyVars, storageVars
<1>0. /\ Tab(r) \in Tabs
      /\ PortOf[r] \in Ports
      /\ {"token", "done", "error", "segment"} \subseteq Events
      /\ {"done", "error", "segment"} \subseteq Terminal
  BY RequestType DEF Events, Terminal
<1>1. ASSUME NEW e \in Terminal, Answer(r, e) \/ AnswerOnce(r, e), RequestFrame,
             UNCHANGED <<storageVars, active, tokens>>
      PROVE  TypeOK'
  BY <1>1, AnswerType DEF TypeOK
<1>2. ASSUME NEW label \in Working \cup {"removing", "finished"}, Goto(r, label),
             RequestFrame, UNCHANGED <<storageVars, tokens>>,
             active' \subseteq active
      PROVE  TypeOK'
  BY <1>2 DEF TypeOK, Goto
<1>3. CASE PersistFailed(r)
  <2>1. out' \in [Requests -> Seq(Events)]
    BY <1>0, <1>3, PostType DEF PersistFailed
  <2>2. terminalSent' \in [Requests -> BOOLEAN]
    BY <1>3, RequestType DEF PersistFailed
  <2>3. QED
    BY <1>3, <2>1, <2>2 DEF PersistFailed, TypeOK
<1>4. CASE Fetch(r)
  BY <1>2, <1>4 DEF Fetch
<1>5. CASE Respond(r)
  BY <1>0, <1>1, <1>2, <1>5 DEF Respond
<1>6. CASE Refreshed(r)
  BY <1>0, <1>1, <1>2, <1>6 DEF Refreshed
<1>7. CASE ErrorRead(r)
  BY <1>0, <1>1, <1>7 DEF ErrorRead
<1>8. CASE SegmentAnswer(r)
  BY <1>0, <1>1, <1>8 DEF SegmentAnswer
<1>9. CASE Token(r)
  <2>1. out' \in [Requests -> Seq(Events)]
    BY <1>0, <1>9, PostType DEF Token
  <2>2. tokens' \in [Requests -> 0..MaxTokens]
    BY <1>9 DEF Token, TypeOK, ParametersAssumption
  <2>3. QED
    BY <1>9, <2>1, <2>2 DEF Token, TypeOK
<1>10. CASE TerminalFrame(r)
  BY <1>0, <1>1, <1>10 DEF TerminalFrame
<1>11. CASE StreamEnd(r)
  BY <1>0, <1>1, <1>11 DEF StreamEnd
<1>12. CASE FetchFails(r)
  BY <1>0, <1>1, <1>12 DEF FetchFails
<1>13. CASE ClearMarker(r)
  <2>1. marker' \in [Tabs -> Requests \cup {NoReq}] /\ rejected' \in BOOLEAN
    BY <1>0, <1>13, RemoveMarkerType DEF ClearMarker
  <2>2. QED
    BY <1>13, <2>1 DEF ClearMarker, TypeOK
<1>14. CASE Finish(r)
  BY <1>2, <1>14 DEF Finish
<1>15. QED
  BY <1>3, <1>4, <1>5, <1>6, <1>7, <1>8, <1>9, <1>10, <1>11, <1>12, <1>13,
     <1>14 DEF Coroutine

LEMMA CancelType ==
  ASSUME TypeOK, ParametersAssumption, NEW c \in Cancels,
         ReceiveCancel(c) \/ OrphanedCancel(c) \/ CancelHandler(c)
  PROVE  TypeOK'
<1> USE DEF CancelFrame, recoveryVars, historyVars, storageVars
<1>0. PortOf[c] \in Ports /\ {"done", "error", "orphan"} \subseteq Events
  BY DEF ParametersAssumption, Events
<1>1. ASSUME NEW target \in Requests \cup {NoReq}, NEW todo \in SUBSET Requests,
             CancelLoop(c, target, todo), UNCHANGED recoveryVars, CancelFrame
      PROVE  TypeOK'
  BY <1>1, CancelLoopType DEF TypeOK
<1>2. CASE ReceiveCancel(c)
  <2>1. CASE CancelLoop(c, NoReq, {r \in active : Tab(r) = Tab(c)})
    BY <1>1, <1>2, <2>1 DEF ReceiveCancel, TypeOK
  <2>2. CASE \E r \in Requests : CancelLoop(c, r, {r})
    BY <1>1, <1>2, <2>2 DEF ReceiveCancel
  <2>3. QED
    BY <1>2, <2>1, <2>2 DEF ReceiveCancel
<1>3. CASE OrphanedCancel(c)
  <2>1. out' \in [Requests -> Seq(Events)]
    BY <1>0, <1>3, PostType DEF OrphanedCancel, TypeOK
  <2>2. cancel' \in [Cancels -> [pc : CancelPc,
                                 target : Requests \cup {NoReq},
                                 todo : SUBSET Requests,
                                 cur : Requests \cup {NoReq},
                                 saw : BOOLEAN]]
    BY <1>3 DEF OrphanedCancel, TypeOK, IdleCancel, CancelPc
  <2>3. QED
    BY <1>3, <2>1, <2>2 DEF OrphanedCancel, TypeOK
<1>4. CASE CancelRemove(c)
  <2>1. [cancel[c] EXCEPT !.pc = "removing", !.saw = FALSE]
          \in [pc : CancelPc, target : Requests \cup {NoReq},
              todo : SUBSET Requests, cur : Requests \cup {NoReq}, saw : BOOLEAN]
    <3>1. cancel[c] \in [pc : CancelPc, target : Requests \cup {NoReq},
                        todo : SUBSET Requests, cur : Requests \cup {NoReq},
                        saw : BOOLEAN]
      BY DEF TypeOK
    <3>2. "removing" \in CancelPc
      BY DEF CancelPc
    <3>3. QED
      BY <3>1, <3>2
  <2>2. marker' \in [Tabs -> Requests \cup {NoReq}] /\ rejected' \in BOOLEAN
    BY <1>4 DEF CancelRemove, RemoveMarker, RemoveRejected, TypeOK
  <2>3. QED
    BY <1>4, <2>1, <2>2 DEF CancelRemove, TypeOK
<1>5. CASE CancelNext(c)
  BY <1>1, <1>5 DEF CancelNext, TypeOK
<1>6. CASE CancelDone(c)
  BY <1>6 DEF CancelDone, TypeOK, IdleCancel, CancelPc
<1>7. CASE CancelFailed(c)
  <2>1. cancel[c].target \in Requests \cup {NoReq}
    BY DEF TypeOK
  <2>2. CASE UNCHANGED <<terminalSent, out>>
    BY <1>7, <2>2 DEF CancelFailed, TypeOK, IdleCancel, CancelPc
  <2>3. CASE /\ cancel[c].target # NoReq
             /\ SetTerminal(cancel[c].target)
             /\ Post(PortOf[c], cancel[c].target, "error")
    <3>1. out' \in [Requests -> Seq(Events)]
      BY <1>0, <2>1, <2>3, PostType
    <3>2. terminalSent' \in [Requests -> BOOLEAN]
      BY <2>1, <2>3, RequestType
    <3>3. QED
      BY <1>7, <3>1, <3>2 DEF CancelFailed, TypeOK, IdleCancel, CancelPc
  <2>4. QED
    BY <1>7, <2>2, <2>3 DEF CancelFailed
<1>8. QED
  BY <1>2, <1>3, <1>4, <1>5, <1>6, <1>7 DEF CancelHandler

LEMMA TypeNext ==
  ASSUME TypeOK, ParametersAssumption, [Next]_vars
  PROVE  TypeOK'
<1> USE DEF recoveryVars, requestVars, storageVars, historyVars
<1>1. CASE StartWorker
  BY <1>1 DEF StartWorker, TypeOK
<1>2. CASE Recover
  <2>1. marker' \in [Tabs -> Requests \cup {NoReq}] /\ rejected' \in BOOLEAN
    <3>1. CASE /\ marker' = [t \in Tabs |-> IF t \in snapshot THEN NoReq ELSE marker[t]]
               /\ UNCHANGED rejected
      BY <3>1 DEF TypeOK
    <3>2. CASE RemoveRejected
      BY <3>2 DEF RemoveRejected, TypeOK
    <3>3. QED
      BY <1>2, <3>1, <3>2 DEF Recover
  <2>2. QED
    BY <1>2, <2>1 DEF Recover, TypeOK
<1>3. CASE Crash
  <2>1. crashes' \in 0..MaxCrashes
    BY <1>3 DEF Crash, TypeOK, ParametersAssumption
  <2>2. cancel' \in [Cancels -> [pc : CancelPc,
                                 target : Requests \cup {NoReq},
                                 todo : SUBSET Requests,
                                 cur : Requests \cup {NoReq},
                                 saw : BOOLEAN]]
    BY <1>3 DEF Crash, TypeOK, IdleCancel, CancelPc
  <2>3. QED
    BY <1>3, <2>1, <2>2 DEF Crash, TypeOK
<1>4. ASSUME NEW p \in Ports, Connect(p)
      PROVE  TypeOK'
  BY <1>4 DEF Connect, TypeOK
<1>5. ASSUME NEW p \in Ports, Disconnect(p)
      PROVE  TypeOK'
  <2>1. marker' \in [Tabs -> Requests \cup {NoReq}] /\ rejected' \in BOOLEAN
    BY <1>5, RemoveMarkerType DEF Disconnect, ParametersAssumption
  <2>2. aborted' \in [Requests -> BOOLEAN]
    BY <1>5 DEF Disconnect, TypeOK
  <2>3. QED
    BY <1>5, <2>1, <2>2 DEF Disconnect, TypeOK
<1>6. ASSUME NEW r \in Requests, OrphanedRequest(r)
      PROVE  TypeOK'
  <2>1. out' \in [Requests -> Seq(Events)]
    BY <1>6, PostType, RequestType DEF OrphanedRequest, Events
  <2>2. QED
    BY <1>6, <2>1 DEF OrphanedRequest, TypeOK
<1>7. ASSUME NEW r \in Requests, Dispatch(r)
      PROVE  TypeOK'
  <2>1. pc' \in [Requests -> InFlight \cup {"idle", "finished", "killed"}]
    BY <1>7 DEF Dispatch, Goto, TypeOK
  <2>2. marker' \in [Tabs -> Requests \cup {NoReq}]
    BY <1>7 DEF Dispatch, TypeOK
  <2>3. QED
    BY <1>7, <2>1, <2>2 DEF Dispatch, Goto, TypeOK
<1>8. ASSUME NEW r \in Requests, LateRemove(r)
      PROVE  TypeOK'
  BY <1>8, RemoveMarkerType, RequestType DEF LateRemove, TypeOK
<1>9. CASE UNCHANGED vars
  BY <1>9 DEF vars, TypeOK
<1>10. QED
  BY <1>1, <1>2, <1>3, <1>4, <1>5, <1>6, <1>7, <1>8, <1>9, CoroutineType,
     CancelType DEF Next

(* The variables keep their types: every marker, map entry and event is of  *)
(* a shape the bridge's schemas allow.                                      *)
THEOREM TypeCorrect == Spec => []TypeOK
<1>1. Init => TypeOK
  BY TypeInit, ParametersAssumption
<1>2. TypeOK /\ [Next]_vars => TypeOK'
  BY TypeNext, ParametersAssumption
<1>3. QED
  BY <1>1, <1>2, PTL DEF Spec

-------------------------------------------------------------------------------
(* What a step of a coroutine does to the map, the markers and the program  *)
(* counters.                                                                *)
CoroutineStep(r) ==
  /\ UNCHANGED <<recoveryVars, port, aborted, cancel, lateRemoves, historyVars>>
  /\ pc[r] \in InFlight
  /\ \A q \in Requests \ {r} : pc'[q] = pc[q] /\ saw'[q] = saw[q]
  /\ \/ active' = active /\ pc'[r] \in InFlight
     \/ active' = active \ {r} /\ pc'[r] = "finished"
  /\ pc'[r] = "finished" =>
       pc[r] \in {"removing", "persistFailed"} \/ (pc[r] = "clearing" /\ ~saw[r])
  /\ pc'[r] # "persistFailed"
  /\ pc'[r] \in Working => pc[r] \in Working \ {"persistFailed"}
  /\ pc'[r] = "clearing" => saw'[r] = (marker[Tab(r)] = r)
  /\ pc'[r] = "removing" => rejected' \/ marker'[Tab(r)] = NoReq
  /\ IF pc'[r] = "removing" THEN RemoveMarker(Tab(r))
                            ELSE UNCHANGED storageVars

LEMMA CoroutineEffect ==
  ASSUME TypeOK, ParametersAssumption, NEW r \in Requests, Coroutine(r)
  PROVE  CoroutineStep(r)
<1> USE DEF RequestFrame, recoveryVars, historyVars, storageVars
<1>0. Tab(r) \in Tabs
  BY RequestType
<1>1. ASSUME NEW e, Answer(r, e) \/ AnswerOnce(r, e), RequestFrame,
             UNCHANGED <<storageVars, active, tokens>>,
             pc[r] \in Working \ {"persistFailed"}
      PROVE  CoroutineStep(r)
  <2>1. EnterFinally(r)
    BY <1>1 DEF Answer, AnswerOnce
  <2>2. QED
    BY <1>1, <2>1 DEF EnterFinally, TypeOK, CoroutineStep
<1>2. ASSUME NEW label \in Working \ {"persistFailed"}, Goto(r, label), RequestFrame,
             UNCHANGED <<storageVars, active, tokens>>,
             pc[r] \in Working \ {"persistFailed"}
      PROVE  CoroutineStep(r)
  BY <1>2 DEF Goto, TypeOK, CoroutineStep
<1>3. CASE PersistFailed(r)
  BY <1>3 DEF PersistFailed, TypeOK, CoroutineStep
<1>4. CASE Fetch(r)
  BY <1>2, <1>4 DEF Fetch
<1>5. CASE Respond(r)
  <2>1. pc[r] \in Working \ {"persistFailed"}
    BY <1>5 DEF Respond
  <2>2. QED
    BY <1>1, <1>2, <1>5, <2>1 DEF Respond
<1>6. CASE Refreshed(r)
  BY <1>1, <1>2, <1>6 DEF Refreshed
<1>7. CASE ErrorRead(r)
  BY <1>1, <1>7 DEF ErrorRead
<1>8. CASE SegmentAnswer(r)
  BY <1>1, <1>8 DEF SegmentAnswer
<1>9. CASE Token(r)
  BY <1>9 DEF Token, TypeOK, CoroutineStep
<1>10. CASE TerminalFrame(r)
  BY <1>1, <1>10 DEF TerminalFrame
<1>11. CASE StreamEnd(r)
  BY <1>1, <1>11 DEF StreamEnd
<1>12. CASE FetchFails(r)
  <2>1. pc[r] \in Working \ {"persistFailed"}
    BY <1>12 DEF FetchFails
  <2>2. QED
    BY <1>1, <1>12, <2>1 DEF FetchFails
<1>13. CASE ClearMarker(r)
  <2>1. rejected' \/ marker'[Tab(r)] = NoReq
    BY <1>0, <1>13 DEF ClearMarker, RemoveMarker, RemoveRejected, TypeOK
  <2>2. pc[r] \in InFlight /\ pc' = [pc EXCEPT ![r] = "removing"]
        /\ saw' = [saw EXCEPT ![r] = FALSE] /\ active' = active
    BY <1>13 DEF ClearMarker
  <2>3. pc'[r] = "removing" /\ \A q \in Requests \ {r} : pc'[q] = pc[q] /\ saw'[q] = saw[q]
    BY <2>2 DEF TypeOK
  <2>4. QED
    BY <1>13, <2>1, <2>2, <2>3 DEF ClearMarker, CoroutineStep
<1>14. CASE Finish(r)
  BY <1>14 DEF Finish, Goto, TypeOK, CoroutineStep
<1>15. QED
  BY <1>3, <1>4, <1>5, <1>6, <1>7, <1>8, <1>9, <1>10, <1>11, <1>12, <1>13,
     <1>14 DEF Coroutine

(* The CANCEL handlers never touch the map, the ports or a coroutine; they  *)
(* remove markers and consume orphan flags at most.                         *)
CancelStep ==
  /\ UNCHANGED <<sw, snapshot, port, active, pc, saw, tokens, lateRemoves,
                 historyVars>>
  /\ orphaned' \subseteq orphaned
  /\ rejected => rejected'
  /\ \A t \in Tabs : marker'[t] \in {marker[t], NoReq}

LEMMA RemoveMarkerEffect ==
  ASSUME TypeOK, NEW t \in Tabs, RemoveMarker(t)
  PROVE  /\ rejected => rejected'
         /\ \A u \in Tabs : marker'[u] \in {marker[u], NoReq}
BY DEF TypeOK, RemoveMarker, RemoveRejected

LEMMA CancelEffect ==
  ASSUME TypeOK, ParametersAssumption, NEW c \in Cancels,
         ReceiveCancel(c) \/ OrphanedCancel(c) \/ CancelHandler(c)
  PROVE  CancelStep
<1> USE DEF CancelFrame, recoveryVars, historyVars, storageVars
<1>0. Tab(c) \in Tabs
  BY DEF ParametersAssumption, Tab
<1>1. ASSUME NEW target, NEW todo, CancelLoop(c, target, todo)
      PROVE  /\ rejected => rejected'
             /\ \A t \in Tabs : marker'[t] \in {marker[t], NoReq}
  BY <1>0, <1>1 DEF CancelLoop, RemoveRejected, TypeOK
<1>2. CASE ReceiveCancel(c)
  BY <1>1, <1>2 DEF ReceiveCancel, CancelStep
<1>3. CASE OrphanedCancel(c)
  BY <1>3 DEF OrphanedCancel, CancelStep
<1>4. CASE CancelRemove(c)
  <2>1. CASE cancel[c].cur \in Requests
    BY <1>4, <2>1, RequestType, RemoveMarkerEffect DEF CancelRemove, CancelStep
  <2>2. CASE cancel[c].cur = NoReq
    BY <1>4, <2>2 DEF CancelRemove, CancelStep, RemoveMarker, RemoveRejected, TypeOK
  <2>3. QED
    BY <2>1, <2>2 DEF TypeOK
<1>5. CASE CancelNext(c)
  BY <1>1, <1>5 DEF CancelNext, CancelStep
<1>6. CASE CancelDone(c)
  BY <1>6 DEF CancelDone, CancelStep
<1>7. CASE CancelFailed(c)
  BY <1>7 DEF CancelFailed, CancelStep
<1>8. QED
  BY <1>2, <1>3, <1>4, <1>5, <1>6, <1>7 DEF CancelHandler

-------------------------------------------------------------------------------
(* The map of live requests.                                                *)
OneOpenPort ==
  \A p, q \in Ports :
    TabOf[p] = TabOf[q] /\ port[p] = "open" /\ port[q] = "open" => p = q

(* A request comes over a port that has been opened.                        *)
SentOnPort == \A r \in Requests : pc[r] # "idle" => port[PortOf[r]] # "new"

MapInv == OneOpenPort /\ SentOnPort /\ MapMirrorsCoroutines

LEMMA MapInit == ParametersAssumption /\ Init => MapInv
BY DEF ParametersAssumption, Init, MapInv, OneOpenPort, SentOnPort, MapMirrorsCoroutines, IsOpen

LEMMA MapNext ==
  ASSUME TypeOK, ParametersAssumption, MapInv, [Next]_vars
  PROVE  MapInv'
<1> USE DEF recoveryVars, requestVars, storageVars, historyVars
<1>0. \A r \in Requests : PortOf[r] \in Ports
  BY DEF ParametersAssumption
<1>1. ASSUME UNCHANGED <<port, active, pc>>
      PROVE  MapInv'
  BY <1>1 DEF MapInv, OneOpenPort, SentOnPort, MapMirrorsCoroutines, IsOpen
<1>2. CASE Crash
  BY <1>0, <1>2 DEF Crash, MapInv, OneOpenPort, SentOnPort, MapMirrorsCoroutines, IsOpen, TypeOK
<1>3. ASSUME NEW p \in Ports, Connect(p)
      PROVE  MapInv'
  <2>1. OneOpenPort'
    BY <1>3 DEF Connect, MapInv, OneOpenPort, TypeOK
  <2>2. MapMirrorsCoroutines'
    BY <1>0, <1>3 DEF Connect, MapInv, SentOnPort, MapMirrorsCoroutines, IsOpen, TypeOK
  <2>3. SentOnPort'
    BY <1>0, <1>3 DEF Connect, MapInv, SentOnPort, TypeOK
  <2>4. QED
    BY <2>1, <2>2, <2>3 DEF MapInv
<1>4. ASSUME NEW p \in Ports, Disconnect(p)
      PROVE  MapInv'
  <2>1. OneOpenPort'
    BY <1>4 DEF Disconnect, MapInv, OneOpenPort, TypeOK
  <2>2. ASSUME NEW r \in Requests
        PROVE  (r \in active <=> pc[r] \in InFlight /\ IsOpen(r))'
    <3>1. CASE PortOf[r] = p
      BY <1>0, <1>4, <3>1 DEF Disconnect, MapInv, MapMirrorsCoroutines, IsOpen, Tab, TypeOK
    <3>2. CASE PortOf[r] # p
      <4>1. IsOpen(r)' = IsOpen(r)
        BY <1>0, <1>4, <3>2 DEF Disconnect, IsOpen, TypeOK
      <4>2. r \in active' <=> r \in active
        BY <1>0, <1>4, <3>2 DEF Disconnect, MapInv, OneOpenPort, SentOnPort, MapMirrorsCoroutines,
           IsOpen, Tab
      <4>3. QED
        BY <1>4, <4>1, <4>2 DEF Disconnect, MapInv, MapMirrorsCoroutines
    <3>3. QED
      BY <3>1, <3>2
  <2>3. SentOnPort'
    BY <1>0, <1>4 DEF Disconnect, MapInv, SentOnPort, TypeOK
  <2>4. QED
    BY <2>1, <2>2, <2>3 DEF MapInv, MapMirrorsCoroutines
<1>5. ASSUME NEW r \in Requests, OrphanedRequest(r)
      PROVE  MapInv'
  BY <1>5 DEF OrphanedRequest, CanHandle, MapInv, OneOpenPort, SentOnPort,
     MapMirrorsCoroutines, IsOpen, TypeOK
<1>6. ASSUME NEW r \in Requests, Dispatch(r)
      PROVE  MapInv'
  BY <1>6 DEF Dispatch, Goto, CanHandle, MapInv, OneOpenPort, SentOnPort, MapMirrorsCoroutines,
     IsOpen, TypeOK
<1>7. ASSUME NEW r \in Requests, Coroutine(r)
      PROVE  MapInv'
  <2>1. CoroutineStep(r)
    BY <1>7, CoroutineEffect
  <2>2. QED
    BY <2>1 DEF CoroutineStep, MapInv, OneOpenPort, SentOnPort, MapMirrorsCoroutines, IsOpen
<1>8. CASE StartWorker \/ Recover
  BY <1>1, <1>8 DEF StartWorker, Recover
<1>9. ASSUME NEW r \in Requests, LateRemove(r)
      PROVE  MapInv'
  BY <1>1, <1>9 DEF LateRemove
<1>10. ASSUME NEW c \in Cancels,
              ReceiveCancel(c) \/ OrphanedCancel(c) \/ CancelHandler(c)
       PROVE  MapInv'
  BY <1>1, <1>10, CancelEffect DEF CancelStep
<1>11. CASE UNCHANGED vars
  BY <1>1, <1>11 DEF vars
<1>12. QED
  BY <1>2, <1>3, <1>4, <1>5, <1>6, <1>7, <1>8, <1>9, <1>10, <1>11 DEF Next

LEMMA MapInvariant == Spec => []MapInv
<1>1. Init => MapInv
  BY MapInit, ParametersAssumption
<1>2. TypeOK /\ MapInv /\ [Next]_vars => MapInv'
  BY MapNext, ParametersAssumption
<1>3. QED
  BY <1>1, <1>2, TypeCorrect, PTL DEF Spec

(* activeRequestsById holds exactly the requests in flight on open ports,   *)
(* whatever the interleaving of handlers, disconnects and kills: nothing    *)
(* leaks and nothing a CANCEL should find is missing.                       *)
THEOREM MapCorrect == Spec => []MapMirrorsCoroutines
<1>1. MapInv => MapMirrorsCoroutines
  BY DEF MapInv
<1>2. QED
  BY <1>1, MapInvariant, PTL

-------------------------------------------------------------------------------
(* The persisted markers and the orphan flags.  MarkersAreLive alone is not *)
(* inductive: a coroutine that has consumed its marker must not be the one  *)
(* a marker names, and a recovery must have read every marker there is.     *)
TabsOf(S) == {Tab(r) : r \in S}

Holding(r) ==  \* the coroutine of r will still remove a marker that names r
  /\ pc[r] \in InFlight \ {"persistFailed", "removing"}
  /\ pc[r] = "clearing" => saw[r]

MarkerInv ==
  ~rejected =>
    /\ \A t \in Tabs : marker[t] # NoReq =>
         /\ Tab(marker[t]) = t
         /\ sw = "up" => Holding(marker[t])
         /\ sw # "up" => marker[t] \in killed
         /\ sw = "recovering" => t \in snapshot
    /\ snapshot \subseteq TabsOf(killed)
    /\ orphaned \subseteq TabsOf(killed)

LEMMA MarkerInit == ParametersAssumption /\ Init => MarkerInv
BY DEF Init, MarkerInv, TabsOf

LEMMA MarkerNext ==
  ASSUME TypeOK, ParametersAssumption, MarkerInv, [Next]_vars
  PROVE  MarkerInv'
<1> USE DEF recoveryVars, requestVars, storageVars, historyVars
<1>0. \A r \in Requests : Tab(r) \in Tabs /\ r # NoReq
  BY RequestType DEF ParametersAssumption
<1>1. ASSUME UNCHANGED <<sw, snapshot, pc, saw, killed>>,
             orphaned' \subseteq orphaned,
             rejected => rejected',
             \A t \in Tabs : marker'[t] \in {marker[t], NoReq}
      PROVE  MarkerInv'
  BY <1>1 DEF MarkerInv, Holding, TabsOf, Tab
<1>2. CASE StartWorker
  BY <1>2 DEF StartWorker, MarkerInv, TabsOf, Tab, TypeOK
<1>3. CASE Recover
  <2>1. SUFFICES ASSUME ~rejected'
                 PROVE  MarkerInv'
    BY DEF MarkerInv
  <2>2. ~rejected /\ marker' = [t \in Tabs |-> IF t \in snapshot THEN NoReq ELSE marker[t]]
    BY <1>3, <2>1 DEF Recover, RemoveRejected
  <2>3. \A t \in Tabs : marker'[t] = NoReq
    BY <1>3, <2>2 DEF Recover, MarkerInv
  <2>4. QED
    BY <1>3, <2>2, <2>3 DEF Recover, MarkerInv, TabsOf, Tab
<1>4. CASE Crash
  <2>1. SUFFICES ASSUME ~rejected
                 PROVE  MarkerInv'
    BY <1>4 DEF Crash, MarkerInv
  <2>2. ASSUME NEW t \in Tabs, marker[t] # NoReq
        PROVE  Tab(marker[t]) = t /\ marker[t] \in killed'
    BY <1>4, <2>1, <2>2 DEF Crash, MarkerInv, Holding, TypeOK
  <2>3. QED
    BY <1>4, <2>2 DEF Crash, MarkerInv, TabsOf, Tab
<1>5. ASSUME NEW p \in Ports, Connect(p)
      PROVE  MarkerInv'
  BY <1>1, <1>5 DEF Connect
<1>6. ASSUME NEW p \in Ports, Disconnect(p)
      PROVE  MarkerInv'
  BY <1>1, <1>6, RemoveMarkerEffect DEF Disconnect, ParametersAssumption
<1>7. ASSUME NEW r \in Requests, OrphanedRequest(r)
      PROVE  MarkerInv'
  <2>1. ~rejected => \A t \in Tabs : marker[t] # r
    BY <1>0, <1>7 DEF OrphanedRequest, CanHandle, MarkerInv, Holding, TypeOK
  <2>2. QED
    BY <1>7, <2>1 DEF OrphanedRequest, MarkerInv, Holding, TabsOf, Tab, TypeOK
<1>8. ASSUME NEW r \in Requests, Dispatch(r)
      PROVE  MarkerInv'
  <2>1. ~rejected => \A t \in Tabs : marker[t] # r
    BY <1>0, <1>8 DEF Dispatch, CanHandle, MarkerInv, Holding, TypeOK
  <2>2. sw = "up" /\ UNCHANGED <<sw, snapshot, orphaned, killed, rejected>>
        /\ UNCHANGED saw
    BY <1>8 DEF Dispatch, CanHandle, Goto
  <2>3. CASE marker' = [marker EXCEPT ![Tab(r)] = r] /\ Goto(r, "persisting")
    <3>1. ASSUME ~rejected, NEW t \in Tabs, NEW q \in Requests, marker'[t] = q
          PROVE  Tab(q) = t /\ Holding(q)'
      <4>1. CASE q = r
        <5>1. t = Tab(r)
          BY <1>0, <2>1, <2>3, <3>1, <4>1 DEF TypeOK
        <5>2. pc'[r] = "persisting"
          BY <2>3 DEF Goto, TypeOK
        <5>3. QED
          BY <4>1, <5>1, <5>2 DEF Holding
      <4>2. CASE q # r
        <5>1. marker[t] = q
          BY <1>0, <2>3, <3>1, <4>2 DEF TypeOK
        <5>2. Tab(q) = t /\ Holding(q)
          BY <1>0, <2>2, <3>1, <5>1 DEF MarkerInv
        <5>3. pc'[q] = pc[q] /\ saw'[q] = saw[q]
          BY <2>3, <4>2 DEF Goto, TypeOK
        <5>4. QED
          BY <5>2, <5>3 DEF Holding
      <4>3. QED
        BY <4>1, <4>2
    <3>2. \A t \in Tabs : marker'[t] \in Requests \cup {NoReq}
      BY <2>3 DEF TypeOK
    <3>3. QED
      BY <2>2, <3>1, <3>2 DEF MarkerInv, TabsOf, Tab
  <2>4. CASE Goto(r, "persistFailed") /\ UNCHANGED marker
    BY <2>1, <2>2, <2>4 DEF Goto, MarkerInv, Holding, TabsOf, Tab, TypeOK
  <2>5. QED
    BY <1>8, <2>3, <2>4 DEF Dispatch
<1>9. ASSUME NEW r \in Requests, Coroutine(r)
      PROVE  MarkerInv'
  <2>1. CoroutineStep(r)
    BY <1>9, CoroutineEffect
  <2>2. SUFFICES ASSUME ~rejected'
                 PROVE  MarkerInv'
    BY DEF MarkerInv
  <2>3. ~rejected /\ \A t \in Tabs : marker'[t] \in {marker[t], NoReq}
    BY <1>0, <2>1, <2>2, RemoveMarkerEffect DEF CoroutineStep
  <2>4. ASSUME NEW t \in Tabs, NEW q \in Requests, marker'[t] = q, sw = "up"
        PROVE  Holding(q)'
    <3>1. marker[t] = q /\ Holding(q) /\ Tab(q) = t
      BY <1>0, <2>3, <2>4 DEF MarkerInv
    <3>2. CASE q = r
      <4>1. pc'[r] \in InFlight \ {"removing", "persistFailed"}
        BY <1>0, <2>1, <2>2, <2>4, <3>1, <3>2 DEF CoroutineStep, Holding
      <4>2. QED
        BY <2>1, <3>1, <3>2, <4>1 DEF CoroutineStep, Holding
    <3>3. CASE q # r
      BY <2>1, <3>1, <3>3 DEF CoroutineStep, Holding
    <3>4. QED
      BY <3>2, <3>3
  <2>5. /\ UNCHANGED <<sw, snapshot, orphaned, killed>>
        /\ \A t \in Tabs : marker[t] \in Requests \cup {NoReq}
    BY <2>1 DEF CoroutineStep, TypeOK
  <2>6. QED
    BY <1>0, <2>3, <2>4, <2>5 DEF MarkerInv, TabsOf, Tab
<1>10. ASSUME NEW r \in Requests, LateRemove(r)
       PROVE  MarkerInv'
  BY <1>0, <1>1, <1>10, RemoveMarkerEffect DEF LateRemove
<1>11. ASSUME NEW c \in Cancels,
              ReceiveCancel(c) \/ OrphanedCancel(c) \/ CancelHandler(c)
       PROVE  MarkerInv'
  BY <1>1, <1>11, CancelEffect DEF CancelStep
<1>12. CASE UNCHANGED vars
  BY <1>1, <1>12 DEF vars
<1>13. QED
  BY <1>2, <1>3, <1>4, <1>5, <1>6, <1>7, <1>8, <1>9, <1>10, <1>11, <1>12 DEF Next

LEMMA MarkerInvariant == Spec => []MarkerInv
<1>1. Init => MarkerInv
  BY MarkerInit, ParametersAssumption
<1>2. TypeOK /\ MarkerInv /\ [Next]_vars => MarkerInv'
  BY MarkerNext, ParametersAssumption
<1>3. QED
  BY <1>1, <1>2, TypeCorrect, PTL DEF Spec

(* A stored marker names a request in flight, or one the worker died with.  *)
THEOREM MarkersLive == Spec => []MarkersAreLive
<1>1. MarkerInv => MarkersAreLive
  BY DEF MarkerInv, MarkersAreLive, Holding
<1>2. QED
  BY <1>1, MarkerInvariant, PTL

(* No tab is told of an interrupted flow unless one of its requests was in  *)
(* flight when the worker died, through any number of kills, recoveries and *)
(* reloads.                                                                 *)
THEOREM OrphansGenuine == Spec => []OrphansWereKilled
<1>1. MarkerInv => OrphansWereKilled
  BY DEF MarkerInv, OrphansWereKilled, TabsOf
<1>2. QED
  BY <1>1, MarkerInvariant, PTL


-------------------------------------------------------------------------------
(* What the client is told.                                                 *)

TermIn(s) == {i \in DOMAIN s : s[i] \in Terminal}

(* TerminalDiscipline for one request: s is what was posted, a whether the  *)
(* request has been aborted.                                                *)
Ordered(s, a) ==
  \A i \in TermIn(s), j \in DOMAIN s :
    j > i => s[j] = "orphan" \/ (s[j] = "error" /\ s[i] = "done" /\ a)

LEMMA AppendTerminals ==
  ASSUME NEW s \in Seq(Events), NEW e \in Events
  PROVE  /\ DOMAIN Append(s, e) = DOMAIN s \cup {Len(s) + 1}
         /\ Append(s, e)[Len(s) + 1] = e
         /\ \A i \in DOMAIN s : i < Len(s) + 1 /\ Append(s, e)[i] = s[i]
         /\ TermIn(Append(s, e)) =
              TermIn(s) \cup (IF e \in Terminal THEN {Len(s) + 1} ELSE {})
<1>1. /\ DOMAIN s = 1..Len(s)
      /\ DOMAIN Append(s, e) = 1..(Len(s) + 1)
      /\ Len(s) \in Nat
      /\ Append(s, e)[Len(s) + 1] = e
      /\ \A i \in 1..Len(s) : Append(s, e)[i] = s[i]
  OBVIOUS
<1>2. QED
  BY <1>1 DEF TermIn

LEMMA AppendOrdered ==
  ASSUME NEW s \in Seq(Events), NEW e \in Events, NEW a \in BOOLEAN, Ordered(s, a),
         \/ TermIn(s) = {}
         \/ e = "orphan"
         \/ a /\ e = "error" /\ \A i \in TermIn(s) : s[i] = "done"
  PROVE  Ordered(Append(s, e), a)
<1>1. SUFFICES ASSUME NEW i \in TermIn(Append(s, e)), NEW j \in DOMAIN Append(s, e), j > i
               PROVE  \/ Append(s, e)[j] = "orphan"
                      \/ Append(s, e)[j] = "error" /\ Append(s, e)[i] = "done" /\ a
  BY DEF Ordered
<1>2. i \in TermIn(s) /\ i \in DOMAIN s
  BY <1>1, AppendTerminals DEF TermIn
<1>3. CASE j \in DOMAIN s
  BY <1>1, <1>2, <1>3, AppendTerminals DEF Ordered
<1>4. CASE j = Len(s) + 1
  BY <1>1, <1>2, <1>4, AppendTerminals
<1>5. DOMAIN Append(s, e) = DOMAIN s \cup {Len(s) + 1}
  BY AppendTerminals
<1>6. QED
  BY <1>1, <1>3, <1>4, <1>5

(* The output of a coroutine step: nothing, a frame of a live stream, or an *)
(* answer, which after an abort is an error or the first terminal event.    *)
Silent(r) ==
  /\ UNCHANGED <<out, terminalSent>>
  /\ pc[r] \in Working /\ pc'[r] \in Clearing => HasTerminalBeenSent(r)

Answering(r, e) ==
  /\ pc[r] \in Working
  /\ pc'[r] \notin Working
  /\ Post(PortOf[r], r, e)
  /\ SetTerminal(r)
  /\ aborted[r] => e = "error" \/ ~HasTerminalBeenSent(r)

CoroutineOutput(r) ==
  \/ Silent(r)
  \/ /\ pc[r] \in Working
     /\ ~aborted[r]
     /\ Post(PortOf[r], r, "token")
     /\ UNCHANGED <<pc, terminalSent>>
  \/ \E e \in Terminal : Answering(r, e)

LEMMA CoroutineSays ==
  ASSUME TypeOK, NEW r \in Requests, Coroutine(r)
  PROVE  CoroutineOutput(r)
<1>0. {"done", "error", "segment"} \subseteq Terminal
  BY DEF Terminal
<1>1. ASSUME NEW e \in Terminal, Answer(r, e), pc[r] \in Working,
             aborted[r] => e = "error" \/ ~HasTerminalBeenSent(r)
      PROVE  CoroutineOutput(r)
  BY <1>1 DEF Answer, EnterFinally, Answering, CoroutineOutput, TypeOK
<1>2. ASSUME NEW e \in Terminal, AnswerOnce(r, e), pc[r] \in Working
      PROVE  CoroutineOutput(r)
  BY <1>1, <1>2 DEF AnswerOnce, Silent, CoroutineOutput
<1>3. ASSUME NEW label \in Working \cup {"finished"}, Goto(r, label)
      PROVE  CoroutineOutput(r)
  BY <1>3 DEF Goto, Silent, CoroutineOutput, TypeOK
<1>4. CASE PersistFailed(r)
  <2>1. Answering(r, "error")
    BY <1>4 DEF PersistFailed, Answering, TypeOK
  <2>2. QED
    BY <1>0, <2>1 DEF CoroutineOutput
<1>5. CASE Respond(r)
  <2>1. pc[r] \in Working /\ ~aborted[r]
    BY <1>5 DEF Respond
  <2>2. QED
    BY <1>0, <1>1, <1>3, <1>5, <2>1 DEF Respond
<1>6. CASE Refreshed(r) \/ ErrorRead(r)
  BY <1>0, <1>1, <1>3, <1>6 DEF Refreshed, ErrorRead
<1>7. CASE SegmentAnswer(r) \/ TerminalFrame(r)
  BY <1>0, <1>1, <1>7 DEF SegmentAnswer, TerminalFrame
<1>8. CASE Token(r)
  BY <1>8 DEF Token, CoroutineOutput
<1>9. CASE StreamEnd(r)
  BY <1>0, <1>2, <1>9 DEF StreamEnd
<1>10. CASE FetchFails(r)
  <2>1. pc[r] \in Working
    BY <1>10 DEF FetchFails
  <2>2. QED
    BY <1>0, <1>2, <1>10, <2>1 DEF FetchFails
<1>11. CASE Fetch(r) \/ Finish(r)
  BY <1>3, <1>11 DEF Fetch, Finish
<1>12. CASE ClearMarker(r)
  BY <1>12 DEF ClearMarker, Silent, CoroutineOutput
<1>13. QED
  BY <1>4, <1>5, <1>6, <1>7, <1>8, <1>9, <1>10, <1>11, <1>12 DEF Coroutine

(* The client view, inductively.  A working request that has had a terminal *)
(* event was cancelled and only has dones; a mapped request has had one     *)
(* exactly when terminalSent says so; a CANCEL aborts only what its own     *)
(* port has sent.                                                           *)
TargetsOwnPort ==
  \A c \in Cancels : \A q \in cancel[c].todo : PortOf[q] = PortOf[c]

TargetsOwnTab ==
  \A c \in Cancels : \A q \in Requests :
    cancel[c].target = q => pc[q] # "idle" /\ Tab(q) = Tab(c)

FailuresAreRejections ==
  \A c \in Cancels : cancel[c].pc = "tabClearFailed" => rejected

FlagsMatchOutput ==
  \A r \in Requests :
    /\ pc[r] = "idle" => ~aborted[r] /\ ~terminalSent[r] /\ TermIn(out[r]) = {}
    /\ r \in active => (terminalSent[r] <=> TermIn(out[r]) # {})
    /\ r \in active /\ pc[r] \in Clearing => terminalSent[r]
    /\ aborted[r] /\ IsOpen(r) => TermIn(out[r]) # {}

OutputOrdered ==
  ~rejected => \A r \in Requests :
    /\ Ordered(out[r], aborted[r])
    /\ pc[r] \in Working /\ TermIn(out[r]) # {} =>
         aborted[r] /\ \A i \in TermIn(out[r]) : out[r][i] = "done"

AnswerInv ==
  /\ TargetsOwnPort
  /\ TargetsOwnTab
  /\ FailuresAreRejections
  /\ FlagsMatchOutput
  /\ OutputOrdered

LEMMA AnswerInit == ParametersAssumption /\ Init => AnswerInv
<1> SUFFICES ASSUME ParametersAssumption, Init
             PROVE  AnswerInv
  OBVIOUS
<1>1. \A r \in Requests : out[r] = <<>> /\ TermIn(out[r]) = {} /\ ~aborted[r]
  BY DEF Init, TermIn
<1>2. FlagsMatchOutput /\ OutputOrdered
  BY <1>1 DEF Init, FlagsMatchOutput, OutputOrdered, Ordered
<1>3. \A c \in Cancels : cancel[c].pc = "idle" /\ cancel[c].todo = {} /\ cancel[c].target = NoReq
  BY DEF Init, IdleCancel
<1>4. QED
  BY <1>2, <1>3 DEF AnswerInv, TargetsOwnPort, TargetsOwnTab, FailuresAreRejections,
     ParametersAssumption

(* A post on an open port, seen from the invariant.                         *)
LEMMA PostOutput ==
  ASSUME TypeOK, NEW p \in Ports, NEW r \in Requests, NEW e \in Events, Post(p, r, e)
  PROVE  /\ \A q \in Requests \ {r} : out'[q] = out[q]
         /\ port[p] = "open" => out'[r] = Append(out[r], e)
         /\ port[p] # "open" => out'[r] = out[r]
BY DEF Post, TypeOK

LEMMA CoroutineFlags ==
  ASSUME TypeOK, ParametersAssumption, MapInv, AnswerInv, NEW r \in Requests, Coroutine(r)
  PROVE  FlagsMatchOutput' /\ OutputOrdered'
<1>1. CoroutineStep(r) /\ CoroutineOutput(r)
  BY CoroutineEffect, CoroutineSays
<1>2. /\ PortOf[r] \in Ports
      /\ Terminal \subseteq Events /\ "token" \in Events /\ "token" \notin Terminal
      /\ out[r] \in Seq(Events)
      /\ aborted[r] \in BOOLEAN
      /\ r \in active <=> port[PortOf[r]] = "open"
  BY <1>1, RequestType DEF Terminal, Events, TypeOK, MapInv, MapMirrorsCoroutines,
     IsOpen, CoroutineStep
<1>3. /\ UNCHANGED <<aborted, port>>
      /\ \A q \in Requests \ {r} : pc'[q] = pc[q] /\ (q \in active' <=> q \in active)
      /\ active' \subseteq active
      /\ pc[r] \in InFlight /\ pc'[r] \in InFlight \cup {"finished"}
      /\ pc'[r] \in Working => pc[r] \in Working
      /\ rejected => rejected'
  BY <1>1, RemoveMarkerEffect, RequestType DEF CoroutineStep, storageVars
<1>4. ASSUME \A q \in Requests \ {r} : out'[q] = out[q] /\ terminalSent'[q] = terminalSent[q],
             r \in active' => (terminalSent'[r] <=> TermIn(out'[r]) # {}),
             r \in active' /\ pc'[r] \in Clearing => terminalSent'[r],
             aborted[r] /\ IsOpen(r) => TermIn(out'[r]) # {},
             ~rejected => Ordered(out'[r], aborted[r]),
             ~rejected /\ pc'[r] \in Working /\ TermIn(out'[r]) # {} =>
               aborted[r] /\ \A i \in TermIn(out'[r]) : out'[r][i] = "done"
      PROVE  FlagsMatchOutput' /\ OutputOrdered'
  <2>1. FlagsMatchOutput'
    BY <1>3, <1>4 DEF AnswerInv, FlagsMatchOutput, IsOpen
  <2>2. OutputOrdered'
    BY <1>3, <1>4 DEF AnswerInv, OutputOrdered
  <2>3. QED
    BY <2>1, <2>2
<1>5. CASE Silent(r)
  <2>1. r \in active' /\ pc'[r] \in Clearing => terminalSent[r]
    BY <1>3, <1>5 DEF Silent, HasTerminalBeenSent, AnswerInv, FlagsMatchOutput
  <2>2. QED
    BY <1>3, <1>4, <1>5, <2>1 DEF Silent, AnswerInv, FlagsMatchOutput, OutputOrdered
<1>6. CASE /\ pc[r] \in Working /\ ~aborted[r]
           /\ Post(PortOf[r], r, "token") /\ UNCHANGED <<pc, terminalSent>>
  <2>1. CASE port[PortOf[r]] = "open"
    <3>1. /\ out'[r] = Append(out[r], "token")
          /\ \A q \in Requests \ {r} : out'[q] = out[q]
      BY <1>2, <1>6, <2>1, PostOutput
    <3>2. /\ TermIn(out'[r]) = TermIn(out[r])
          /\ \A i \in DOMAIN out[r] : out'[r][i] = out[r][i]
      <4>1. /\ TermIn(Append(out[r], "token")) = TermIn(out[r])
            /\ \A i \in DOMAIN out[r] : Append(out[r], "token")[i] = out[r][i]
        <5>1. "token" \in Events
          BY <1>2
        <5>2. TermIn(Append(out[r], "token")) =
                TermIn(out[r]) \cup (IF "token" \in Terminal THEN {Len(out[r]) + 1} ELSE {})
          BY <1>2, <5>1, AppendTerminals
        <5>3. \A i \in DOMAIN out[r] : Append(out[r], "token")[i] = out[r][i]
          BY <1>2, <5>1, AppendTerminals
        <5>4. QED
          BY <1>2, <5>2, <5>3
      <4>2. QED
        BY <3>1, <4>1
    <3>3. ~rejected => TermIn(out[r]) = {} /\ Ordered(out[r], aborted[r])
      BY <1>6 DEF AnswerInv, OutputOrdered
    <3>4. ~rejected => Ordered(out'[r], aborted[r])
      BY <1>2, <3>1, <3>3, AppendOrdered
    <3>5. r \in active' /\ pc'[r] \in Clearing => terminalSent'[r]
      BY <1>6 DEF Working, Clearing
    <3>6. QED
      BY <1>3, <1>4, <1>6, <3>1, <3>2, <3>3, <3>4, <3>5
         DEF AnswerInv, FlagsMatchOutput, OutputOrdered
  <2>2. CASE port[PortOf[r]] # "open"
    <3>1. \A q \in Requests : out'[q] = out[q]
      BY <1>2, <1>6, <2>2, PostOutput
    <3>2. r \notin active'
      BY <1>2, <1>3, <2>2
    <3>3. QED
      BY <1>3, <1>4, <1>6, <3>1, <3>2 DEF AnswerInv, FlagsMatchOutput, OutputOrdered
  <2>3. QED
    BY <2>1, <2>2
<1>7. ASSUME NEW e \in Terminal, Answering(r, e)
      PROVE  FlagsMatchOutput' /\ OutputOrdered'
  <2>0. /\ pc[r] \in Working /\ pc'[r] \notin Working
        /\ \A q \in Requests \ {r} : terminalSent'[q] = terminalSent[q]
        /\ terminalSent'[r] <=> (terminalSent[r] \/ r \in active)
    BY <1>7 DEF Answering, SetTerminal, TypeOK
  <2>1. CASE port[PortOf[r]] = "open"
    <3>1. /\ out'[r] = Append(out[r], e)
          /\ \A q \in Requests \ {r} : out'[q] = out[q]
      BY <1>2, <1>7, <2>1, PostOutput DEF Answering
    <3>2. TermIn(out'[r]) # {}
      <4>1. e \in Events
        BY <1>2
      <4>2. Len(out[r]) + 1 \in TermIn(Append(out[r], e))
        BY <1>2, <4>1, AppendTerminals
      <4>3. QED
        BY <3>1, <4>2
    <3>3. ~rejected => \/ TermIn(out[r]) = {}
                       \/ /\ aborted[r] /\ e = "error"
                          /\ \A i \in TermIn(out[r]) : out[r][i] = "done"
      BY <1>2, <1>7, <2>0, <2>1 DEF Answering, HasTerminalBeenSent, AnswerInv, OutputOrdered,
         FlagsMatchOutput
    <3>4. ~rejected => Ordered(out'[r], aborted[r])
      BY <1>2, <3>1, <3>3, AppendOrdered DEF AnswerInv, OutputOrdered
    <3>5. QED
      BY <1>2, <1>3, <1>4, <2>0, <2>1, <3>1, <3>2, <3>4
  <2>2. CASE port[PortOf[r]] # "open"
    <3>1. \A q \in Requests : out'[q] = out[q]
      BY <1>2, <1>7, <2>2, PostOutput DEF Answering
    <3>2. r \notin active'
      BY <1>2, <1>3, <2>2
    <3>3. QED
      BY <1>4, <2>0, <3>1, <3>2 , <2>2 DEF AnswerInv, FlagsMatchOutput, OutputOrdered
  <2>3. QED
    BY <2>1, <2>2
<1>8. QED
  BY <1>1, <1>5, <1>6, <1>7 DEF CoroutineOutput

LEMMA CancelLoopFlags ==
  ASSUME TypeOK, ParametersAssumption, MapInv, AnswerInv, NEW c \in Cancels,
         NEW target \in Requests \cup {NoReq}, NEW todo \in SUBSET Requests,
         target \in Requests => pc[target] # "idle" /\ Tab(target) = Tab(c),
         \A q \in todo \cap active : PortOf[q] = PortOf[c],
         \/ todo \subseteq {target}
         \/ \A q \in todo : PortOf[q] = PortOf[c],
         CancelLoop(c, target, todo), UNCHANGED recoveryVars, CancelFrame
  PROVE  AnswerInv'
<1> USE DEF CancelFrame, recoveryVars, historyVars, storageVars
<1>0. PortOf[c] \in Ports /\ "done" \in Events /\ "done" \in Terminal /\ NoReq \notin Requests
  BY DEF ParametersAssumption, Events, Terminal
<1>1. ASSUME NEW r \in todo \cap active,
             IF terminalSent[r] THEN UNCHANGED out ELSE Post(PortOf[c], r, "done"),
             terminalSent' = [terminalSent EXCEPT ![r] = TRUE],
             aborted' = [aborted EXCEPT ![r] = TRUE],
             cancel' = [cancel EXCEPT ![c] =
                         [pc |-> "clearing", target |-> target,
                          todo |-> todo \ {r}, cur |-> r,
                          saw |-> marker[Tab(r)] = r]],
             UNCHANGED storageVars
      PROVE  AnswerInv'
  <2>0. /\ r \in Requests /\ r \in active /\ PortOf[r] = PortOf[c]
        /\ port[PortOf[c]] = "open"
        /\ pc[r] \in InFlight
        /\ out[r] \in Seq(Events)
        /\ UNCHANGED <<port, active, pc, rejected>>
    BY <1>1 DEF MapInv, MapMirrorsCoroutines, IsOpen, TypeOK
  <2>1. /\ terminalSent'[r] = TRUE /\ aborted'[r] = TRUE
        /\ \A q \in Requests \ {r} : /\ terminalSent'[q] = terminalSent[q]
                                     /\ aborted'[q] = aborted[q]
                                     /\ out'[q] = out[q]
    BY <1>0, <1>1, <2>0, PostOutput DEF TypeOK
  <2>2. /\ TermIn(out'[r]) # {}
        /\ ~rejected => Ordered(out'[r], TRUE)
        /\ ~rejected /\ pc[r] \in Working => \A i \in TermIn(out'[r]) : out'[r][i] = "done"
    <3>1. CASE terminalSent[r]
      <4>1. out'[r] = out[r] /\ TermIn(out[r]) # {}
        BY <1>1, <2>0, <3>1 DEF AnswerInv, FlagsMatchOutput
      <4>2. ~rejected => Ordered(out[r], TRUE)
        BY <2>0 DEF AnswerInv, OutputOrdered, Ordered
      <4>3. ~rejected /\ pc[r] \in Working => \A i \in TermIn(out[r]) : out[r][i] = "done"
        BY <2>0, <4>1 DEF AnswerInv, OutputOrdered
      <4>4. QED
        BY <4>1, <4>2, <4>3
    <3>2. CASE ~terminalSent[r]
      <4>0. TermIn(out[r]) = {}
        BY <2>0, <3>2 DEF AnswerInv, FlagsMatchOutput
      <4>1. out'[r] = Append(out[r], "done") /\ TermIn(out[r]) = {}
        BY <1>0, <1>1, <2>0, <3>2, <4>0, PostOutput
      <4>2. TermIn(Append(out[r], "done")) = TermIn(out[r]) \cup {Len(out[r]) + 1}
            /\ Append(out[r], "done")[Len(out[r]) + 1] = "done"
        BY <1>0, <2>0, AppendTerminals
      <4>3. Ordered(out[r], TRUE)
        BY <4>1 DEF Ordered
      <4>4. Ordered(Append(out[r], "done"), TRUE)
        BY <1>0, <2>0, <4>1, <4>3, AppendOrdered
      <4>5. QED
        BY <4>1, <4>2, <4>4
    <3>3. QED
      BY <3>1, <3>2
  <2>3. FlagsMatchOutput' /\ OutputOrdered'
    <3>1. aborted'[r] = TRUE /\ pc[r] # "idle"
      BY <1>1, <2>0 DEF TypeOK
    <3>2. FlagsMatchOutput'
      <4>1. ASSUME NEW q \in Requests
            PROVE  /\ pc'[q] = "idle" => ~aborted'[q] /\ ~terminalSent'[q] /\ TermIn(out'[q]) = {}
                   /\ q \in active' => (terminalSent'[q] <=> TermIn(out'[q]) # {})
                   /\ q \in active' /\ pc'[q] \in Clearing => terminalSent'[q]
                   /\ aborted'[q] /\ port'[PortOf[q]] = "open" => TermIn(out'[q]) # {}
        <5>1. CASE q = r
          <6>1. pc'[r] # "idle" /\ terminalSent'[r] = TRUE /\ TermIn(out'[r]) # {}
            BY <2>0, <2>1, <2>2, <3>1
          <6>2. QED
            BY <5>1, <6>1
        <5>2. CASE q # r
          BY <2>0, <2>1, <5>2 DEF AnswerInv, FlagsMatchOutput, IsOpen
        <5>3. QED
          BY <5>1, <5>2
      <4>2. QED
        BY <4>1 DEF FlagsMatchOutput, IsOpen
    <3>3. ASSUME ~rejected, NEW q \in Requests
          PROVE  /\ Ordered(out'[q], aborted'[q])
                 /\ pc[q] \in Working /\ TermIn(out'[q]) # {} =>
                      aborted'[q] /\ \A i \in TermIn(out'[q]) : out'[q][i] = "done"
      <4>1. CASE q = r
        BY <2>2, <3>1, <3>3, <4>1
      <4>2. CASE q # r
        BY <2>1, <3>3, <4>2 DEF AnswerInv, OutputOrdered
      <4>3. QED
        BY <4>1, <4>2
    <3>4. OutputOrdered'
      BY <2>0, <3>3 DEF OutputOrdered
    <3>5. QED
      BY <3>2, <3>4
  <2>4. /\ cancel'[c].pc = "clearing" /\ cancel'[c].target = target
        /\ cancel'[c].todo = todo \ {r}
        /\ \A d \in Cancels \ {c} : cancel'[d] = cancel[d]
    BY <1>1 DEF TypeOK
  <2>5. TargetsOwnPort'
    <3>1. \A q \in todo \ {r} : PortOf[q] = PortOf[c]
      BY <1>1
    <3>2. QED
      BY <2>4, <3>1 DEF AnswerInv, TargetsOwnPort
  <2>6. TargetsOwnTab' /\ FailuresAreRejections'
    BY <2>0, <2>4 DEF AnswerInv, TargetsOwnTab, FailuresAreRejections, Tab
  <2>7. QED
    BY <2>3, <2>5, <2>6 DEF AnswerInv
<1>2. ASSUME UNCHANGED <<out, terminalSent, aborted>>,
             rejected => rejected',
             cancel'[c].todo = {},
             cancel'[c].target \in {NoReq, target},
             cancel'[c].pc = "tabClearFailed" => rejected',
             \A d \in Cancels \ {c} : cancel'[d] = cancel[d]
      PROVE  AnswerInv'
  <2>1. FlagsMatchOutput' /\ OutputOrdered'
    <3>1. FlagsMatchOutput'
      BY <1>2 DEF AnswerInv, FlagsMatchOutput, IsOpen
    <3>2. OutputOrdered'
      BY <1>2 DEF AnswerInv, OutputOrdered
    <3>3. QED
      BY <3>1, <3>2
  <2>2. TargetsOwnPort' /\ TargetsOwnTab' /\ FailuresAreRejections'
    <3>1. TargetsOwnPort'
      BY <1>2 DEF AnswerInv, TargetsOwnPort
    <3>2. TargetsOwnTab'
      BY <1>0, <1>2 DEF AnswerInv, TargetsOwnTab, Tab
    <3>3. FailuresAreRejections'
      BY <1>2 DEF AnswerInv, FailuresAreRejections
    <3>4. QED
      BY <3>1, <3>2, <3>3
  <2>3. QED
    BY <2>1, <2>2 DEF AnswerInv
<1>3. CASE /\ marker' = [marker EXCEPT ![Tab(c)] = NoReq]
           /\ UNCHANGED rejected
           /\ cancel' = [cancel EXCEPT ![c] = [IdleCancel EXCEPT !.pc = "clearingTab"]]
           /\ UNCHANGED <<out, terminalSent, aborted>>
  BY <1>2, <1>3 DEF TypeOK, IdleCancel
<1>4. CASE /\ RemoveRejected
           /\ cancel' = [cancel EXCEPT ![c] =
                           [IdleCancel EXCEPT !.pc = "tabClearFailed", !.target = target]]
           /\ UNCHANGED <<out, terminalSent, aborted>>
  BY <1>2, <1>4 DEF TypeOK, IdleCancel, RemoveRejected
<1>5. QED
  BY <1>1, <1>3, <1>4 DEF CancelLoop

(* A recovery error posted to r leaves its terminal events as they are.     *)
LEMMA OrphanOutput ==
  ASSUME TypeOK, NEW p \in Ports, NEW r \in Requests, Post(p, r, "orphan")
  PROVE  /\ \A q \in Requests : TermIn(out'[q]) = TermIn(out[q])
         /\ \A q \in Requests : \A i \in TermIn(out[q]) : out'[q][i] = out[q][i]
         /\ \A q \in Requests : Ordered(out[q], aborted[q]) => Ordered(out'[q], aborted[q])
<1>0. "orphan" \in Events /\ "orphan" \notin Terminal /\ out[r] \in Seq(Events)
      /\ aborted[r] \in BOOLEAN
  BY DEF Events, Terminal, TypeOK
<1>1. \A q \in Requests \ {r} : out'[q] = out[q]
  BY <1>0, PostOutput
<1>2. CASE port[p] # "open"
  <2>1. \A q \in Requests : out'[q] = out[q]
    BY <1>0, <1>1, <1>2, PostOutput
  <2>2. QED
    BY <2>1
<1>3. CASE port[p] = "open"
  <2>1. out'[r] = Append(out[r], "orphan")
    BY <1>0, <1>3, PostOutput
  <2>2. TermIn(Append(out[r], "orphan")) =
          TermIn(out[r]) \cup (IF "orphan" \in Terminal THEN {Len(out[r]) + 1} ELSE {})
    BY <1>0, AppendTerminals
  <2>3. \A i \in DOMAIN out[r] : Append(out[r], "orphan")[i] = out[r][i]
    BY <1>0, AppendTerminals
  <2>4. \A i \in TermIn(out[r]) : i \in DOMAIN out[r]
    BY DEF TermIn
  <2>5. Ordered(out[r], aborted[r]) => Ordered(Append(out[r], "orphan"), aborted[r])
    BY <1>0, AppendOrdered
  <2>6. QED
    BY <1>0, <1>1, <2>1, <2>2, <2>3, <2>4, <2>5
<1>4. QED
  BY <1>2, <1>3

LEMMA AnswerNext ==
  ASSUME TypeOK, ParametersAssumption, MapInv, AnswerInv, [Next]_vars
  PROVE  AnswerInv'
<1> USE DEF recoveryVars, requestVars, storageVars, historyVars
<1>0. /\ NoReq \notin Requests
      /\ \A r \in Requests : PortOf[r] \in Ports
      /\ \A c \in Cancels : PortOf[c] \in Ports
  BY DEF ParametersAssumption
<1>1. ASSUME UNCHANGED <<out, terminalSent, aborted, pc, cancel>>,
             \A r \in Requests : IsOpen(r)' => IsOpen(r) \/ pc[r] = "idle",
             active' \subseteq active,
             rejected => rejected'
      PROVE  AnswerInv'
  <2>1. FlagsMatchOutput'
    BY <1>1 DEF AnswerInv, FlagsMatchOutput
  <2>2. OutputOrdered'
    BY <1>1 DEF AnswerInv, OutputOrdered
  <2>3. TargetsOwnPort' /\ TargetsOwnTab' /\ FailuresAreRejections'
    BY <1>1 DEF AnswerInv, TargetsOwnPort, TargetsOwnTab, FailuresAreRejections, Tab
  <2>4. QED
    BY <2>1, <2>2, <2>3 DEF AnswerInv
<1>2. CASE StartWorker \/ Recover
  BY <1>1, <1>2 DEF StartWorker, Recover, RemoveRejected, IsOpen
<1>3. CASE Crash
  <2>1. FlagsMatchOutput' /\ OutputOrdered'
    BY <1>3 DEF Crash, AnswerInv, FlagsMatchOutput, OutputOrdered, IsOpen, TypeOK
  <2>2. \A c \in Cancels : cancel'[c] = cancel[c] \/ cancel'[c] = [IdleCancel EXCEPT !.pc = "killed"]
    BY <1>3 DEF Crash
  <2>3. \A r \in Requests : pc'[r] # "idle" <=> pc[r] # "idle"
    BY <1>3 DEF Crash, TypeOK
  <2>4. TargetsOwnPort' /\ TargetsOwnTab' /\ FailuresAreRejections'
    BY <1>0, <1>3, <2>2, <2>3 DEF Crash, IdleCancel, AnswerInv, TargetsOwnPort, TargetsOwnTab,
       FailuresAreRejections, Tab
  <2>5. QED
    BY <2>1, <2>4 DEF AnswerInv
<1>4. ASSUME NEW p \in Ports, Connect(p)
      PROVE  AnswerInv'
  <2>1. \A r \in Requests : IsOpen(r)' => IsOpen(r) \/ pc[r] = "idle"
    BY <1>0, <1>4 DEF Connect, IsOpen, TypeOK, MapInv, SentOnPort
  <2>2. QED
    BY <1>1, <1>4, <2>1 DEF Connect
<1>5. ASSUME NEW p \in Ports, Disconnect(p)
      PROVE  AnswerInv'
  <2>1. /\ UNCHANGED <<out, terminalSent, pc, cancel>>
        /\ active' \subseteq active
        /\ rejected => rejected'
    BY <1>5 DEF Disconnect, RemoveMarker, RemoveRejected
  <2>2. ASSUME NEW r \in Requests
        PROVE  /\ IsOpen(r)' => IsOpen(r) /\ aborted'[r] = aborted[r]
               /\ aborted[r] => aborted'[r]
               /\ pc[r] = "idle" => aborted'[r] = aborted[r]
    <3>1. aborted'[r] <=> (aborted[r] \/ (r \in active /\ Tab(r) = TabOf[p]))
      BY <1>5 DEF Disconnect
    <3>2. r \in active => pc[r] \in InFlight /\ port[PortOf[r]] = "open"
      BY DEF MapInv, MapMirrorsCoroutines, IsOpen
    <3>3. aborted'[r] \in BOOLEAN /\ aborted[r] \in BOOLEAN
      BY <1>5 DEF Disconnect, TypeOK
    <3>4. IsOpen(r)' => IsOpen(r) /\ PortOf[r] # p
      BY <1>0, <1>5 DEF Disconnect, IsOpen, TypeOK
    <3>5. r \in active /\ Tab(r) = TabOf[p] => PortOf[r] = p
      BY <1>0, <1>5, <3>2 DEF Disconnect, MapInv, OneOpenPort, Tab
    <3>6. QED
      BY <3>1, <3>2, <3>3, <3>4, <3>5
  <2>3. FlagsMatchOutput'
    BY <2>1, <2>2 DEF AnswerInv, FlagsMatchOutput
  <2>4. OutputOrdered'
    BY <2>1, <2>2 DEF AnswerInv, OutputOrdered, Ordered
  <2>5. TargetsOwnPort' /\ TargetsOwnTab' /\ FailuresAreRejections'
    BY <2>1 DEF AnswerInv, TargetsOwnPort, TargetsOwnTab, FailuresAreRejections, Tab
  <2>6. QED
    BY <2>3, <2>4, <2>5 DEF AnswerInv
<1>6. ASSUME NEW r \in Requests, OrphanedRequest(r)
      PROVE  AnswerInv'
  <2>1. /\ \A q \in Requests : TermIn(out'[q]) = TermIn(out[q])
        /\ \A q \in Requests : \A i \in TermIn(out[q]) : out'[q][i] = out[q][i]
        /\ \A q \in Requests : Ordered(out[q], aborted[q]) => Ordered(out'[q], aborted[q])
    BY <1>0, <1>6, OrphanOutput DEF OrphanedRequest
  <2>2. /\ UNCHANGED <<terminalSent, aborted, active, port, cancel, rejected>>
        /\ pc[r] = "idle" /\ pc' = [pc EXCEPT ![r] = "finished"]
    BY <1>6 DEF OrphanedRequest
  <2>3. pc'[r] = "finished" /\ \A q \in Requests \ {r} : pc'[q] = pc[q]
    BY <2>2 DEF TypeOK
  <2>4. r \notin active
    BY <2>2 DEF MapInv, MapMirrorsCoroutines
  <2>31. FlagsMatchOutput'
    <3>1. ASSUME NEW q \in Requests
          PROVE  /\ pc'[q] = "idle" => ~aborted'[q] /\ ~terminalSent'[q] /\ TermIn(out'[q]) = {}
                 /\ q \in active' => (terminalSent'[q] <=> TermIn(out'[q]) # {})
                 /\ q \in active' /\ pc'[q] \in Clearing => terminalSent'[q]
                 /\ aborted'[q] /\ port'[PortOf[q]] = "open" => TermIn(out'[q]) # {}
      <4>1. CASE q = r
        BY <2>1, <2>2, <2>3, <2>4, <4>1 DEF AnswerInv, FlagsMatchOutput
      <4>2. CASE q # r
        BY <2>1, <2>2, <2>3, <4>2 DEF AnswerInv, FlagsMatchOutput, IsOpen
      <4>3. QED
        BY <4>1, <4>2
    <3>2. QED
      BY <3>1 DEF FlagsMatchOutput, IsOpen
  <2>32. OutputOrdered'
    <3>1. pc'[r] \notin Working
      BY <2>3 DEF Working
    <3>2. QED
      BY <2>1, <2>2, <2>3, <3>1 DEF AnswerInv, OutputOrdered
  <2>5. FlagsMatchOutput' /\ OutputOrdered'
    BY <2>31, <2>32
  <2>6. TargetsOwnPort' /\ TargetsOwnTab' /\ FailuresAreRejections'
    BY <2>2, <2>3 DEF AnswerInv, TargetsOwnPort, TargetsOwnTab, FailuresAreRejections, Tab
  <2>7. QED
    BY <2>5, <2>6 DEF AnswerInv
<1>7. ASSUME NEW r \in Requests, Dispatch(r)
      PROVE  AnswerInv'
  <2>1. /\ UNCHANGED <<out, terminalSent, aborted, port, cancel, rejected>>
        /\ active' = active \cup {r}
        /\ pc[r] = "idle"
        /\ pc'[r] \in Working /\ \A q \in Requests \ {r} : pc'[q] = pc[q]
    BY <1>7 DEF Dispatch, Goto, TypeOK
  <2>2. ~aborted[r] /\ ~terminalSent[r] /\ TermIn(out[r]) = {}
    BY <2>1 DEF AnswerInv, FlagsMatchOutput
  <2>3. FlagsMatchOutput' /\ OutputOrdered'
    BY <2>1, <2>2 DEF AnswerInv, FlagsMatchOutput, OutputOrdered, IsOpen
  <2>4. TargetsOwnPort' /\ TargetsOwnTab' /\ FailuresAreRejections'
    BY <2>1 DEF AnswerInv, TargetsOwnPort, TargetsOwnTab, FailuresAreRejections, Tab
  <2>5. QED
    BY <2>3, <2>4 DEF AnswerInv
<1>8. ASSUME NEW r \in Requests, Coroutine(r)
      PROVE  AnswerInv'
  <2>1. CoroutineStep(r) /\ FlagsMatchOutput' /\ OutputOrdered'
    BY <1>8, CoroutineEffect, CoroutineFlags
  <2>2. rejected => rejected'
    BY <2>1, RequestType, RemoveMarkerEffect DEF CoroutineStep
  <2>3. TargetsOwnPort' /\ TargetsOwnTab' /\ FailuresAreRejections'
    BY <2>1, <2>2 DEF CoroutineStep, AnswerInv, TargetsOwnPort, TargetsOwnTab,
       FailuresAreRejections, Tab
  <2>4. QED
    BY <2>1, <2>3 DEF AnswerInv
<1>9. ASSUME NEW r \in Requests, LateRemove(r)
      PROVE  AnswerInv'
  BY <1>1, <1>9 DEF LateRemove, RemoveMarker, RemoveRejected, IsOpen
<1>10. ASSUME NEW c \in Cancels, ReceiveCancel(c)
       PROVE  AnswerInv'
  <2>1. \A q \in active : q \in Requests /\ (Tab(q) = Tab(c) => PortOf[q] = PortOf[c])
    BY <1>0, <1>10 DEF ReceiveCancel, CanHandle, IsOpen, MapInv, MapMirrorsCoroutines,
       OneOpenPort, Tab, TypeOK
  <2>2. ASSUME NEW r \in Requests, pc[r] # "idle", Tab(r) = Tab(c), CancelLoop(c, r, {r})
        PROVE  AnswerInv'
    BY <1>10, <2>1, <2>2, CancelLoopFlags DEF ReceiveCancel
  <2>3. CASE CancelLoop(c, NoReq, {r \in active : Tab(r) = Tab(c)})
    BY <1>0, <1>10, <2>1, <2>3, CancelLoopFlags DEF ReceiveCancel
  <2>4. QED
    BY <1>10, <2>2, <2>3 DEF ReceiveCancel
<1>11. ASSUME NEW c \in Cancels, OrphanedCancel(c)
       PROVE  AnswerInv'
  <2>1. /\ \A q \in Requests : TermIn(out'[q]) = TermIn(out[q])
        /\ \A q \in Requests : \A i \in TermIn(out[q]) : out'[q][i] = out[q][i]
        /\ \A q \in Requests : Ordered(out[q], aborted[q]) => Ordered(out'[q], aborted[q])
    BY <1>0, <1>11, OrphanOutput DEF OrphanedCancel
  <2>2. /\ UNCHANGED <<terminalSent, aborted, active, port, pc, rejected>>
        /\ cancel'[c] = [IdleCancel EXCEPT !.pc = "finished"]
        /\ \A d \in Cancels \ {c} : cancel'[d] = cancel[d]
    BY <1>11 DEF OrphanedCancel, CancelFrame, TypeOK
  <2>31. FlagsMatchOutput'
    <3>1. ASSUME NEW q \in Requests
          PROVE  /\ pc'[q] = "idle" => ~aborted'[q] /\ ~terminalSent'[q] /\ TermIn(out'[q]) = {}
                 /\ q \in active' => (terminalSent'[q] <=> TermIn(out'[q]) # {})
                 /\ q \in active' /\ pc'[q] \in Clearing => terminalSent'[q]
                 /\ aborted'[q] /\ port'[PortOf[q]] = "open" => TermIn(out'[q]) # {}
      BY <2>1, <2>2 DEF AnswerInv, FlagsMatchOutput, IsOpen
    <3>2. QED
      BY <3>1 DEF FlagsMatchOutput, IsOpen
  <2>32. OutputOrdered'
    BY <2>1, <2>2 DEF AnswerInv, OutputOrdered
  <2>3. FlagsMatchOutput' /\ OutputOrdered'
    BY <2>31, <2>32
  <2>4. TargetsOwnPort' /\ TargetsOwnTab' /\ FailuresAreRejections'
    BY <1>0, <2>2 DEF AnswerInv, TargetsOwnPort, TargetsOwnTab, FailuresAreRejections,
       IdleCancel, Tab
  <2>5. QED
    BY <2>3, <2>4 DEF AnswerInv
<1>12. ASSUME NEW c \in Cancels, CancelRemove(c) \/ CancelDone(c)
       PROVE  AnswerInv'
  <2>1. /\ UNCHANGED <<terminalSent, aborted, active, port, pc, out>>
        /\ rejected => rejected'
        /\ \A d \in Cancels \ {c} : cancel'[d] = cancel[d]
    BY <1>12 DEF CancelRemove, CancelDone, CancelFrame, RemoveMarker, RemoveRejected, TypeOK
  <2>2. /\ cancel'[c].todo \in {cancel[c].todo, {}}
        /\ cancel'[c].target \in {cancel[c].target, NoReq}
        /\ cancel'[c].pc # "tabClearFailed"
    <3>1. CASE CancelRemove(c)
      <4>1. cancel'[c] = [cancel[c] EXCEPT !.pc = "removing", !.saw = FALSE]
        BY <3>1 DEF CancelRemove, TypeOK
      <4>2. QED
        BY <4>1 DEF TypeOK
    <3>2. CASE CancelDone(c)
      <4>1. cancel'[c] = [IdleCancel EXCEPT !.pc = "finished"]
        BY <3>2 DEF CancelDone, TypeOK
      <4>2. QED
        BY <4>1 DEF IdleCancel
    <3>3. QED
      BY <1>12, <3>1, <3>2
  <2>3. FlagsMatchOutput' /\ OutputOrdered'
    <3>1. FlagsMatchOutput'
      BY <2>1 DEF AnswerInv, FlagsMatchOutput, IsOpen
    <3>2. OutputOrdered'
      BY <2>1 DEF AnswerInv, OutputOrdered
    <3>3. QED
      BY <3>1, <3>2
  <2>4. TargetsOwnPort' /\ TargetsOwnTab' /\ FailuresAreRejections'
    <3>1. TargetsOwnPort'
      BY <2>1, <2>2 DEF AnswerInv, TargetsOwnPort
    <3>2. TargetsOwnTab'
      BY <1>0, <2>1, <2>2 DEF AnswerInv, TargetsOwnTab, Tab
    <3>3. FailuresAreRejections'
      BY <2>1, <2>2 DEF AnswerInv, FailuresAreRejections
    <3>4. QED
      BY <3>1, <3>2, <3>3
  <2>5. QED
    BY <2>3, <2>4 DEF AnswerInv
<1>13. ASSUME NEW c \in Cancels, CancelNext(c)
       PROVE  AnswerInv'
  <2>1. /\ cancel[c].target \in Requests \cup {NoReq}
        /\ cancel[c].todo \in SUBSET Requests
        /\ \A q \in cancel[c].todo : PortOf[q] = PortOf[c]
        /\ cancel[c].target \in Requests =>
             pc[cancel[c].target] # "idle" /\ Tab(cancel[c].target) = Tab(c)
    BY DEF TypeOK, AnswerInv, TargetsOwnPort, TargetsOwnTab
  <2>2. QED
    BY <1>13, <2>1, CancelLoopFlags DEF CancelNext
<1>14. ASSUME NEW c \in Cancels, CancelFailed(c)
       PROVE  AnswerInv'
  <2>0. /\ UNCHANGED <<aborted, active, port, pc, rejected>>
        /\ rejected
        /\ cancel'[c] = [IdleCancel EXCEPT !.pc = "finished"]
        /\ \A d \in Cancels \ {c} : cancel'[d] = cancel[d]
        /\ cancel[c].target \in Requests \cup {NoReq}
    BY <1>14 DEF CancelFailed, CancelFrame, TypeOK, AnswerInv, FailuresAreRejections
  <2>1. OutputOrdered'
    BY <2>0 DEF OutputOrdered
  <2>2. TargetsOwnPort' /\ TargetsOwnTab' /\ FailuresAreRejections'
    BY <1>0, <2>0 DEF AnswerInv, TargetsOwnPort, TargetsOwnTab, FailuresAreRejections,
       IdleCancel, Tab
  <2>3. CASE UNCHANGED <<terminalSent, out>>
    <3>1. ASSUME NEW q \in Requests
          PROVE  /\ pc'[q] = "idle" => ~aborted'[q] /\ ~terminalSent'[q] /\ TermIn(out'[q]) = {}
                 /\ q \in active' => (terminalSent'[q] <=> TermIn(out'[q]) # {})
                 /\ q \in active' /\ pc'[q] \in Clearing => terminalSent'[q]
                 /\ aborted'[q] /\ port'[PortOf[q]] = "open" => TermIn(out'[q]) # {}
      BY <2>0, <2>3 DEF AnswerInv, FlagsMatchOutput, IsOpen
    <3>2. QED
      BY <2>1, <2>2, <3>1 DEF FlagsMatchOutput, IsOpen, AnswerInv
  <2>4. ASSUME NEW r \in Requests, cancel[c].target = r, IsOpen(c),
               SetTerminal(r), Post(PortOf[c], r, "error")
        PROVE  FlagsMatchOutput'
    <3>1. /\ "error" \in Events /\ "error" \in Terminal /\ out[r] \in Seq(Events)
          /\ pc[r] # "idle"
      BY <2>4 DEF Events, Terminal, TypeOK, AnswerInv, TargetsOwnTab
    <3>2. /\ out'[r] = Append(out[r], "error")
          /\ \A q \in Requests \ {r} : out'[q] = out[q] /\ terminalSent'[q] = terminalSent[q]
      BY <1>0, <2>4, <3>1, PostOutput DEF IsOpen, SetTerminal, TypeOK
    <3>3. Len(out[r]) + 1 \in TermIn(Append(out[r], "error"))
      BY <3>1, AppendTerminals
    <3>4. r \in active => terminalSent'[r]
      BY <2>4 DEF SetTerminal, TypeOK
    <3>5. QED
      BY <2>0, <3>1, <3>2, <3>3, <3>4 DEF AnswerInv, FlagsMatchOutput, IsOpen
  <2>5. QED
    BY <1>0, <1>14, <2>0, <2>1, <2>2, <2>3, <2>4 DEF CancelFailed, AnswerInv
<1>15. CASE UNCHANGED vars
  BY <1>1, <1>15 DEF vars, IsOpen
<1>16. QED
  BY <1>2, <1>3, <1>4, <1>5, <1>6, <1>7, <1>8, <1>9, <1>10, <1>11, <1>12, <1>13,
     <1>14, <1>15 DEF Next, CancelHandler

LEMMA AnswerInvariant == Spec => []AnswerInv
<1>1. Init => AnswerInv
  BY AnswerInit, ParametersAssumption
<1>2. TypeOK /\ MapInv /\ AnswerInv /\ [Next]_vars => AnswerInv'
  BY AnswerNext, ParametersAssumption
<1>3. QED
  BY <1>1, <1>2, TypeCorrect, MapInvariant, PTL DEF Spec

(* After its terminal event a request only ever gets a late recovery error, *)
(* or the one error that an unguarded path adds to the done of a CANCEL.    *)
THEOREM OutputDisciplined == Spec => []TerminalDiscipline
<1>1. AnswerInv => TerminalDiscipline
  BY DEF AnswerInv, OutputOrdered, Ordered, TerminalDiscipline, TerminalsOf, TermIn
<1>2. QED
  BY <1>1, AnswerInvariant, PTL

(* No request is aborted without its client having been told.               *)
THEOREM AbortsAnswered == Spec => []AbortIsAnswered
<1>1. AnswerInv => AbortIsAnswered
  BY DEF AnswerInv, FlagsMatchOutput, AbortIsAnswered, TerminalsOf, TermIn
<1>2. QED
  BY <1>1, AnswerInvariant, PTL
-------------------------------------------------------------------------------
(* The marker of a tab with a single request.  Nobody else removes it: the  *)
(* removes that are still owed belong to aborted requests, to coroutines    *)
(* that are not idle, or to CANCELs of the tab.                             *)
Sole(r) ==
  /\ pc[r] \in Working \ {"persistFailed"}
  /\ IsOpen(r)
  /\ \A q \in Requests \ {r} : Tab(q) = Tab(r) =>
       \/ pc[q] = "idle"
       \/ PortOf[q] # PortOf[r] /\ ~aborted[q]
  /\ \A c \in Cancels : Tab(c) = Tab(r) => cancel[c].pc \in {"idle", "killed"}

LateRemovesAreAborted ==
  \A q \in lateRemoves : aborted[q] /\ pc[q] # "idle" /\ ~IsOpen(q)

(* What runs on without its port has been aborted.                          *)
ClosedAreAborted ==
  \A q \in Requests : pc[q] \in InFlight /\ ~IsOpen(q) => aborted[q]

FlightNeedsWorker ==
  \A q \in Requests : pc[q] \in InFlight => sw = "up"

(* A CANCEL removes markers of its own tab only.                            *)
ClearsOwnTab ==
  \A c \in Cancels : cancel[c].pc = "clearing" =>
    cancel[c].cur \in Requests /\ Tab(cancel[c].cur) = Tab(c)

OwedInv == LateRemovesAreAborted /\ ClosedAreAborted /\ FlightNeedsWorker /\ ClearsOwnTab

LEMMA OwedInit == ParametersAssumption /\ Init => OwedInv
BY DEF Init, OwedInv, LateRemovesAreAborted, ClosedAreAborted, FlightNeedsWorker, ClearsOwnTab,
   IdleCancel

(* An update of one CANCEL changes its entry only.                          *)
LEMMA OneCancel ==
  ASSUME TypeOK, NEW c \in Cancels, NEW e, cancel' = [cancel EXCEPT ![c] = e]
  PROVE  cancel'[c] = e /\ (\A d \in Cancels \ {c} : cancel'[d] = cancel[d])
BY DEF TypeOK

LEMMA IdleLabels ==
  ASSUME NEW label, NEW target
  PROVE  /\ IdleCancel.pc = "idle"
         /\ [IdleCancel EXCEPT !.pc = label].pc = label
         /\ [IdleCancel EXCEPT !.pc = label, !.target = target].pc = label
BY DEF IdleCancel

(* Where the handlers of a CANCEL leave its entry, and no other.            *)
LEMMA CancelSettles ==
  ASSUME TypeOK, NEW c \in Cancels
  PROVE  /\ OrphanedCancel(c) \/ CancelDone(c) \/ CancelFailed(c) =>
              cancel'[c].pc = "finished" /\ \A d \in Cancels \ {c} : cancel'[d] = cancel[d]
         /\ CancelRemove(c) =>
              cancel'[c].pc = "removing" /\ \A d \in Cancels \ {c} : cancel'[d] = cancel[d]
<1>1. ASSUME OrphanedCancel(c) \/ CancelDone(c) \/ CancelFailed(c)
      PROVE  cancel'[c].pc = "finished" /\ \A d \in Cancels \ {c} : cancel'[d] = cancel[d]
  <2>1. cancel' = [cancel EXCEPT ![c] = [IdleCancel EXCEPT !.pc = "finished"]]
    BY <1>1 DEF OrphanedCancel, CancelDone, CancelFailed
  <2>2. cancel'[c] = [IdleCancel EXCEPT !.pc = "finished"]
        /\ \A d \in Cancels \ {c} : cancel'[d] = cancel[d]
    BY <2>1, OneCancel
  <2>3. [IdleCancel EXCEPT !.pc = "finished"].pc = "finished"
    BY IdleLabels
  <2>4. QED
    BY <2>2, <2>3
<1>2. ASSUME CancelRemove(c)
      PROVE  cancel'[c].pc = "removing" /\ \A d \in Cancels \ {c} : cancel'[d] = cancel[d]
  <2> DEFINE e == [cancel[c] EXCEPT !.pc = "removing", !.saw = FALSE]
  <2>1. cancel' = [cancel EXCEPT ![c] = e]
    BY <1>2 DEF CancelRemove
  <2>2. e.pc = "removing"
    BY DEF TypeOK
  <2>3. QED
    BY <2>1, <2>2, OneCancel
<1>3. QED
  BY <1>1, <1>2

LEMMA CancelLoopLabel ==
  ASSUME TypeOK, NEW c \in Cancels, NEW target, NEW todo, CancelLoop(c, target, todo)
  PROVE  /\ cancel'[c].pc \in {"clearing", "clearingTab", "tabClearFailed"}
         /\ \A d \in Cancels \ {c} : cancel'[d] = cancel[d]
<1> DEFINE Loops(e) == /\ cancel' = [cancel EXCEPT ![c] = e]
                       /\ e.pc \in {"clearing", "clearingTab", "tabClearFailed"}
           clearing(r) == [pc |-> "clearing", target |-> target, todo |-> todo \ {r},
                           cur |-> r, saw |-> marker[Tab(r)] = r]
           clearingTab == [IdleCancel EXCEPT !.pc = "clearingTab"]
           failed == [IdleCancel EXCEPT !.pc = "tabClearFailed", !.target = target]
<1>1. \/ \E r : cancel' = [cancel EXCEPT ![c] = clearing(r)]
      \/ cancel' = [cancel EXCEPT ![c] = clearingTab]
      \/ cancel' = [cancel EXCEPT ![c] = failed]
  BY DEF CancelLoop
<1>2. /\ \A r : clearing(r).pc = "clearing"
      /\ clearingTab.pc = "clearingTab"
      /\ failed.pc = "tabClearFailed"
  BY IdleLabels
<1>3. \E e : Loops(e)
  <2> HIDE DEF clearing, clearingTab, failed
  <2>1. QED
    BY <1>1, <1>2
<1>4. PICK e : Loops(e)
  BY <1>3
<1>5. QED
  BY <1>4, OneCancel

(* The loop of a CANCEL whose targets are requests of its tab.              *)
LEMMA CancelLoopOwes ==
  ASSUME TypeOK, ParametersAssumption, OwedInv, NEW c \in Cancels, NEW target,
         NEW todo \in SUBSET Requests, \A q \in todo : Tab(q) = Tab(c),
         CancelLoop(c, target, todo)
  PROVE  ClearsOwnTab' /\ (\A q \in Requests : aborted[q] => aborted'[q])
<1>1. CASE \E r \in todo \cap active :
             /\ aborted' = [aborted EXCEPT ![r] = TRUE]
             /\ cancel' = [cancel EXCEPT ![c] =
                             [pc |-> "clearing", target |-> target,
                              todo |-> todo \ {r}, cur |-> r,
                              saw |-> marker[Tab(r)] = r]]
  <2>1. PICK r \in todo \cap active :
             /\ aborted' = [aborted EXCEPT ![r] = TRUE]
             /\ cancel' = [cancel EXCEPT ![c] =
                             [pc |-> "clearing", target |-> target,
                              todo |-> todo \ {r}, cur |-> r,
                              saw |-> marker[Tab(r)] = r]]
    BY <1>1
  <2>2. cancel'[c].cur = r /\ \A d \in Cancels \ {c} : cancel'[d] = cancel[d]
    BY <2>1 DEF TypeOK
  <2>3. r \in Requests /\ Tab(r) = Tab(c)
    OBVIOUS
  <2>4. ClearsOwnTab'
    BY <2>2, <2>3 DEF OwedInv, ClearsOwnTab, Tab
  <2>5. \A q \in Requests : aborted[q] => aborted'[q]
    BY <2>1 DEF TypeOK
  <2>6. QED
    BY <2>4, <2>5
<1>2. ASSUME NEW e, e.pc # "clearing", cancel' = [cancel EXCEPT ![c] = e], UNCHANGED aborted
      PROVE  ClearsOwnTab' /\ (\A q \in Requests : aborted[q] => aborted'[q])
  <2>1. cancel'[c] = e /\ \A d \in Cancels \ {c} : cancel'[d] = cancel[d]
    BY <1>2, OneCancel
  <2>2. QED
    BY <1>2, <2>1 DEF OwedInv, ClearsOwnTab, Tab
<1>3. CASE /\ cancel' = [cancel EXCEPT ![c] = [IdleCancel EXCEPT !.pc = "clearingTab"]]
           /\ UNCHANGED aborted
  <2>1. [IdleCancel EXCEPT !.pc = "clearingTab"].pc # "clearing"
    BY IdleLabels
  <2>2. QED
    BY <1>2, <1>3, <2>1
<1>4. CASE /\ cancel' = [cancel EXCEPT ![c] =
                           [IdleCancel EXCEPT !.pc = "tabClearFailed", !.target = target]]
           /\ UNCHANGED aborted
  <2>1. [IdleCancel EXCEPT !.pc = "tabClearFailed", !.target = target].pc # "clearing"
    BY IdleLabels
  <2>2. QED
    BY <1>2, <1>4, <2>1
<1>5. QED
  BY <1>1, <1>3, <1>4 DEF CancelLoop

LEMMA OwedNext ==
  ASSUME TypeOK, ParametersAssumption, MapInv, AnswerInv, OwedInv, [Next]_vars
  PROVE  OwedInv'
<1> USE DEF recoveryVars, requestVars, storageVars, historyVars
<1>0. /\ \A r \in Requests : PortOf[r] \in Ports
      /\ \A c \in Cancels : PortOf[c] \in Ports
  BY DEF ParametersAssumption
<1>1. ASSUME UNCHANGED <<port, pc, sw>>, lateRemoves' \subseteq lateRemoves,
             \A q \in Requests : aborted[q] => aborted'[q],
             ClearsOwnTab'
      PROVE  OwedInv'
  BY <1>1 DEF OwedInv, LateRemovesAreAborted, ClosedAreAborted, FlightNeedsWorker, IsOpen, TypeOK
<1>2. ASSUME UNCHANGED cancel
      PROVE  ClearsOwnTab'
  BY <1>2 DEF OwedInv, ClearsOwnTab, Tab
<1>3. CASE StartWorker \/ Recover
  <2>1. \A q \in Requests : pc'[q] \notin InFlight
    BY <1>3 DEF StartWorker, Recover, OwedInv, FlightNeedsWorker
  <2>2. UNCHANGED <<port, aborted, lateRemoves, pc, cancel>>
    BY <1>3 DEF StartWorker, Recover
  <2>3. QED
    BY <1>2, <2>1, <2>2 DEF OwedInv, LateRemovesAreAborted, ClosedAreAborted, FlightNeedsWorker,
       IsOpen
<1>4. CASE Crash
  <2>1. \A q \in Requests : pc'[q] \notin InFlight
    BY <1>4 DEF Crash
  <2>2. \A c \in Cancels : cancel'[c].pc # "clearing"
    BY <1>4 DEF Crash, IdleCancel
  <2>3. lateRemoves' = {}
    BY <1>4 DEF Crash
  <2>4. QED
    BY <2>1, <2>2, <2>3 DEF OwedInv, LateRemovesAreAborted, ClosedAreAborted, FlightNeedsWorker,
       ClearsOwnTab
<1>5. ASSUME NEW p \in Ports, Connect(p)
      PROVE  OwedInv'
  <2>1. UNCHANGED <<sw, pc, aborted, lateRemoves, cancel>>
        /\ port' = [port EXCEPT ![p] = "open"] /\ port[p] = "new"
    BY <1>5 DEF Connect
  <2>2. \A q \in Requests : pc[q] # "idle" => port'[PortOf[q]] = port[PortOf[q]]
    BY <1>0, <2>1 DEF MapInv, SentOnPort, TypeOK
  <2>3. QED
    BY <1>2, <2>1, <2>2 DEF OwedInv, LateRemovesAreAborted, ClosedAreAborted, FlightNeedsWorker,
       IsOpen, TypeOK
<1>6. ASSUME NEW p \in Ports, Disconnect(p)
      PROVE  OwedInv'
  <2> DEFINE hit == {r \in active : Tab(r) = TabOf[p]}
  <2>1. /\ port[p] = "open" /\ port' = [port EXCEPT ![p] = "closed"]
        /\ aborted' = [r \in Requests |-> aborted[r] \/ r \in hit]
        /\ lateRemoves' \subseteq lateRemoves \cup hit
        /\ UNCHANGED <<sw, pc, cancel>>
    BY <1>6 DEF Disconnect
  <2>2. ASSUME NEW q \in hit
        PROVE  q \in Requests /\ PortOf[q] = p /\ pc[q] \in InFlight
    BY <1>0, <2>1 DEF MapInv, MapMirrorsCoroutines, OneOpenPort, IsOpen, Tab, TypeOK
  <2>3. ASSUME NEW q \in Requests, pc[q] \in InFlight, PortOf[q] = p
        PROVE  q \in hit
    BY <2>1, <2>3 DEF MapInv, MapMirrorsCoroutines, IsOpen, Tab
  <2>4. ASSUME NEW q \in Requests
        PROVE  IsOpen(q)' <=> IsOpen(q) /\ PortOf[q] # p
    BY <1>0, <2>1 DEF IsOpen, TypeOK
  <2>5. ASSUME NEW q \in Requests
        PROVE  aborted'[q] <=> aborted[q] \/ q \in hit
    BY <2>1
  <2> HIDE DEF hit
  <2>6. LateRemovesAreAborted'
    BY <2>1, <2>2, <2>4, <2>5 DEF OwedInv, LateRemovesAreAborted, TypeOK
  <2>7. ClosedAreAborted'
    BY <2>1, <2>3, <2>4, <2>5 DEF OwedInv, ClosedAreAborted
  <2>8. QED
    BY <1>2, <2>1, <2>6, <2>7 DEF OwedInv, FlightNeedsWorker
<1>7. ASSUME NEW r \in Requests, OrphanedRequest(r) \/ Dispatch(r)
      PROVE  OwedInv'
  <2>1. /\ UNCHANGED <<sw, port, aborted, lateRemoves, cancel>>
        /\ sw = "up" /\ IsOpen(r)
        /\ pc'[r] # "idle" /\ \A q \in Requests \ {r} : pc'[q] = pc[q]
    BY <1>7 DEF OrphanedRequest, Dispatch, CanHandle, Goto, TypeOK
  <2>2. QED
    BY <1>2, <2>1 DEF OwedInv, LateRemovesAreAborted, ClosedAreAborted, FlightNeedsWorker, IsOpen,
       TypeOK
<1>8. ASSUME NEW r \in Requests, Coroutine(r)
      PROVE  OwedInv'
  <2>1. CoroutineStep(r)
    BY <1>8, CoroutineEffect
  <2>2. /\ UNCHANGED <<sw, port, aborted, lateRemoves, cancel>>
        /\ pc[r] \in InFlight /\ pc'[r] \in InFlight \cup {"finished"}
        /\ \A q \in Requests \ {r} : pc'[q] = pc[q]
    BY <2>1 DEF CoroutineStep
  <2>3. QED
    BY <1>2, <2>2 DEF OwedInv, LateRemovesAreAborted, ClosedAreAborted, FlightNeedsWorker, IsOpen,
       TypeOK
<1>9. ASSUME NEW r \in Requests, LateRemove(r)
      PROVE  OwedInv'
  BY <1>1, <1>2, <1>9 DEF LateRemove
<1>10. ASSUME NEW c \in Cancels, ReceiveCancel(c)
       PROVE  OwedInv'
  <2>1. UNCHANGED <<port, pc, sw, lateRemoves>>
    BY <1>10 DEF ReceiveCancel, CancelFrame
  <2>2. ASSUME NEW target, NEW todo \in SUBSET Requests, \A q \in todo : Tab(q) = Tab(c),
               CancelLoop(c, target, todo)
        PROVE  OwedInv'
    BY <1>1, <2>1, <2>2, CancelLoopOwes
  <2>3. CASE CancelLoop(c, NoReq, {r \in active : Tab(r) = Tab(c)})
    BY <2>2, <2>3 DEF TypeOK
  <2>4. CASE \E r \in Requests : Tab(r) = Tab(c) /\ CancelLoop(c, r, {r})
    BY <2>2, <2>4
  <2>5. QED
    BY <1>10, <2>3, <2>4 DEF ReceiveCancel
<1>11. ASSUME NEW c \in Cancels, CancelNext(c)
       PROVE  OwedInv'
  <2>1. UNCHANGED <<port, pc, sw, lateRemoves>>
    BY <1>11 DEF CancelNext, CancelFrame
  <2>2. cancel[c].todo \in SUBSET Requests /\ \A q \in cancel[c].todo : Tab(q) = Tab(c)
    BY DEF AnswerInv, TargetsOwnPort, Tab, TypeOK
  <2>3. ClearsOwnTab' /\ \A q \in Requests : aborted[q] => aborted'[q]
    BY <1>11, <2>2, CancelLoopOwes DEF CancelNext
  <2>4. QED
    BY <1>1, <2>1, <2>3
<1>12. ASSUME NEW c \in Cancels,
              OrphanedCancel(c) \/ CancelRemove(c) \/ CancelDone(c) \/ CancelFailed(c)
       PROVE  OwedInv'
  <2>1. UNCHANGED <<port, pc, sw, lateRemoves, aborted>>
    BY <1>12 DEF OrphanedCancel, CancelRemove, CancelDone, CancelFailed, CancelFrame
  <2>2. cancel'[c].pc # "clearing" /\ \A d \in Cancels \ {c} : cancel'[d] = cancel[d]
    BY <1>12, CancelSettles
  <2>3. ClearsOwnTab'
    BY <2>2 DEF OwedInv, ClearsOwnTab, Tab
  <2>4. QED
    BY <1>1, <2>1, <2>3
<1>13. CASE UNCHANGED vars
  BY <1>1, <1>2, <1>13 DEF vars
<1>14. QED
  BY <1>3, <1>4, <1>5, <1>6, <1>7, <1>8, <1>9, <1>10, <1>11, <1>12, <1>13 DEF Next, CancelHandler

LEMMA OwedInvariant == Spec => []OwedInv
<1>1. Init => OwedInv
  BY OwedInit, ParametersAssumption
<1>2. TypeOK /\ MapInv /\ AnswerInv /\ OwedInv /\ [Next]_vars => OwedInv'
  BY OwedNext, ParametersAssumption
<1>3. QED
  BY <1>1, <1>2, TypeCorrect, MapInvariant, AnswerInvariant, PTL DEF Spec

LEMMA SoleNext ==
  ASSUME TypeOK, ParametersAssumption, MapInv, OwedInv, OwedInv', SoleRequestIsMarked, [Next]_vars
  PROVE  SoleRequestIsMarked'
<1> USE DEF recoveryVars, requestVars, storageVars, historyVars
<1>0. /\ \A r \in Requests : PortOf[r] \in Ports /\ Tab(r) \in Tabs
      /\ \A c \in Cancels : PortOf[c] \in Ports /\ Tab(c) \in Tabs
  BY DEF ParametersAssumption, Tab
(* A request that is the sole one of its tab was so before, and marked, so  *)
(* that the step need only leave the marker alone.                          *)
<1>1. ASSUME \A q \in Requests : pc[q] # "idle" => pc'[q] # "idle",
             \A q \in Requests : aborted[q] => aborted'[q],
             \A c \in Cancels : cancel'[c].pc \in {"idle", "killed"} =>
                                  cancel[c].pc \in {"idle", "killed"},
             NEW r \in Requests, Sole(r)',
             pc[r] \in Working \ {"persistFailed"},
             IsOpen(r),
             marker'[Tab(r)] = marker[Tab(r)]
      PROVE  marker'[Tab(r)] = r
  <2>1. Sole(r)
    BY <1>1 DEF Sole, Tab
  <2>2. QED
    BY <1>1, <2>1 DEF SoleRequestIsMarked, Sole
<1>2. SUFFICES ASSUME NEW r \in Requests, Sole(r)'
               PROVE  marker'[Tab(r)] = r
  BY DEF SoleRequestIsMarked, Sole, Tab
(* Only one port of the tab is open.                                        *)
<1>3. ASSUME NEW q \in Requests, q # r, Tab(q) = Tab(r), UNCHANGED port,
             pc'[q] \in InFlight
      PROVE  FALSE
  <2>1. pc'[q] # "idle" /\ IsOpen(r)
    BY <1>2, <1>3 DEF Sole, IsOpen
  <2>2. PortOf[q] # PortOf[r] /\ ~aborted'[q]
    BY <1>2, <1>3, <2>1 DEF Sole, Tab
  <2>3. ~IsOpen(q)
    BY <1>0, <1>3, <2>1, <2>2 DEF MapInv, OneOpenPort, IsOpen, Tab
  <2>4. QED
    BY <1>3, <2>2, <2>3 DEF OwedInv, ClosedAreAborted, IsOpen
<1>4. pc'[r] \in Working \ {"persistFailed"} /\ IsOpen(r)'
  BY <1>2 DEF Sole
<1>5. CASE StartWorker \/ Crash
  <2>1. CASE StartWorker
    BY <1>1, <1>2, <1>4, <2>1 DEF StartWorker, IsOpen
  <2>2. CASE Crash
    BY <1>4, <2>2 DEF Crash
  <2>3. QED
    BY <1>5, <2>1, <2>2
<1>6. CASE Recover
  BY <1>4, <1>6 DEF Recover, OwedInv, FlightNeedsWorker
<1>7. ASSUME NEW p \in Ports, Connect(p)
      PROVE  marker'[Tab(r)] = r
  <2>1. port[PortOf[r]] # "new"
    BY <1>4, <1>7 DEF Connect, MapInv, SentOnPort
  <2>2. IsOpen(r)
    BY <1>0, <1>4, <1>7, <2>1 DEF Connect, IsOpen, TypeOK
  <2>3. QED
    BY <1>1, <1>2, <1>4, <1>7, <2>2 DEF Connect
<1>8. ASSUME NEW p \in Ports, Disconnect(p)
      PROVE  marker'[Tab(r)] = r
  <2>1. IsOpen(r) /\ PortOf[r] # p
    BY <1>0, <1>4, <1>8 DEF Disconnect, IsOpen, TypeOK
  <2>2. Tab(r) # TabOf[p]
    BY <1>0, <1>8, <2>1 DEF Disconnect, MapInv, OneOpenPort, IsOpen, Tab
  <2>3. TabOf[p] \in Tabs
    BY DEF ParametersAssumption
  <2>4. marker'[Tab(r)] = marker[Tab(r)]
    BY <1>0, <1>8, <2>2, <2>3 DEF Disconnect, RemoveMarker, RemoveRejected, TypeOK
  <2>5. QED
    BY <1>1, <1>2, <1>4, <1>8, <2>1, <2>4 DEF Disconnect
<1>9. ASSUME NEW q \in Requests, OrphanedRequest(q)
      PROVE  marker'[Tab(r)] = r
  <2>1. pc'[q] = "finished" /\ \A s \in Requests \ {q} : pc'[s] = pc[s]
    BY <1>9 DEF OrphanedRequest, TypeOK
  <2>2. q # r /\ pc[r] \in Working \ {"persistFailed"}
    BY <1>4, <2>1
  <2>3. UNCHANGED <<port, marker, aborted, cancel>>
    BY <1>9 DEF OrphanedRequest
  <2>4. QED
    BY <1>1, <1>2, <1>4, <2>1, <2>2, <2>3 DEF IsOpen
<1>10. ASSUME NEW q \in Requests, Dispatch(q)
       PROVE  marker'[Tab(r)] = r
  <2>1. /\ UNCHANGED <<port, aborted, cancel>>
        /\ pc'[q] \in {"persisting", "persistFailed"} /\ \A s \in Requests \ {q} : pc'[s] = pc[s]
        /\ \/ marker' = [marker EXCEPT ![Tab(q)] = q]
           \/ pc'[q] = "persistFailed" /\ marker' = marker
    BY <1>10 DEF Dispatch, Goto, TypeOK
  <2>2. CASE q = r
    BY <1>0, <1>4, <2>1, <2>2 DEF TypeOK
  <2>3. CASE q # r
    <3>1. Tab(q) # Tab(r)
      BY <1>3, <2>1, <2>3
    <3>2. marker'[Tab(r)] = marker[Tab(r)]
      BY <1>0, <2>1, <3>1 DEF TypeOK
    <3>3. QED
      BY <1>1, <1>2, <1>4, <2>1, <2>3, <3>2 DEF IsOpen
  <2>4. QED
    BY <2>2, <2>3
<1>11. ASSUME NEW q \in Requests, Coroutine(q)
       PROVE  marker'[Tab(r)] = r
  <2>1. CoroutineStep(q)
    BY <1>11, CoroutineEffect
  <2>2. /\ UNCHANGED <<port, aborted, cancel>>
        /\ pc[q] \in InFlight /\ pc'[q] \in InFlight \cup {"finished"}
        /\ \A s \in Requests \ {q} : pc'[s] = pc[s]
        /\ pc'[q] \in Working => pc[q] \in Working \ {"persistFailed"}
        /\ IF pc'[q] = "removing" THEN RemoveMarker(Tab(q)) ELSE marker' = marker
    BY <2>1 DEF CoroutineStep
  <2>3. marker'[Tab(r)] = marker[Tab(r)]
    <3>1. CASE pc'[q] = "removing"
      <4>1. Tab(q) # Tab(r)
        BY <1>3, <1>4, <2>2, <3>1
      <4>2. QED
        BY <1>0, <2>2, <3>1, <4>1 DEF RemoveMarker, RemoveRejected, TypeOK
    <3>2. CASE pc'[q] # "removing"
      BY <2>2, <3>2
    <3>3. QED
      BY <3>1, <3>2
  <2>4. pc[r] \in Working \ {"persistFailed"} /\ IsOpen(r)
    BY <1>4, <2>2 DEF IsOpen
  <2>5. \A s \in Requests : pc[s] # "idle" => pc'[s] # "idle"
    BY <2>2
  <2>6. QED
    BY <1>1, <1>2, <2>2, <2>3, <2>4, <2>5
<1>12. ASSUME NEW q \in Requests, LateRemove(q)
       PROVE  marker'[Tab(r)] = r
  <2>1. q \in lateRemoves /\ RemoveMarker(Tab(q)) /\ UNCHANGED <<port, pc, aborted, cancel>>
    BY <1>12 DEF LateRemove
  <2>2. aborted[q] /\ pc[q] # "idle" /\ ~IsOpen(q)
    BY <2>1 DEF OwedInv, LateRemovesAreAborted
  <2>3. Tab(q) # Tab(r)
    BY <1>2, <2>1, <2>2 DEF Sole, IsOpen, Tab
  <2>4. marker'[Tab(r)] = marker[Tab(r)]
    BY <1>0, <2>1, <2>3 DEF RemoveMarker, RemoveRejected, TypeOK
  <2>5. QED
    BY <1>1, <1>2, <1>4, <2>1, <2>4 DEF IsOpen
(* A CANCEL of the tab that does anything leaves r not the sole one.        *)
<1>13. ASSUME NEW c \in Cancels, UNCHANGED <<port, pc>>,
              \A q \in Requests : aborted[q] => aborted'[q],
              cancel'[c].pc \notin {"idle", "killed"},
              \A d \in Cancels \ {c} : cancel'[d] = cancel[d],
              \A t \in Tabs \ {Tab(c)} : marker'[t] = marker[t]
       PROVE  marker'[Tab(r)] = r
  <2>1. Tab(c) # Tab(r)
    BY <1>2, <1>13 DEF Sole, Tab
  <2>2. marker'[Tab(r)] = marker[Tab(r)]
    BY <1>0, <1>13, <2>1
  <2>3. QED
    BY <1>1, <1>2, <1>4, <1>13, <2>2 DEF IsOpen
<1>14. ASSUME NEW c \in Cancels, NEW target, NEW todo \in SUBSET Requests,
              CancelLoop(c, target, todo), CancelFrame
       PROVE  marker'[Tab(r)] = r
  <2>1. UNCHANGED <<port, pc>>
    BY <1>14 DEF CancelFrame
  <2>2. cancel'[c].pc \in {"clearing", "clearingTab", "tabClearFailed"}
        /\ \A d \in Cancels \ {c} : cancel'[d] = cancel[d]
    BY <1>14, CancelLoopLabel
  <2>3. \A q \in Requests : aborted[q] => aborted'[q]
    <3>1. \/ UNCHANGED aborted
          \/ \E q \in Requests : aborted' = [aborted EXCEPT ![q] = TRUE]
      BY <1>14 DEF CancelLoop
    <3>2. QED
      BY <3>1 DEF TypeOK
  <2>4. \A t \in Tabs \ {Tab(c)} : marker'[t] = marker[t]
    BY <1>14 DEF CancelLoop, RemoveRejected, TypeOK
  <2>5. QED
    BY <1>13, <2>1, <2>2, <2>3, <2>4
<1>15. ASSUME NEW c \in Cancels, ReceiveCancel(c)
       PROVE  marker'[Tab(r)] = r
  <2>1. CASE CancelLoop(c, NoReq, {q \in active : Tab(q) = Tab(c)})
    BY <1>14, <1>15, <2>1 DEF ReceiveCancel, TypeOK
  <2>2. CASE \E q \in Requests : CancelLoop(c, q, {q})
    BY <1>14, <1>15, <2>2 DEF ReceiveCancel
  <2>3. QED
    BY <1>15, <2>1, <2>2 DEF ReceiveCancel
<1>16. ASSUME NEW c \in Cancels, CancelNext(c)
       PROVE  marker'[Tab(r)] = r
  <2>1. cancel[c].todo \in SUBSET Requests
    BY DEF TypeOK
  <2>2. QED
    BY <1>14, <1>16, <2>1 DEF CancelNext
<1>17. ASSUME NEW c \in Cancels, CancelRemove(c)
       PROVE  marker'[Tab(r)] = r
  <2>1. Tab(cancel[c].cur) = Tab(c) /\ RemoveMarker(Tab(c))
    BY <1>17 DEF CancelRemove, OwedInv, ClearsOwnTab
  <2>2. \A t \in Tabs \ {Tab(c)} : marker'[t] = marker[t]
    BY <2>1 DEF RemoveMarker, RemoveRejected, TypeOK
  <2>3. cancel'[c].pc = "removing" /\ \A d \in Cancels \ {c} : cancel'[d] = cancel[d]
    BY <1>17 DEF CancelRemove, TypeOK
  <2>4. UNCHANGED <<port, pc, aborted>>
    BY <1>17 DEF CancelRemove, CancelFrame
  <2>5. QED
    BY <1>13, <2>2, <2>3, <2>4
<1>18. ASSUME NEW c \in Cancels, OrphanedCancel(c) \/ CancelDone(c) \/ CancelFailed(c)
       PROVE  marker'[Tab(r)] = r
  <2>1. cancel'[c].pc = "finished" /\ \A d \in Cancels \ {c} : cancel'[d] = cancel[d]
    BY <1>18, CancelSettles
  <2>2. UNCHANGED <<port, pc, aborted, marker>>
    BY <1>18 DEF OrphanedCancel, CancelDone, CancelFailed, CancelFrame
  <2>3. QED
    BY <1>13, <2>1, <2>2
<1>19. CASE UNCHANGED vars
  BY <1>1, <1>2, <1>4, <1>19 DEF vars, IsOpen
<1>20. QED
  BY <1>5, <1>6, <1>7, <1>8, <1>9, <1>10, <1>11, <1>12, <1>15, <1>16, <1>17, <1>18, <1>19
     DEF Next, CancelHandler

(* While the only request that a page has sent is being worked on, its      *)
(* marker is in the storage, whatever requests, CANCELs, disconnects and    *)
(* kills of earlier pages have left behind: a kill of the worker then goes  *)
(* unnoticed by nobody.                                                     *)
THEOREM SoleMarked == Spec => []SoleRequestIsMarked
<1>1. Init => SoleRequestIsMarked
  BY DEF Init, SoleRequestIsMarked
<1>2. /\ TypeOK /\ MapInv /\ OwedInv /\ OwedInv' /\ SoleRequestIsMarked /\ [Next]_vars
      => SoleRequestIsMarked'
  BY SoleNext, ParametersAssumption
<1>3. QED
  BY <1>1, <1>2, TypeCorrect, MapInvariant, OwedInvariant, PTL DEF Spec
-------------------------------------------------------------------------------
(* What becomes of a kill.  A worker that is down does nothing but start.   *)
Quiet ==
  sw = "down" =>
    /\ snapshot = {}
    /\ lateRemoves = {}
    /\ \A p \in Ports : port[p] # "open"
    /\ \A c \in Cancels : cancel[c].pc \in {"idle", "finished", "killed"}

LEMMA DownIsStill ==
  ASSUME ParametersAssumption, OwedInv, Quiet, sw = "down", [Next]_vars
  PROVE  StartWorker \/ UNCHANGED vars
<1>1. ~Recover /\ ~Crash
  BY DEF Recover, Crash
<1>2. \A p \in Ports : ~Connect(p) /\ ~Disconnect(p)
  BY DEF Quiet, Connect, Disconnect
<1>3. ASSUME NEW r \in Requests
      PROVE  ~OrphanedRequest(r) /\ ~Dispatch(r) /\ ~Coroutine(r) /\ ~LateRemove(r)
  <2>1. pc[r] \notin InFlight
    BY DEF OwedInv, FlightNeedsWorker
  <2>2. ~Coroutine(r)
    BY <2>1 DEF Coroutine, PersistFailed, Fetch, Respond, Refreshed, ErrorRead, SegmentAnswer,
                Token, TerminalFrame, StreamEnd, FetchFails, ClearMarker, Finish, InFlight, Working,
                Clearing
  <2>3. QED
    BY <2>2 DEF Quiet, OrphanedRequest, Dispatch, LateRemove, CanHandle
<1>4. ASSUME NEW c \in Cancels
      PROVE  ~ReceiveCancel(c) /\ ~OrphanedCancel(c) /\ ~CancelHandler(c)
  BY DEF Quiet, ReceiveCancel, OrphanedCancel, CanHandle, CancelHandler, CancelRemove, CancelNext,
         CancelDone, CancelFailed
<1>5. QED
  BY <1>1, <1>2, <1>3, <1>4 DEF Next

LEMMA WorkerDies ==
  ASSUME [Next]_vars, sw # "down", sw' = "down"
  PROVE  Crash
<1> USE DEF recoveryVars
<1>1. ~StartWorker /\ ~Recover /\ ~UNCHANGED vars
  BY DEF StartWorker, Recover, vars
<1>2. \A p \in Ports : ~Connect(p) /\ ~Disconnect(p)
  BY DEF Connect, Disconnect
<1>3. \A r \in Requests : ~OrphanedRequest(r) /\ ~Dispatch(r) /\ ~LateRemove(r)
  BY DEF OrphanedRequest, Dispatch, LateRemove
<1>4. \A r \in Requests : ~Coroutine(r)
  BY DEF Coroutine, PersistFailed, Fetch, Respond, Refreshed, ErrorRead, SegmentAnswer, Token,
         TerminalFrame, StreamEnd, FetchFails, ClearMarker, Finish, RequestFrame
<1>5. \A c \in Cancels : ~ReceiveCancel(c) /\ ~OrphanedCancel(c) /\ ~CancelHandler(c)
  BY DEF ReceiveCancel, OrphanedCancel, CancelHandler, CancelRemove, CancelNext, CancelDone,
         CancelFailed
<1>6. QED
  BY <1>1, <1>2, <1>3, <1>4, <1>5 DEF Next

LEMMA QuietInvariant == Spec => []Quiet
<1>1. Init => Quiet
  BY DEF Init, Quiet, IdleCancel
<1>2. ParametersAssumption /\ OwedInv /\ Quiet /\ [Next]_vars => Quiet'
  <2> SUFFICES ASSUME ParametersAssumption, OwedInv, Quiet, [Next]_vars, sw' = "down"
               PROVE  Quiet'
    BY DEF Quiet
  <2>1. CASE sw = "down"
    <3>1. UNCHANGED vars
      BY <2>1, DownIsStill DEF StartWorker
    <3>2. QED
      BY <3>1 DEF Quiet, vars, recoveryVars
  <2>2. CASE sw # "down"
    <3>1. Crash
      BY <2>2, WorkerDies
    <3>2. QED
      BY <3>1 DEF Crash, Quiet, IdleCancel
  <2>3. QED
    BY <2>1, <2>2
<1>3. QED
  BY <1>1, <1>2, ParametersAssumption, OwedInvariant, PTL DEF Spec

(* The tab is going to be told that a request of it was cut short.          *)
Due(t) ==
  \/ t \in orphaned
  \/ t \in snapshot
  \/ sw = "down" /\ marker[t] # NoReq

(* A message of the tab is answered by the recovery error.                  *)
IsTold(t) ==
  \/ \E r \in Requests : Tab(r) = t /\ IsOpen(r) /\ out'[r] = Append(out[r], "orphan")
  \/ \E c \in Cancels :
       Tab(c) = t /\ IsOpen(c) /\ cancel[c].pc = "idle" /\ cancel'[c].pc = "finished"

(* A kill that cuts the only request of a page short makes a signal due to  *)
(* its tab, and what is due stays so until a message of the tab, from       *)
(* whatever page of it, gets the recovery error.  It is forgotten only by   *)
(* another kill when the marker is gone already, or when the storage        *)
(* rejects the recovery.                                                    *)
KillsAreSignalled ==
  [][ /\ sw' = "down" => \A r \in Requests : Sole(r) => Due(Tab(r))'
      /\ \A t \in Tabs : Due(t) /\ ~Due(t)' =>
           \/ IsTold(t)
           \/ sw # "down" /\ sw' = "down" /\ marker[t] = NoReq
           \/ sw = "recovering" /\ sw' = "up" /\ RemoveRejected ]_vars

(* What is due is kept by every step that leaves the recovery alone.        *)
LEMMA DueIsKept ==
  ASSUME ParametersAssumption, TypeOK, OwedInv, Quiet, [Next]_vars, NEW t \in Tabs,
         Due(t), ~Due(t)'
  PROVE  \/ IsTold(t)
         \/ sw # "down" /\ sw' = "down" /\ marker[t] = NoReq
         \/ sw = "recovering" /\ sw' = "up" /\ RemoveRejected
<1> USE DEF recoveryVars
<1>1. ~UNCHANGED <<recoveryVars, marker>>
  BY DEF Due
<1>2. CASE sw = "down"
  <2>1. StartWorker
    BY <1>1, <1>2, DownIsStill DEF vars, storageVars
  <2>2. QED
    BY <1>2, <2>1 DEF StartWorker, Due, Quiet
<1>3. CASE sw # "down" /\ sw' = "down"
  <2>1. Crash
    BY <1>3, WorkerDies
  <2>2. marker'[t] = NoReq /\ marker' = marker
    BY <1>3, <2>1 DEF Crash, storageVars, Due
  <2>3. QED
    BY <1>3, <2>2
<1>4. CASE sw # "down" /\ sw' # "down"
  <2>1. ~UNCHANGED <<orphaned, snapshot>>
    BY <1>4 DEF Due
  <2>2. ~StartWorker /\ ~Crash /\ ~UNCHANGED vars
    BY <1>4, <2>1 DEF StartWorker, Crash, vars
  <2>3. CASE Recover
    BY <2>3 DEF Recover, Due
  <2>4. \A p \in Ports : ~Connect(p) /\ ~Disconnect(p)
    BY <2>1 DEF Connect, Disconnect
  <2>5. ASSUME NEW r \in Requests
        PROVE  ~Dispatch(r) /\ ~LateRemove(r) /\ ~Coroutine(r)
    BY <2>1 DEF Dispatch, LateRemove, Coroutine, PersistFailed, Fetch, Respond, Refreshed, ErrorRead,
                SegmentAnswer, Token, TerminalFrame, StreamEnd, FetchFails, ClearMarker, Finish,
                RequestFrame
  <2>6. ASSUME NEW r \in Requests, OrphanedRequest(r)
        PROVE  IsTold(t)
    <3>1. Tab(r) = t /\ IsOpen(r)
      BY <2>6 DEF OrphanedRequest, CanHandle, Due
    <3>2. out'[r] = Append(out[r], "orphan")
      BY <2>6, <3>1 DEF OrphanedRequest, Post, IsOpen, TypeOK
    <3>3. QED
      BY <3>1, <3>2 DEF IsTold
  <2>7. ASSUME NEW c \in Cancels
        PROVE  ~ReceiveCancel(c) /\ ~CancelHandler(c)
    BY <2>1 DEF ReceiveCancel, CancelHandler, CancelRemove, CancelNext, CancelDone, CancelFailed
  <2>8. ASSUME NEW c \in Cancels, OrphanedCancel(c)
        PROVE  IsTold(t)
    <3>1. Tab(c) = t /\ IsOpen(c) /\ cancel[c].pc = "idle"
      BY <2>8 DEF OrphanedCancel, CanHandle, Due
    <3>2. cancel'[c].pc = "finished"
      BY <2>8 DEF OrphanedCancel, TypeOK, IdleCancel
    <3>3. QED
      BY <3>1, <3>2 DEF IsTold
  <2>9. QED
    BY <2>2, <2>3, <2>4, <2>5, <2>6, <2>7, <2>8 DEF Next
<1>5. QED
  BY <1>2, <1>3, <1>4

(* The page whose only request is cut short by a kill is told of it.        *)
THEOREM KillSignalled == Spec => KillsAreSignalled
<1> DEFINE Forgotten(t) ==
             \/ IsTold(t)
             \/ sw # "down" /\ sw' = "down" /\ marker[t] = NoReq
             \/ sw = "recovering" /\ sw' = "up" /\ RemoveRejected
           Signals ==
             /\ sw' = "down" => \A r \in Requests : Sole(r) => Due(Tab(r))'
             /\ \A t \in Tabs : Due(t) /\ ~Due(t)' => Forgotten(t)
<1>1. ASSUME ParametersAssumption, TypeOK, OwedInv, Quiet, SoleRequestIsMarked, [Next]_vars
      PROVE  Signals
  <2>1. ASSUME sw' = "down", NEW r \in Requests, Sole(r)
        PROVE  Due(Tab(r))'
    <3>1. marker[Tab(r)] = r /\ r # NoReq
      BY <1>1, <2>1 DEF SoleRequestIsMarked, Sole, ParametersAssumption
    <3>2. sw = "up"
      BY <1>1, <2>1 DEF Sole, OwedInv, FlightNeedsWorker, InFlight
    <3>3. Crash
      BY <1>1, <2>1, <3>2, WorkerDies
    <3>4. QED
      BY <2>1, <3>1, <3>3 DEF Crash, storageVars, Due, Tab
  <2>2. QED
    BY <1>1, <2>1, DueIsKept
<1>2. ParametersAssumption /\ TypeOK /\ OwedInv /\ Quiet /\ SoleRequestIsMarked /\ [Next]_vars
      => [Signals]_vars
  BY <1>1
<1> HIDE DEF Signals
<1>3. Spec => [][Signals]_vars
  BY <1>2, ParametersAssumption, TypeCorrect, OwedInvariant, QuietInvariant, SoleMarked, PTL
     DEF Spec
<1>4. QED
  BY <1>3 DEF KillsAreSignalled, Signals
===============================================================================
