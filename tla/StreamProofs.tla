----------------------------- MODULE StreamProofs -----------------------------
(* Bridge implements RequestStream, for every set of tabs, ports, requests  *)
(* and CANCELs.                                                             *)
EXTENDS BridgeProofs

USE DEF Working, Clearing, InFlight

EndOf(s) == IF s = <<>> THEN "none" ELSE s[Len(s)]
Going(r) == EndOf(out[r]) \in {"none", "token"}

(* Nothing is posted under an id before its request is received.            *)
UnsentIsSilent == \A r \in Requests : pc[r] = "idle" => out[r] = <<>>

(* While a request is in the map, terminalSent says whether its last event  *)
(* is an end; if it is one and the coroutine has not got there, it is the   *)
(* done of a CANCEL.                                                        *)
EndsAreFlagged ==
  \A r \in active :
    /\ terminalSent[r] <=> ~Going(r)
    /\ pc[r] \in Working /\ ~Going(r) => aborted[r] /\ EndOf(out[r]) = "done"

(* No recovery error is pending for the tab of a request in flight.         *)
FlowsAreKnown ==
  \A r \in Requests : pc[r] \in InFlight => sw = "up" /\ Tab(r) \notin orphaned

(* The target of a CANCEL is out of the map or has been answered, so that   *)
(* the error of a failed CANCEL never meets a live stream.                  *)
TargetsAreAnswered ==
  \A c \in Cancels : \A r \in active : cancel[c].target = r => terminalSent[r]

StreamInv == UnsentIsSilent /\ EndsAreFlagged /\ FlowsAreKnown /\ TargetsAreAnswered

StreamStep == [Contract!Next]_(Contract!vars)

-------------------------------------------------------------------------------
LEMMA EndOfAppend ==
  ASSUME NEW s \in Seq(Events), NEW e \in Events
  PROVE  EndOf(Append(s, e)) = e
<1>1. Append(s, e) # <<>> /\ Append(s, e)[Len(Append(s, e))] = e
  OBVIOUS
<1> QED
  BY <1>1 DEF EndOf

LEMMA PostEnds ==
  ASSUME TypeOK, NEW p \in Ports, NEW r \in Requests, NEW e \in Events, Post(p, r, e)
  PROVE  /\ \A q \in Requests \ {r} : out'[q] = out[q]
         /\ IF port[p] = "open"
            THEN /\ out' = [out EXCEPT ![r] = Append(@, e)]
                 /\ EndOf(out'[r]) = e
            ELSE out' = out
<1>1. out[r] \in Seq(Events)
  BY DEF TypeOK
<1>2. port[p] = "open" => out'[r] = Append(out[r], e)
  BY PostOutput
<1>3. EndOf(Append(out[r], e)) = e
  BY <1>1, EndOfAppend
<1> QED
  BY <1>2, <1>3, PostOutput DEF Post

(* Steps the contract does not see.                                         *)
LEMMA Unseen ==
  ASSUME TypeOK, TypeOK', UNCHANGED <<out, port, aborted>>,
         \A r \in Requests : pc'[r] = "idle" <=> pc[r] = "idle",
         rejected => rejected'
  PROVE  StreamStep
<1>1. {r \in Requests : pc[r] # "idle"}' = {r \in Requests : pc[r] # "idle"}
  OBVIOUS
<1>2. {p \in Ports : port[p] = "open"}' = {p \in Ports : port[p] = "open"}
  OBVIOUS
<1>3. {r \in Requests : aborted[r]}' = {r \in Requests : aborted[r]}
  OBVIOUS
<1>4. CASE rejected' = rejected
  BY <1>1, <1>2, <1>3, <1>4 DEF StreamStep, Contract!vars
<1>5. CASE rejected' = TRUE
  <2>1. Contract!Degrade
    BY <1>1, <1>2, <1>3, <1>5 DEF Contract!Degrade
  <2> QED
    BY <2>1 DEF StreamStep, Contract!Next
<1> QED
  BY <1>4, <1>5 DEF TypeOK

(* What the parts of the contract's actions come to.                        *)
LEMMA EmitIsPost ==
  ASSUME TypeOK, NEW p \in Ports, NEW r \in Requests, NEW e \in Events,
         port[p] = "open", Post(p, r, e)
  PROVE  Contract!Emit(r, e)
BY DEF Post, Contract!Emit

LEMMA LastIsEndOf ==
  ASSUME NEW r \in Requests
  PROVE  Contract!Last(r) = EndOf(out[r]) /\ (Contract!Unfinished(r) <=> Going(r))
BY DEF Contract!Last, Contract!Unfinished, EndOf, Going

-------------------------------------------------------------------------------
LEMMA StreamInit ==
  ASSUME ParametersAssumption, Init
  PROVE  StreamInv /\ Contract!Init
<1>1. StreamInv
  BY DEF Init, StreamInv, UnsentIsSilent, EndsAreFlagged, FlowsAreKnown, TargetsAreAnswered
<1>2. Contract!Init
  BY DEF Init, Contract!Init
<1> QED
  BY <1>1, <1>2

(* A coroutine posts, or a storage call of it is rejected, never both.      *)
LEMMA CoroutineFaults ==
  ASSUME NEW r \in Requests, Coroutine(r)
  PROVE  UNCHANGED rejected \/ UNCHANGED out
BY DEF Coroutine, storageVars, PersistFailed, Fetch, Respond, Refreshed, ErrorRead,
   SegmentAnswer, Token, TerminalFrame, StreamEnd, FetchFails, ClearMarker, Finish

LEMMA CoroutineStream ==
  ASSUME TypeOK, TypeOK', ParametersAssumption, MapInv, StreamInv,
         NEW r \in Requests, Coroutine(r)
  PROVE  StreamInv' /\ StreamStep
<1>1. CoroutineStep(r) /\ CoroutineOutput(r)
  BY CoroutineEffect, CoroutineSays
<1>2. /\ PortOf[r] \in Ports
      /\ Terminal \subseteq Events /\ "token" \in Events
      /\ Terminal = {"done", "error", "segment"}
      /\ out[r] \in Seq(Events) /\ aborted[r] \in BOOLEAN
      /\ r \in active <=> port[PortOf[r]] = "open"
  BY <1>1, RequestType DEF Terminal, Events, TypeOK, MapInv, MapMirrorsCoroutines, IsOpen,
     CoroutineStep
<1>3. /\ UNCHANGED <<aborted, port, cancel, sw, orphaned>>
      /\ \A q \in Requests \ {r} : pc'[q] = pc[q]
      /\ active' \subseteq active
      /\ pc[r] \in InFlight /\ pc'[r] \in InFlight \cup {"finished"}
      /\ pc'[r] \in Working => pc[r] \in Working
      /\ rejected => rejected'
      /\ active \subseteq Requests
  BY <1>1, RemoveMarkerEffect, RequestType DEF CoroutineStep, storageVars, recoveryVars, TypeOK
<1>4. \A q \in Requests : pc'[q] = "idle" <=> pc[q] = "idle"
  BY <1>3
<1>5. ASSUME \A q \in Requests \ {r} : out'[q] = out[q] /\ terminalSent'[q] = terminalSent[q],
             terminalSent[r] => terminalSent'[r],
             r \in active => (terminalSent'[r] <=> ~Going(r)'),
             r \in active /\ pc'[r] \in Working /\ ~Going(r)' =>
               aborted[r] /\ EndOf(out'[r]) = "done"
      PROVE  StreamInv'
  <2>1. UnsentIsSilent' /\ FlowsAreKnown'
    BY <1>3, <1>5 DEF StreamInv, UnsentIsSilent, FlowsAreKnown, Tab
  <2>2. EndsAreFlagged'
    <3>1. ASSUME NEW q \in active'
          PROVE  /\ terminalSent'[q] <=> ~Going(q)'
                 /\ pc'[q] \in Working /\ ~Going(q)' => aborted'[q] /\ EndOf(out'[q]) = "done"
      <4>1. CASE q = r
        BY <1>3, <1>5, <3>1, <4>1
      <4>2. CASE q # r
        BY <1>3, <1>5, <3>1, <4>2 DEF StreamInv, EndsAreFlagged, Going
      <4> QED
        BY <4>1, <4>2
    <3> QED
      BY <3>1 DEF EndsAreFlagged
  <2>3. TargetsAreAnswered'
    BY <1>3, <1>5 DEF StreamInv, TargetsAreAnswered
  <2> QED
    BY <2>1, <2>2, <2>3 DEF StreamInv
<1>6. r \in active =>
        /\ terminalSent[r] <=> ~Going(r)
        /\ pc[r] \in Working /\ ~Going(r) => aborted[r] /\ EndOf(out[r]) = "done"
  BY DEF StreamInv, EndsAreFlagged
<1>7. ASSUME UNCHANGED out PROVE StreamStep
  BY <1>3, <1>4, <1>7, Unseen
<1>8. CASE Silent(r)
  <2>1. StreamInv'
    BY <1>3, <1>5, <1>6, <1>8 DEF Silent, Going
  <2> QED
    BY <1>7, <1>8, <2>1 DEF Silent
<1>9. ASSUME NEW e \in Events, port[PortOf[r]] = "open", Post(PortOf[r], r, e)
      PROVE  /\ r \in active /\ out' # out
             /\ \A q \in Requests \ {r} : out'[q] = out[q]
             /\ EndOf(out'[r]) = e
             /\ Contract!Emit(r, e)
             /\ r \in {q \in Requests : pc[q] # "idle"}
             /\ PortOf[r] \in {p \in Ports : port[p] = "open"}
             /\ UNCHANGED <<{q \in Requests : pc[q] # "idle"}, {p \in Ports : port[p] = "open"},
                            {q \in Requests : aborted[q]}, rejected>>
  <2>1. out' # out
    <3>1. Len(Append(out[r], e)) # Len(out[r])
      BY <1>2
    <3>2. out'[r] = Append(out[r], e)
      BY <1>2, <1>9, PostOutput
    <3> QED
      BY <3>1, <3>2
  <2>2. rejected' = rejected
    BY <2>1, CoroutineFaults
  <2>3. {q \in Requests : pc[q] # "idle"}' = {q \in Requests : pc[q] # "idle"}
    BY <1>4
  <2>4. Contract!Emit(r, e)
    BY <1>2, <1>9, EmitIsPost
  <2>5. /\ \A q \in Requests \ {r} : out'[q] = out[q]
        /\ EndOf(out'[r]) = e
    BY <1>2, <1>9, PostEnds
  <2> QED
    BY <1>2, <1>3, <1>9, <2>1, <2>2, <2>3, <2>4, <2>5
<1>10. ASSUME NEW e \in {"token"} \cup Terminal, port[PortOf[r]] = "open",
              Post(PortOf[r], r, e), Going(r)
       PROVE  StreamStep
  <2>1. e \in Events /\ e \in {"token"} \cup Contract!End
    BY <1>2, <1>10 DEF Contract!End
  <2>2. Contract!Deliver(r, e)
    BY <1>9, <1>10, <2>1, LastIsEndOf DEF Contract!Deliver
  <2> QED
    BY <2>1, <2>2 DEF StreamStep, Contract!Next
<1>11. CASE /\ pc[r] \in Working /\ ~aborted[r]
            /\ Post(PortOf[r], r, "token")
            /\ UNCHANGED <<pc, terminalSent>>
  <2>1. CASE port[PortOf[r]] = "open"
    <3>1. r \in active /\ Going(r) /\ ~terminalSent[r]
      BY <1>2, <1>6, <1>11, <2>1
    <3>2. /\ \A q \in Requests \ {r} : out'[q] = out[q]
          /\ EndOf(out'[r]) = "token"
      BY <1>2, <1>9, <1>11, <2>1
    <3>3. StreamInv'
      BY <1>5, <1>11, <3>1, <3>2 DEF Going
    <3> QED
      BY <1>10, <1>11, <2>1, <3>1, <3>3
  <2>2. CASE port[PortOf[r]] # "open"
    <3>1. UNCHANGED out
      BY <1>2, <1>11, <2>2, PostEnds
    <3>2. StreamInv'
      BY <1>2, <1>5, <1>11, <2>2, <3>1
    <3> QED
      BY <1>7, <3>1, <3>2
  <2> QED
    BY <2>1, <2>2
<1>12. ASSUME NEW e \in Terminal, Answering(r, e)
       PROVE  StreamInv' /\ StreamStep
  <2>0. /\ pc[r] \in Working /\ pc'[r] \notin Working
        /\ \A q \in Requests \ {r} : terminalSent'[q] = terminalSent[q]
        /\ terminalSent'[r] <=> (terminalSent[r] \/ r \in active)
        /\ Post(PortOf[r], r, e)
        /\ aborted[r] => e = "error" \/ ~HasTerminalBeenSent(r)
    BY <1>12 DEF Answering, SetTerminal, TypeOK
  <2>1. CASE port[PortOf[r]] = "open"
    <3>1. /\ r \in active /\ e \in Events /\ e \notin {"none", "token"}
          /\ \A q \in Requests \ {r} : out'[q] = out[q]
          /\ EndOf(out'[r]) = e
      BY <1>2, <1>9, <2>0, <2>1
    <3>2. StreamInv'
      BY <1>5, <2>0, <3>1 DEF Going
    <3>3. CASE Going(r)
      BY <1>10, <2>0, <2>1, <3>2, <3>3
    <3>4. CASE ~Going(r)
      <4>1. terminalSent[r] /\ aborted[r] /\ EndOf(out[r]) = "done" /\ e = "error"
        BY <1>6, <2>0, <3>1, <3>4 DEF HasTerminalBeenSent
      <4>2. Contract!LateError(r)
        BY <1>9, <2>0, <2>1, <3>1, <4>1, LastIsEndOf DEF Contract!LateError
      <4> QED
        BY <3>2, <4>2 DEF StreamStep, Contract!Next
    <3> QED
      BY <3>3, <3>4
  <2>2. CASE port[PortOf[r]] # "open"
    <3>1. UNCHANGED out
      BY <1>2, <2>0, <2>2, PostEnds
    <3>2. StreamInv'
      BY <1>2, <1>5, <2>0, <2>2, <3>1
    <3> QED
      BY <1>7, <3>1, <3>2
  <2> QED
    BY <2>1, <2>2
<1> QED
  BY <1>1, <1>8, <1>11, <1>12 DEF CoroutineOutput

(* One turn of a CANCEL's loop ends its target's stream, or leaves the loop. *)
LEMMA CancelLoopStream ==
  ASSUME TypeOK, TypeOK', ParametersAssumption, MapInv, StreamInv, NEW c \in Cancels,
         NEW target \in Requests \cup {NoReq}, NEW todo \in SUBSET Requests,
         \A q \in todo \cap active : PortOf[q] = PortOf[c],
         target \in active => terminalSent[target] \/ todo = {target},
         CancelLoop(c, target, todo), UNCHANGED recoveryVars, CancelFrame
  PROVE  StreamInv' /\ StreamStep
<1> USE DEF CancelFrame, recoveryVars, historyVars, storageVars
<1>0. /\ PortOf[c] \in Ports /\ "done" \in Events /\ NoReq \notin Requests
      /\ active \subseteq Requests
  BY DEF ParametersAssumption, Events, TypeOK
<1>1. ASSUME NEW r \in todo \cap active,
             IF terminalSent[r] THEN UNCHANGED out ELSE Post(PortOf[c], r, "done"),
             terminalSent' = [terminalSent EXCEPT ![r] = TRUE],
             aborted' = [aborted EXCEPT ![r] = TRUE],
             cancel' = [cancel EXCEPT ![c] =
                         [pc |-> "clearing", target |-> target,
                          todo |-> todo \ {r}, cur |-> r,
                          saw |-> marker[Tab(r)] = r]],
             UNCHANGED storageVars
      PROVE  StreamInv' /\ StreamStep
  <2>0. /\ r \in Requests /\ r \in active /\ PortOf[r] = PortOf[c]
        /\ port[PortOf[r]] = "open"
        /\ pc[r] \in InFlight
        /\ UNCHANGED <<port, active, pc, rejected, sw, orphaned>>
    BY <1>1 DEF MapInv, MapMirrorsCoroutines, IsOpen
  <2>1. /\ terminalSent'[r] /\ aborted'[r]
        /\ \A q \in Requests \ {r} : /\ terminalSent'[q] = terminalSent[q]
                                     /\ aborted'[q] = aborted[q]
                                     /\ out'[q] = out[q]
        /\ terminalSent[r] => out' = out
        /\ ~terminalSent[r] => EndOf(out'[r]) = "done" /\ Contract!Emit(r, "done")
    BY <1>0, <1>1, <2>0, PostEnds, EmitIsPost DEF TypeOK
  <2>2. /\ terminalSent[r] <=> ~Going(r)
        /\ pc[r] \in Working /\ ~Going(r) => EndOf(out[r]) = "done"
    BY <2>0 DEF StreamInv, EndsAreFlagged
  <2>3. UnsentIsSilent' /\ FlowsAreKnown'
    BY <2>0, <2>1 DEF StreamInv, UnsentIsSilent, FlowsAreKnown, Tab
  <2>4. EndsAreFlagged'
    <3>1. ASSUME NEW q \in active'
          PROVE  /\ terminalSent'[q] <=> ~Going(q)'
                 /\ pc'[q] \in Working /\ ~Going(q)' => aborted'[q] /\ EndOf(out'[q]) = "done"
      <4>1. CASE q = r
        BY <2>0, <2>1, <2>2, <4>1 DEF Going
      <4>2. CASE q # r
        BY <1>0, <2>0, <2>1, <3>1, <4>2 DEF StreamInv, EndsAreFlagged, Going
      <4> QED
        BY <4>1, <4>2
    <3> QED
      BY <3>1 DEF EndsAreFlagged
  <2>5. TargetsAreAnswered'
    <3>1. \A q \in active : terminalSent[q] => terminalSent'[q]
      BY <1>0, <2>1
    <3>2. cancel'[c].target = target /\ \A d \in Cancels \ {c} : cancel'[d] = cancel[d]
      BY <1>1 DEF TypeOK
    <3>3. target \in active => terminalSent'[target]
      BY <1>1, <2>1, <3>1
    <3> QED
      BY <2>0, <3>1, <3>2, <3>3 DEF StreamInv, TargetsAreAnswered
  <2>6. Contract!Cancel(r)
    <3>1. {q \in Requests : pc[q] # "idle"}' = {q \in Requests : pc[q] # "idle"}
      BY <2>0
    <3>2. {p \in Ports : port[p] = "open"}' = {p \in Ports : port[p] = "open"}
      BY <2>0
    <3>3. {q \in Requests : aborted[q]}' = {q \in Requests : aborted[q]} \cup {r}
      BY <2>0, <2>1
    <3>4. r \in {q \in Requests : pc[q] # "idle"} /\ PortOf[r] \in {p \in Ports : port[p] = "open"}
      BY <1>0, <2>0
    <3>5. IF Contract!Unfinished(r) THEN Contract!Emit(r, "done") ELSE UNCHANGED out
      BY <2>0, <2>1, <2>2, LastIsEndOf
    <3> QED
      BY <2>0, <3>1, <3>2, <3>3, <3>4, <3>5 DEF Contract!Cancel
  <2>7. StreamStep
    BY <2>0, <2>6 DEF StreamStep, Contract!Next
  <2> QED
    BY <2>3, <2>4, <2>5, <2>7 DEF StreamInv
<1>2. ASSUME todo \cap active = {},
             UNCHANGED <<out, terminalSent, aborted>>,
             rejected => rejected',
             cancel'[c].target \in {NoReq, target},
             \A d \in Cancels \ {c} : cancel'[d] = cancel[d]
      PROVE  StreamInv' /\ StreamStep
  <2>1. UnsentIsSilent' /\ FlowsAreKnown' /\ EndsAreFlagged'
    BY <1>2 DEF StreamInv, UnsentIsSilent, FlowsAreKnown, EndsAreFlagged, Going, Tab
  <2>2. TargetsAreAnswered'
    BY <1>0, <1>2 DEF StreamInv, TargetsAreAnswered
  <2>3. StreamStep
    BY <1>2, Unseen
  <2> QED
    BY <2>1, <2>2, <2>3 DEF StreamInv
<1>3. CASE /\ todo \cap active = {}
           /\ marker' = [marker EXCEPT ![Tab(c)] = NoReq]
           /\ UNCHANGED rejected
           /\ cancel' = [cancel EXCEPT ![c] = [IdleCancel EXCEPT !.pc = "clearingTab"]]
           /\ UNCHANGED <<out, terminalSent, aborted>>
  BY <1>2, <1>3 DEF TypeOK, IdleCancel
<1>4. CASE /\ todo \cap active = {}
           /\ RemoveRejected
           /\ cancel' = [cancel EXCEPT ![c] =
                           [IdleCancel EXCEPT !.pc = "tabClearFailed", !.target = target]]
           /\ UNCHANGED <<out, terminalSent, aborted>>
  BY <1>2, <1>4 DEF TypeOK, IdleCancel, RemoveRejected
<1> QED
  BY <1>1, <1>3, <1>4 DEF CancelLoop

-------------------------------------------------------------------------------
LEMMA StreamNext ==
  ASSUME TypeOK, TypeOK', ParametersAssumption, MapInv, AnswerInv, StreamInv, [Next]_vars
  PROVE  StreamInv' /\ StreamStep
<1> USE DEF recoveryVars, requestVars, storageVars, historyVars
<1>0. /\ NoReq \notin Requests /\ active \subseteq Requests
      /\ \A r \in Requests : PortOf[r] \in Ports
      /\ \A c \in Cancels : PortOf[c] \in Ports
      /\ "orphan" \in Events /\ "error" \in Events
  BY DEF ParametersAssumption, TypeOK, Events
<1>1. ASSUME UNCHANGED <<out, terminalSent, pc>>,
             \A c \in Cancels : cancel'[c].target \in {cancel[c].target, NoReq},
             active' \subseteq active,
             \A r \in active' : aborted'[r] = aborted[r],
             UNCHANGED <<sw, orphaned>> \/ \A r \in Requests : pc[r] \notin InFlight
      PROVE  StreamInv'
  <2>1. UnsentIsSilent' /\ FlowsAreKnown'
    BY <1>1 DEF StreamInv, UnsentIsSilent, FlowsAreKnown, Tab
  <2>2. EndsAreFlagged'
    BY <1>0, <1>1 DEF StreamInv, EndsAreFlagged, Going
  <2>3. TargetsAreAnswered'
    BY <1>0, <1>1 DEF StreamInv, TargetsAreAnswered
  <2> QED
    BY <2>1, <2>2, <2>3 DEF StreamInv
<1>2. CASE StartWorker \/ Recover
  <2>1. /\ UNCHANGED <<out, port, aborted, terminalSent, pc, cancel, active>>
        /\ rejected => rejected'
        /\ sw # "up"
    BY <1>2 DEF StartWorker, Recover, RemoveRejected
  <2>2. \A r \in Requests : pc[r] \notin InFlight
    BY <2>1 DEF StreamInv, FlowsAreKnown
  <2>3. StreamInv'
    BY <1>1, <2>1, <2>2
  <2> QED
    BY <2>1, <2>3, Unseen
<1>3. CASE Crash
  <2>1. /\ UNCHANGED <<out, terminalSent, aborted, rejected>>
        /\ active' = {}
        /\ \A r \in Requests : pc'[r] \notin InFlight /\ (pc'[r] = "idle" <=> pc[r] = "idle")
    BY <1>3 DEF Crash, TypeOK
  <2>2. StreamInv'
    BY <2>1 DEF StreamInv, UnsentIsSilent, FlowsAreKnown, EndsAreFlagged, TargetsAreAnswered
  <2>3. Contract!Shut(Ports, {})
    <3>1. {p \in Ports : port[p] = "open"}' = {p \in Ports : port[p] = "open"} \ Ports
      BY <1>3 DEF Crash, TypeOK
    <3>2. {r \in Requests : pc[r] # "idle"}' = {r \in Requests : pc[r] # "idle"}
      BY <2>1
    <3>3. {r \in Requests : aborted[r]}' = {r \in Requests : aborted[r]} \cup {}
      BY <2>1
    <3> QED
      BY <2>1, <3>1, <3>2, <3>3 DEF Contract!Shut
  <2>4. StreamStep
    BY <2>1, <2>3 DEF StreamStep, Contract!Next
  <2> QED
    BY <2>2, <2>4
<1>4. ASSUME NEW p \in Ports, Connect(p)
      PROVE  StreamInv' /\ StreamStep
  <2>1. UNCHANGED <<out, terminalSent, aborted, rejected, pc, cancel, active, sw, orphaned>>
    BY <1>4 DEF Connect
  <2>2. StreamInv'
    BY <1>1, <2>1
  <2>3. {q \in Ports : port[q] = "open"}' = {q \in Ports : port[q] = "open"} \cup {p}
    BY <1>4 DEF Connect, TypeOK
  <2>4. Contract!OpenPort(p)
    BY <2>1, <2>3 DEF Contract!OpenPort
  <2> QED
    BY <2>2, <2>4 DEF StreamStep, Contract!Next
<1>5. ASSUME NEW p \in Ports, Disconnect(p)
      PROVE  StreamInv' /\ StreamStep
  <2> DEFINE hit == {r \in active : Tab(r) = TabOf[p]}
  <2>1. /\ UNCHANGED <<out, terminalSent, pc, cancel, sw, orphaned>>
        /\ active' = active \ hit
        /\ aborted' = [r \in Requests |-> aborted[r] \/ r \in hit]
        /\ rejected' \in {rejected, TRUE}
    BY <1>5 DEF Disconnect, RemoveMarker, RemoveRejected
  <2>2. \A r \in Requests : aborted'[r] <=> (aborted[r] \/ r \in hit)
    BY <2>1
  <2>3. \A r \in active' : aborted'[r] = aborted[r]
    <3>1. \A r \in Requests : aborted[r] \in BOOLEAN /\ aborted'[r] \in BOOLEAN
      BY DEF TypeOK
    <3> QED
      BY <1>0, <2>1, <2>2, <3>1
  <2>4. StreamInv'
    BY <1>1, <2>1, <2>3
  <2>5. \A r \in hit : r \in Requests /\ pc[r] # "idle" /\ PortOf[r] = p
    BY <1>0, <1>5 DEF Disconnect, MapInv, MapMirrorsCoroutines, OneOpenPort, IsOpen, Tab
  <2>6. Contract!Shut({p}, hit)
    <3>1. {q \in Ports : port[q] = "open"}' = {q \in Ports : port[q] = "open"} \ {p}
      BY <1>5 DEF Disconnect, TypeOK
    <3>2. {r \in Requests : aborted[r]}' = {r \in Requests : aborted[r]} \cup hit
      BY <2>2, <2>5
    <3> QED
      BY <2>1, <3>1, <3>2 DEF Contract!Shut
  <2>7. hit \in SUBSET {r \in {q \in Requests : pc[q] # "idle"} : PortOf[r] \in {p}}
    BY <2>5
  <2>8. {p} \in SUBSET Ports
    OBVIOUS
  <2>9. StreamStep
    <3>1. \E given \in SUBSET {r \in {q \in Requests : pc[q] # "idle"} : PortOf[r] \in {p}} :
            Contract!Shut({p}, given) /\ rejected' \in {rejected, TRUE}
      <4> HIDE DEF hit
      <4> QED
        BY <2>1, <2>6, <2>7 DEF Contract!Shut
    <3> QED
      BY <2>8, <3>1 DEF StreamStep, Contract!Next
  <2> QED
    BY <2>4, <2>9
<1>6. ASSUME NEW r \in Requests, OrphanedRequest(r)
      PROVE  StreamInv' /\ StreamStep
  <2>1. /\ UNCHANGED <<terminalSent, aborted, active, port, cancel, rejected, sw>>
        /\ pc[r] = "idle" /\ pc'[r] = "finished"
        /\ \A q \in Requests \ {r} : pc'[q] = pc[q]
        /\ orphaned' \subseteq orphaned
        /\ port[PortOf[r]] = "open"
        /\ Post(PortOf[r], r, "orphan")
    BY <1>6 DEF OrphanedRequest, CanHandle, IsOpen, TypeOK
  <2>2. /\ r \notin active
        /\ \A q \in Requests \ {r} : out'[q] = out[q]
        /\ Contract!Emit(r, "orphan")
    BY <1>0, <2>1, PostEnds, EmitIsPost DEF MapInv, MapMirrorsCoroutines
  <2>3. UnsentIsSilent' /\ FlowsAreKnown'
    BY <2>1, <2>2 DEF StreamInv, UnsentIsSilent, FlowsAreKnown, Tab
  <2>4. EndsAreFlagged' /\ TargetsAreAnswered'
    BY <1>0, <2>1, <2>2 DEF StreamInv, EndsAreFlagged, Going, TargetsAreAnswered
  <2>5. Contract!Refuse(r)
    <3>1. {q \in Requests : pc[q] # "idle"}' = {q \in Requests : pc[q] # "idle"} \cup {r}
      BY <2>1
    <3>2. r \notin {q \in Requests : pc[q] # "idle"}
          /\ PortOf[r] \in {q \in Ports : port[q] = "open"}
      BY <1>0, <2>1
    <3> QED
      BY <2>1, <2>2, <3>1, <3>2 DEF Contract!Refuse
  <2> QED
    BY <2>3, <2>4, <2>5 DEF StreamInv, StreamStep, Contract!Next
<1>7. ASSUME NEW r \in Requests, Dispatch(r)
      PROVE  StreamInv' /\ StreamStep
  <2>1. /\ UNCHANGED <<out, terminalSent, aborted, port, cancel, rejected, sw, orphaned>>
        /\ active' = active \cup {r}
        /\ sw = "up" /\ Tab(r) \notin orphaned
        /\ pc[r] = "idle"
        /\ pc'[r] \in Working /\ \A q \in Requests \ {r} : pc'[q] = pc[q]
        /\ port[PortOf[r]] = "open"
    BY <1>7 DEF Dispatch, Goto, CanHandle, IsOpen, TypeOK
  <2>2. ~terminalSent[r] /\ out[r] = <<>> /\ Going(r)
    BY <2>1 DEF AnswerInv, FlagsMatchOutput, StreamInv, UnsentIsSilent, Going, EndOf
  <2>3. UnsentIsSilent' /\ FlowsAreKnown'
    BY <2>1 DEF StreamInv, UnsentIsSilent, FlowsAreKnown, Tab
  <2>4. EndsAreFlagged'
    BY <1>0, <2>1, <2>2 DEF StreamInv, EndsAreFlagged, Going
  <2>5. TargetsAreAnswered'
    BY <1>0, <2>1 DEF StreamInv, TargetsAreAnswered, AnswerInv, TargetsOwnTab
  <2>6. Contract!Send(r)
    <3>1. {q \in Requests : pc[q] # "idle"}' = {q \in Requests : pc[q] # "idle"} \cup {r}
      BY <2>1
    <3>2. r \notin {q \in Requests : pc[q] # "idle"}
          /\ PortOf[r] \in {q \in Ports : port[q] = "open"}
      BY <1>0, <2>1
    <3> QED
      BY <2>1, <3>1, <3>2 DEF Contract!Send
  <2> QED
    BY <2>3, <2>4, <2>5, <2>6 DEF StreamInv, StreamStep, Contract!Next
<1>8. ASSUME NEW r \in Requests, Coroutine(r)
      PROVE  StreamInv' /\ StreamStep
  BY <1>8, CoroutineStream
<1>9. ASSUME NEW r \in Requests, LateRemove(r)
      PROVE  StreamInv' /\ StreamStep
  <2>1. /\ UNCHANGED <<out, terminalSent, aborted, pc, cancel, active, port, sw, orphaned>>
        /\ rejected => rejected'
    BY <1>9 DEF LateRemove, RemoveMarker, RemoveRejected
  <2> QED
    BY <1>1, <2>1, Unseen
<1>10. ASSUME NEW c \in Cancels, ReceiveCancel(c)
       PROVE  StreamInv' /\ StreamStep
  <2>1. \A q \in active : Tab(q) = Tab(c) => PortOf[q] = PortOf[c]
    BY <1>0, <1>10 DEF ReceiveCancel, CanHandle, IsOpen, MapInv, MapMirrorsCoroutines,
       OneOpenPort, Tab
  <2>2. ASSUME NEW r \in Requests, Tab(r) = Tab(c), CancelLoop(c, r, {r})
        PROVE  StreamInv' /\ StreamStep
    BY <1>10, <2>1, <2>2, CancelLoopStream DEF ReceiveCancel
  <2>3. CASE CancelLoop(c, NoReq, {r \in active : Tab(r) = Tab(c)})
    BY <1>0, <1>10, <2>1, <2>3, CancelLoopStream DEF ReceiveCancel
  <2> QED
    BY <1>10, <2>2, <2>3 DEF ReceiveCancel
<1>11. ASSUME NEW c \in Cancels, OrphanedCancel(c)
       PROVE  StreamInv' /\ StreamStep
  <2>1. /\ UNCHANGED <<terminalSent, aborted, active, port, pc, rejected, sw>>
        /\ cancel'[c].target = NoReq
        /\ \A d \in Cancels \ {c} : cancel'[d] = cancel[d]
        /\ orphaned' \subseteq orphaned /\ Tab(c) \in orphaned
        /\ port[PortOf[c]] = "open"
    BY <1>11 DEF OrphanedCancel, CancelFrame, CanHandle, IsOpen, IdleCancel, TypeOK
  <2>2. TargetsAreAnswered' /\ FlowsAreKnown'
    BY <1>0, <2>1 DEF StreamInv, TargetsAreAnswered, FlowsAreKnown, Tab
  <2>3. CASE UNCHANGED out
    <3>1. UnsentIsSilent' /\ EndsAreFlagged'
      BY <2>1, <2>3 DEF StreamInv, UnsentIsSilent, EndsAreFlagged, Going
    <3> QED
      BY <2>1, <2>2, <2>3, <3>1, Unseen DEF StreamInv
  <2>4. ASSUME NEW r \in Requests, pc[r] # "idle", Tab(r) = Tab(c), Post(PortOf[c], r, "orphan")
        PROVE  StreamInv' /\ StreamStep
    <3>1. r \notin active
      BY <2>1, <2>4 DEF StreamInv, FlowsAreKnown, MapInv, MapMirrorsCoroutines
    <3>2. /\ \A q \in Requests \ {r} : out'[q] = out[q]
          /\ Contract!Emit(r, "orphan")
      BY <1>0, <2>1, <2>4, PostEnds, EmitIsPost
    <3>3. UnsentIsSilent' /\ EndsAreFlagged'
      BY <1>0, <2>1, <2>4, <3>1, <3>2 DEF StreamInv, UnsentIsSilent, EndsAreFlagged, Going
    <3>4. Contract!Interrupted(r)
      <4>1. PortOf[c] \in {p \in Ports : port[p] = "open"} /\ TabOf[PortOf[c]] = TabOf[PortOf[r]]
        BY <1>0, <2>1, <2>4 DEF Tab
      <4> QED
        BY <2>1, <2>4, <3>2, <4>1 DEF Contract!Interrupted, Contract!HasOpenPort
    <3> QED
      BY <2>2, <3>3, <3>4 DEF StreamInv, StreamStep, Contract!Next
  <2> QED
    BY <1>11, <2>3, <2>4 DEF OrphanedCancel
<1>12. ASSUME NEW c \in Cancels, CancelRemove(c) \/ CancelDone(c)
       PROVE  StreamInv' /\ StreamStep
  <2>1. /\ UNCHANGED <<out, terminalSent, aborted, active, port, pc, sw, orphaned>>
        /\ rejected => rejected'
        /\ \A d \in Cancels \ {c} : cancel'[d] = cancel[d]
    BY <1>12 DEF CancelRemove, CancelDone, CancelFrame, RemoveMarker, RemoveRejected, TypeOK
  <2>2. CASE CancelRemove(c)
    <3>1. cancel'[c] = [cancel[c] EXCEPT !.pc = "removing", !.saw = FALSE]
      BY <2>2 DEF CancelRemove, TypeOK
    <3>2. cancel'[c].target = cancel[c].target
      BY <3>1 DEF TypeOK
    <3> QED
      BY <1>1, <2>1, <3>2, Unseen
  <2>3. CASE CancelDone(c)
    <3>1. cancel'[c].target = NoReq
      BY <2>3 DEF CancelDone, IdleCancel, TypeOK
    <3> QED
      BY <1>1, <2>1, <3>1, Unseen
  <2> QED
    BY <1>12, <2>2, <2>3
<1>13. ASSUME NEW c \in Cancels, CancelNext(c)
       PROVE  StreamInv' /\ StreamStep
  <2>1. /\ cancel[c].target \in Requests \cup {NoReq}
        /\ cancel[c].todo \in SUBSET Requests
        /\ \A q \in cancel[c].todo : PortOf[q] = PortOf[c]
        /\ cancel[c].target \in active => terminalSent[cancel[c].target]
    BY DEF TypeOK, AnswerInv, TargetsOwnPort, StreamInv, TargetsAreAnswered
  <2> QED
    BY <1>13, <2>1, CancelLoopStream DEF CancelNext
<1>14. ASSUME NEW c \in Cancels, CancelFailed(c)
       PROVE  StreamInv' /\ StreamStep
  <2>1. /\ UNCHANGED <<aborted, active, port, pc, rejected, sw, orphaned>>
        /\ rejected
        /\ cancel'[c].target = NoReq
        /\ \A d \in Cancels \ {c} : cancel'[d] = cancel[d]
        /\ cancel[c].target \in Requests \cup {NoReq}
    BY <1>14 DEF CancelFailed, CancelFrame, IdleCancel, TypeOK, AnswerInv, FailuresAreRejections
  <2>2. CASE UNCHANGED <<terminalSent, out>>
    BY <1>0, <1>1, <2>1, <2>2, Unseen
  <2>3. ASSUME NEW r \in Requests, cancel[c].target = r, IsOpen(c), ~HasTerminalBeenSent(r),
               SetTerminal(r), Post(PortOf[c], r, "error")
        PROVE  StreamInv' /\ StreamStep
    <3>1. r \notin active /\ pc[r] # "idle" /\ Tab(r) = Tab(c)
      BY <2>3 DEF StreamInv, TargetsAreAnswered, HasTerminalBeenSent, AnswerInv, TargetsOwnTab
    <3>2. /\ \A q \in Requests \ {r} : out'[q] = out[q] /\ terminalSent'[q] = terminalSent[q]
          /\ Contract!Emit(r, "error")
      BY <1>0, <2>3, PostEnds, EmitIsPost DEF IsOpen, SetTerminal, TypeOK
    <3>3. UnsentIsSilent' /\ EndsAreFlagged' /\ FlowsAreKnown' /\ TargetsAreAnswered'
      BY <1>0, <2>1, <3>1, <3>2 DEF StreamInv, UnsentIsSilent, EndsAreFlagged, FlowsAreKnown,
         TargetsAreAnswered, Going, Tab
    <3>4. Contract!StrayError(r)
      <4>1. PortOf[c] \in {p \in Ports : port[p] = "open"} /\ TabOf[PortOf[c]] = TabOf[PortOf[r]]
        BY <1>0, <2>3, <3>1 DEF Tab, IsOpen
      <4> QED
        BY <2>1, <3>1, <3>2, <4>1 DEF Contract!StrayError, Contract!HasOpenPort
    <3> QED
      BY <3>3, <3>4 DEF StreamInv, StreamStep, Contract!Next
  <2> QED
    BY <1>0, <1>14, <2>1, <2>2, <2>3 DEF CancelFailed
<1>15. CASE UNCHANGED vars
  BY <1>1, <1>15, Unseen DEF vars
<1> QED
  BY <1>2, <1>3, <1>4, <1>5, <1>6, <1>7, <1>8, <1>9, <1>10, <1>11, <1>12, <1>13,
     <1>14, <1>15 DEF Next, CancelHandler

LEMMA StreamInvariant == Spec => []StreamInv
<1>1. Init => StreamInv
  BY StreamInit, ParametersAssumption
<1>2. TypeOK /\ TypeOK' /\ MapInv /\ AnswerInv /\ StreamInv /\ [Next]_vars => StreamInv'
  BY StreamNext, ParametersAssumption
<1> QED
  BY <1>1, <1>2, TypeCorrect, MapInvariant, AnswerInvariant, PTL DEF Spec

(* The bridge keeps the contract of RequestStream: under every id a client  *)
(* sees tokens and one end, nothing on a closed port, a done as soon as a   *)
(* CANCEL reaches a live request, and only the stray events it names.       *)
THEOREM BridgeKeepsContract == Spec => StreamContract
<1>1. Init => Contract!Init
  BY StreamInit, ParametersAssumption
<1>2. TypeOK /\ TypeOK' /\ MapInv /\ AnswerInv /\ StreamInv /\ [Next]_vars
        => [Contract!Next]_(Contract!vars)
  BY StreamNext, ParametersAssumption DEF StreamStep
<1> QED
  BY <1>1, <1>2, TypeCorrect, MapInvariant, AnswerInvariant, StreamInvariant, PTL
     DEF Spec, StreamContract, Contract!Spec
===============================================================================
