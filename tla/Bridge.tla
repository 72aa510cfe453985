-------------------------------- MODULE Bridge --------------------------------
(***************************************************************************)
(* The background service worker's bridge (extension/src/background/       *)
(* index.ts): content scripts open one port per tab and send SEGMENT,      *)
(* ENHANCE and BIND requests and CANCELs over it; the worker runs one      *)
(* asynchronous coroutine per request, keeps the live ones in              *)
(* activeRequestsById, persists one marker per tab in                      *)
(* chrome.storage.session, and may be killed by the browser at any await.  *)
(*                                                                         *)
(* The worker is single-threaded: an action is the code that runs between  *)
(* two awaits.  chrome.storage requests of one worker take effect in the   *)
(* order they are issued, so a storage operation takes effect in the step  *)
(* that issues it and its answer is observed in a later step.              *)
(***************************************************************************)
EXTENDS Naturals, Sequences, FiniteSets

CONSTANTS
  Tabs,           \* browser tabs
  Ports,          \* successive bridge ports ("insta_prompt_bridge")
  Requests,       \* request ids of data messages, each sent once
  Cancels,        \* CANCEL messages
  Segments,       \* the requests whose verb is SEGMENT; the others stream
  TabOf,          \* TabOf[p]: port.sender.tab.id
  PortOf,         \* PortOf[m]: the port a request or a CANCEL is sent on
  NoReq,          \* absence of a request id
  StorageFaults,  \* which chrome.storage.session calls may be rejected
  MaxTokens,      \* bound on the token and warning frames of one response
  MaxCrashes      \* bound on the number of worker kills

ASSUME ParametersAssumption ==
  /\ Segments \subseteq Requests
  /\ TabOf \in [Ports -> Tabs]
  /\ PortOf \in [Requests \cup Cancels -> Ports]
  /\ NoReq \notin Requests
  /\ StorageFaults \subseteq {"persist", "clear"}
  /\ MaxTokens \in Nat
  /\ MaxCrashes \in Nat

VARIABLES
  sw,            \* "down", "recovering" (sessionRecoveryPromise pending) or "up"
  snapshot,      \* tabs whose marker the recovery read
  orphaned,      \* orphanedTabIds
  marker,        \* marker[t]: requestId of promptcompiler.tabState.<t>
  port,          \* "new", "open" or "closed", as the worker sees it
  active,        \* the keys of activeRequestsById
  pc,            \* where each request's coroutine is suspended
  terminalSent,  \* ActiveRequest.terminalSent
  aborted,       \* ActiveRequest.controller.signal.aborted
  saw,           \* clearTabStateIfCurrent read a marker of this request
  tokens,        \* frames already forwarded
  cancel,        \* the CANCEL handlers
  lateRemoves,   \* requests for which a disconnect still has a remove to issue
  out,           \* events posted to the client, per request id
  crashes,       \* number of kills so far
  killed,        \* history: requests in flight when the worker last died
  rejected       \* history: a remove of a marker has been rejected

recoveryVars == <<sw, snapshot, orphaned>>
requestVars  == <<pc, terminalSent, aborted, saw, tokens>>
storageVars  == <<marker, rejected>>
historyVars  == <<crashes, killed>>
vars == <<recoveryVars, storageVars, port, active, requestVars, cancel,
          lateRemoves, out, historyVars>>

(* Working: from the dispatch to the end of the try block.                  *)
Working  == {"persisting", "persistFailed", "fetching", "refreshing",
             "retrying", "readingError", "reading"}
(* Clearing: in the finally block.                                          *)
Clearing == {"clearing", "removing"}
InFlight == Working \cup Clearing

Events    == {"token", "done", "error", "segment", "orphan"}
Terminal  == {"done", "error", "segment"}

Tab(m) == TabOf[PortOf[m]]
IsOpen(m) == port[PortOf[m]] = "open"

IdleCancel == [pc |-> "idle", target |-> NoReq, todo |-> {},
               cur |-> NoReq, saw |-> FALSE]

CancelPc == {"idle", "clearing", "removing", "clearingTab", "tabClearFailed",
             "finished", "killed"}

TypeOK ==
  /\ sw \in {"down", "recovering", "up"}
  /\ snapshot \subseteq Tabs
  /\ orphaned \subseteq Tabs
  /\ marker \in [Tabs -> Requests \cup {NoReq}]
  /\ port \in [Ports -> {"new", "open", "closed"}]
  /\ active \subseteq Requests
  /\ pc \in [Requests -> InFlight \cup {"idle", "finished", "killed"}]
  /\ terminalSent \in [Requests -> BOOLEAN]
  /\ aborted \in [Requests -> BOOLEAN]
  /\ saw \in [Requests -> BOOLEAN]
  /\ tokens \in [Requests -> 0..MaxTokens]
  /\ cancel \in [Cancels -> [pc : CancelPc,
                             target : Requests \cup {NoReq},
                             todo : SUBSET Requests,
                             cur : Requests \cup {NoReq},
                             saw : BOOLEAN]]
  /\ lateRemoves \subseteq Requests
  /\ out \in [Requests -> Seq(Events)]
  /\ crashes \in 0..MaxCrashes
  /\ killed \subseteq Requests
  /\ rejected \in BOOLEAN

(* The first page of a browser session: no marker, no worker, no port.      *)
Init ==
  /\ sw = "down"
  /\ snapshot = {}
  /\ orphaned = {}
  /\ marker = [t \in Tabs |-> NoReq]
  /\ port = [p \in Ports |-> "new"]
  /\ active = {}
  /\ pc = [r \in Requests |-> "idle"]
  /\ terminalSent = [r \in Requests |-> FALSE]
  /\ aborted = [r \in Requests |-> FALSE]
  /\ saw = [r \in Requests |-> FALSE]
  /\ tokens = [r \in Requests |-> 0]
  /\ cancel = [c \in Cancels |-> IdleCancel]
  /\ lateRemoves = {}
  /\ out = [r \in Requests |-> <<>>]
  /\ crashes = 0
  /\ killed = {}
  /\ rejected = FALSE

-------------------------------------------------------------------------------
(* Helpers of the handlers.                                                 *)

(* Mutant: a closed port is posted to.                                      *)
PostAnyway(p, r, e) == out' = [out EXCEPT ![r] = Append(@, e)]

(* safePostMessage: dropped once the port is closed.                        *)
Post(p, r, e) ==
  out' = IF port[p] = "open" THEN [out EXCEPT ![r] = Append(@, e)] ELSE out

(* hasTerminalBeenSent: false as soon as the map entry is gone.             *)
HasTerminalBeenSent(r) == r \in active /\ terminalSent[r]

(* setTerminalState(r, true): nothing to set once the map entry is gone.    *)
SetTerminal(r) ==
  terminalSent' = [terminalSent EXCEPT ![r] = @ \/ r \in active]

(* A chrome.storage.session.remove may be rejected.                         *)
RemoveRejected ==
  /\ "clear" \in StorageFaults
  /\ rejected' = TRUE
  /\ UNCHANGED marker

(* clearTabState and a matched clearTabStateIfCurrent: the remove is        *)
(* unconditional when it takes effect.                                      *)
RemoveMarker(t) ==
  \/ marker' = [marker EXCEPT ![t] = NoReq] /\ UNCHANGED rejected
  \/ RemoveRejected

(* Mutant: the finally block forgets the tab state.                         *)
EnterFinallyKeepingMarker(r) ==
  /\ pc' = [pc EXCEPT ![r] = "clearing"]
  /\ saw' = [saw EXCEPT ![r] = FALSE]

(* Entering the finally block issues the get of clearTabStateIfCurrent.     *)
EnterFinally(r) ==
  /\ pc' = [pc EXCEPT ![r] = "clearing"]
  /\ saw' = [saw EXCEPT ![r] = marker[Tab(r)] = r]

(* setTerminalState, post and return, with no look at terminalSent.         *)
Answer(r, e) ==
  /\ Post(PortOf[r], r, e)
  /\ SetTerminal(r)
  /\ EnterFinally(r)

(* Mutant: the catch block answers without looking at terminalSent.         *)
AnswerAgain(r, e) == Answer(r, e)

(* The same behind "if (!hasTerminalBeenSent(requestId))".                  *)
AnswerOnce(r, e) ==
  \/ HasTerminalBeenSent(r) /\ EnterFinally(r) /\ UNCHANGED <<out, terminalSent>>
  \/ ~HasTerminalBeenSent(r) /\ Answer(r, e)

(* What a step of one request's coroutine leaves alone.                     *)
RequestFrame ==
  UNCHANGED <<recoveryVars, port, aborted, cancel, lateRemoves, historyVars>>

Goto(r, label) ==
  /\ pc' = [pc EXCEPT ![r] = label]
  /\ UNCHANGED <<out, terminalSent, saw>>

-------------------------------------------------------------------------------
(* The worker starts: recoverOrphanedTabState reads the whole session       *)
(* storage.                                                                 *)
StartWorker ==
  /\ sw = "down"
  /\ sw' = "recovering"
  /\ snapshot' = {t \in Tabs : marker[t] # NoReq}
  /\ UNCHANGED <<orphaned, storageVars, port, active, requestVars, cancel,
                 lateRemoves, out, historyVars>>

(* Mutant: the recovered keys are not removed.                              *)
RecoverKeepingMarkers ==
  /\ sw = "recovering"
  /\ sw' = "up"
  /\ orphaned' = orphaned \cup snapshot
  /\ snapshot' = {}
  /\ UNCHANGED <<storageVars, port, active, requestVars, cancel, lateRemoves,
                 out, historyVars>>

(* The snapshot arrives: its tabs are orphans and its keys are removed.     *)
(* Should the read or the remove be rejected, messages are handled all the  *)
(* same.                                                                    *)
Recover ==
  /\ sw = "recovering"
  /\ sw' = "up"
  /\ snapshot' = {}
  /\ \/ /\ marker' = [t \in Tabs |-> IF t \in snapshot THEN NoReq ELSE marker[t]]
        /\ orphaned' = orphaned \cup snapshot
        /\ UNCHANGED rejected
     \/ /\ RemoveRejected
        /\ orphaned' \in {orphaned, orphaned \cup snapshot}
  /\ UNCHANGED <<port, active, requestVars, cancel, lateRemoves, out,
                 historyVars>>

(* The browser kills the worker: its memory and its ports are gone, the     *)
(* session storage stays.                                                   *)
Crash ==
  /\ sw # "down"
  /\ crashes < MaxCrashes
  /\ crashes' = crashes + 1
  /\ sw' = "down"
  /\ snapshot' = {}
  /\ orphaned' = {}
  /\ active' = {}
  /\ lateRemoves' = {}
  /\ port' = [p \in Ports |-> IF port[p] = "open" THEN "closed" ELSE port[p]]
  /\ pc' = [r \in Requests |-> IF pc[r] \in InFlight THEN "killed" ELSE pc[r]]
  /\ cancel' = [c \in Cancels |->
                  IF cancel[c].pc \in {"idle", "finished"} THEN cancel[c]
                  ELSE [IdleCancel EXCEPT !.pc = "killed"]]
  /\ killed' = IF sw = "up" THEN {r \in Requests : pc[r] \in InFlight}
                            ELSE killed
  /\ saw' = [r \in Requests |-> FALSE]
  /\ UNCHANGED <<storageVars, terminalSent, aborted, tokens, out>>

(* onConnect.  A tab has one content script, which holds one port; it opens *)
(* the next one when the previous one is closed.                            *)
Connect(p) ==
  /\ sw # "down"
  /\ port[p] = "new"
  /\ \A q \in Ports : TabOf[q] = TabOf[p] => port[q] # "open"
  /\ port' = [port EXCEPT ![p] = "open"]
  /\ UNCHANGED <<recoveryVars, storageVars, active, requestVars, cancel,
                 lateRemoves, out, historyVars>>

(* onDisconnect: abort and forget every request of the tab, without waiting *)
(* for the storage.  The gets of the void clearRequestState calls are       *)
(* issued before the remove of clearTabState, so a matched one still has a  *)
(* remove to issue afterwards (LateRemove).                                 *)
Disconnect(p) ==
  LET t   == TabOf[p]
      hit == {r \in active : Tab(r) = t}
  IN  /\ port[p] = "open"
      /\ port' = [port EXCEPT ![p] = "closed"]
      /\ aborted' = [r \in Requests |-> aborted[r] \/ r \in hit]
      /\ active' = active \ hit
      /\ lateRemoves' = lateRemoves \cup {r \in hit : marker[t] = r}
      /\ RemoveMarker(t)
      /\ UNCHANGED <<recoveryVars, pc, terminalSent, saw, tokens, cancel, out,
                     historyVars>>

LateRemove(r) ==
  /\ r \in lateRemoves
  /\ lateRemoves' = lateRemoves \ {r}
  /\ RemoveMarker(Tab(r))
  /\ UNCHANGED <<recoveryVars, port, active, requestVars, cancel, out,
                 historyVars>>

-------------------------------------------------------------------------------
(* Data requests: onMessage up to the dispatch, then                        *)
(* dispatchSegmentRequest and dispatchStreamingRequest.                     *)

(* Mutant: messages do not wait for the recovery.                           *)
CanHandleEarly(m) == sw # "down" /\ IsOpen(m)

(* A message waits for sessionRecoveryPromise and is dropped when its port  *)
(* closed meanwhile.                                                        *)
CanHandle(m) == sw = "up" /\ IsOpen(m)

(* Mutant: the recovery signal is an event type of its own.                 *)
OrphanedRequestUntyped(r) ==
  /\ CanHandle(r)
  /\ pc[r] = "idle"
  /\ Tab(r) \in orphaned
  /\ orphaned' = orphaned \ {Tab(r)}
  /\ Post(PortOf[r], r, "recovery")
  /\ pc' = [pc EXCEPT ![r] = "finished"]
  /\ UNCHANGED <<sw, snapshot, storageVars, port, active, terminalSent, aborted,
                 saw, tokens, cancel, lateRemoves, historyVars>>

(* sendOrphanedTabSignal: the first message of an orphaned tab is answered  *)
(* with the recovery error and not handled.                                 *)
OrphanedRequest(r) ==
  /\ CanHandle(r)
  /\ pc[r] = "idle"
  /\ Tab(r) \in orphaned
  /\ orphaned' = orphaned \ {Tab(r)}
  /\ Post(PortOf[r], r, "orphan")
  /\ pc' = [pc EXCEPT ![r] = "finished"]
  /\ UNCHANGED <<sw, snapshot, storageVars, port, active, terminalSent, aborted,
                 saw, tokens, cancel, lateRemoves, historyVars>>

(* The map entry is set, then persistRequestState is issued.                *)
Dispatch(r) ==
  /\ CanHandle(r)
  /\ pc[r] = "idle"
  /\ Tab(r) \notin orphaned
  /\ active' = active \cup {r}
  /\ \/ /\ marker' = [marker EXCEPT ![Tab(r)] = r]
        /\ Goto(r, "persisting")
     \/ /\ "persist" \in StorageFaults
        /\ Goto(r, "persistFailed")
        /\ UNCHANGED marker
  /\ UNCHANGED <<recoveryVars, port, aborted, tokens, cancel, lateRemoves,
                 historyVars, rejected>>

(* The marker could not be written: error, clearRequest and return.         *)
PersistFailed(r) ==
  /\ pc[r] = "persistFailed"
  /\ Post(PortOf[r], r, "error")
  /\ SetTerminal(r)
  /\ active' = active \ {r}
  /\ pc' = [pc EXCEPT ![r] = "finished"]
  /\ UNCHANGED <<saw, storageVars, tokens>>
  /\ RequestFrame

(* The marker is written: fetchWithTokenRefresh fires the first fetch.      *)
Fetch(r) ==
  /\ pc[r] = "persisting"
  /\ Goto(r, "fetching")
  /\ UNCHANGED <<storageVars, active, tokens>>
  /\ RequestFrame

(* A response arrives while the signal is not aborted: 401 asks for a       *)
(* refresh the first time and is an error after the retry; any other        *)
(* failure status has its body read first; a stream may lack a body.        *)
Respond(r) ==
  /\ pc[r] \in {"fetching", "retrying"}
  /\ ~aborted[r]
  /\ \/ pc[r] = "fetching" /\ Goto(r, "refreshing")
     \/ pc[r] = "retrying" /\ Answer(r, "error")
     \/ Goto(r, "readingError")
     \/ Goto(r, "reading")
     \/ r \notin Segments /\ Answer(r, "error")
  /\ UNCHANGED <<storageVars, active, tokens>>
  /\ RequestFrame

(* refreshAccessToken settles.  It does not listen to the signal: without a *)
(* token the 401 response becomes an error, aborted or not.                 *)
Refreshed(r) ==
  /\ pc[r] = "refreshing"
  /\ Goto(r, "retrying") \/ Answer(r, "error")
  /\ UNCHANGED <<storageVars, active, tokens>>
  /\ RequestFrame

(* readErrorMessage returns, with the status when the body cannot be read.  *)
ErrorRead(r) ==
  /\ pc[r] = "readingError"
  /\ Answer(r, "error")
  /\ UNCHANGED <<storageVars, active, tokens>>
  /\ RequestFrame

(* response.json() of /segment.                                             *)
SegmentAnswer(r) ==
  /\ r \in Segments
  /\ pc[r] = "reading"
  /\ ~aborted[r]
  /\ Answer(r, "segment")
  /\ UNCHANGED <<storageVars, active, tokens>>
  /\ RequestFrame

(* A token or warning frame of the stream.                                  *)
Token(r) ==
  /\ r \notin Segments
  /\ pc[r] = "reading"
  /\ ~aborted[r]
  /\ tokens[r] < MaxTokens
  /\ tokens' = [tokens EXCEPT ![r] = @ + 1]
  /\ Post(PortOf[r], r, "token")
  /\ UNCHANGED <<pc, terminalSent, saw, storageVars, active>>
  /\ RequestFrame

(* A done or error frame ends the stream.                                   *)
TerminalFrame(r) ==
  /\ r \notin Segments
  /\ pc[r] = "reading"
  /\ ~aborted[r]
  /\ \E e \in {"done", "error"} : Answer(r, e)
  /\ UNCHANGED <<storageVars, active, tokens>>
  /\ RequestFrame

(* Mutant: a stream that just ends is not answered.                         *)
StreamEndSilently(r) ==
  /\ r \notin Segments
  /\ pc[r] = "reading"
  /\ ~aborted[r]
  /\ EnterFinally(r)
  /\ UNCHANGED <<out, terminalSent, storageVars, active, tokens>>
  /\ RequestFrame

(* The stream ends without one: counted as done.                            *)
StreamEnd(r) ==
  /\ r \notin Segments
  /\ pc[r] = "reading"
  /\ ~aborted[r]
  /\ AnswerOnce(r, "done")
  /\ UNCHANGED <<storageVars, active, tokens>>
  /\ RequestFrame

(* The catch block: an aborted fetch or read rejects, and so does a broken  *)
(* connection, a body that is not JSON or a malformed frame.                *)
FetchFails(r) ==
  /\ pc[r] \in {"fetching", "retrying", "reading"}
  /\ AnswerOnce(r, IF aborted[r] THEN "done" ELSE "error")
  /\ UNCHANGED <<storageVars, active, tokens>>
  /\ RequestFrame

(* The get of clearTabStateIfCurrent returned a marker of this request, so  *)
(* the remove is issued, whatever the marker has become since.              *)
ClearMarker(r) ==
  /\ pc[r] = "clearing"
  /\ saw[r]
  /\ RemoveMarker(Tab(r))
  /\ pc' = [pc EXCEPT ![r] = "removing"]
  /\ saw' = [saw EXCEPT ![r] = FALSE]
  /\ UNCHANGED <<active, out, terminalSent, tokens>>
  /\ RequestFrame

(* Mutants: the map entry stays behind; the matched marker is not removed.  *)
FinishKeepingEntry(r) ==
  /\ pc[r] = "removing" \/ (pc[r] = "clearing" /\ ~saw[r])
  /\ Goto(r, "finished")
  /\ UNCHANGED <<active, storageVars, tokens>>
  /\ RequestFrame
FinishWithoutRemove(r) ==
  /\ pc[r] \in Clearing
  /\ active' = active \ {r}
  /\ Goto(r, "finished")
  /\ UNCHANGED <<storageVars, tokens>>
  /\ RequestFrame

(* clearRequest, the last statement of the coroutine.                       *)
Finish(r) ==
  /\ pc[r] = "removing" \/ (pc[r] = "clearing" /\ ~saw[r])
  /\ active' = active \ {r}
  /\ Goto(r, "finished")
  /\ UNCHANGED <<storageVars, tokens>>
  /\ RequestFrame

Coroutine(r) ==
  \/ PersistFailed(r) \/ Fetch(r) \/ Respond(r) \/ Refreshed(r)
  \/ ErrorRead(r) \/ SegmentAnswer(r) \/ Token(r) \/ TerminalFrame(r)
  \/ StreamEnd(r) \/ FetchFails(r) \/ ClearMarker(r) \/ Finish(r)

-------------------------------------------------------------------------------
(* CANCEL: by request id, or of the whole tab when it carries none.         *)

CancelFrame ==
  UNCHANGED <<port, active, pc, saw, tokens, lateRemoves, historyVars>>

(* Mutant: CANCEL aborts and leaves the done to the dispatcher.             *)
CancelLoopSilently(c, target, todo) ==
  \/ \E r \in todo \cap active :
       /\ aborted' = [aborted EXCEPT ![r] = TRUE]
       /\ cancel' = [cancel EXCEPT ![c] =
                       [pc |-> "clearing", target |-> target,
                        todo |-> todo \ {r}, cur |-> r,
                        saw |-> marker[Tab(r)] = r]]
       /\ UNCHANGED <<storageVars, out, terminalSent>>
  \/ /\ todo \cap active = {}
     /\ marker' = [marker EXCEPT ![Tab(c)] = NoReq]
     /\ cancel' = [cancel EXCEPT ![c] = [IdleCancel EXCEPT !.pc = "clearingTab"]]
     /\ UNCHANGED <<rejected, out, terminalSent, aborted>>

(* From the head of the loop to the next await: the next target still in    *)
(* the map gets its done, is aborted and its marker looked up; after the    *)
(* last one the marker of the tab is removed, whoever wrote it.             *)
CancelLoop(c, target, todo) ==
  \/ \E r \in todo \cap active :
       /\ IF terminalSent[r] THEN UNCHANGED out
                             ELSE Post(PortOf[c], r, "done")
       /\ terminalSent' = [terminalSent EXCEPT ![r] = TRUE]
       /\ aborted' = [aborted EXCEPT ![r] = TRUE]
       /\ cancel' = [cancel EXCEPT ![c] =
                       [pc |-> "clearing", target |-> target,
                        todo |-> todo \ {r}, cur |-> r,
                        saw |-> marker[Tab(r)] = r]]
       /\ UNCHANGED storageVars
  \/ /\ todo \cap active = {}
     /\ \/ /\ marker' = [marker EXCEPT ![Tab(c)] = NoReq]
           /\ UNCHANGED rejected
           /\ cancel' = [cancel EXCEPT ![c] =
                           [IdleCancel EXCEPT !.pc = "clearingTab"]]
        \/ /\ RemoveRejected
           /\ cancel' = [cancel EXCEPT ![c] =
                           [IdleCancel EXCEPT !.pc = "tabClearFailed",
                                              !.target = target]]
     /\ UNCHANGED <<out, terminalSent, aborted>>

(* The targets a client of the tab can name: a request of its own, or none  *)
(* to mean all its live requests.                                           *)
ReceiveCancel(c) ==
  /\ CanHandle(c)
  /\ cancel[c].pc = "idle"
  /\ Tab(c) \notin orphaned
  /\ \/ \E r \in Requests :
          pc[r] # "idle" /\ Tab(r) = Tab(c) /\ CancelLoop(c, r, {r})
     \/ CancelLoop(c, NoReq, {r \in active : Tab(r) = Tab(c)})
  /\ UNCHANGED recoveryVars
  /\ CancelFrame

(* A CANCEL is swallowed by the recovery error like any first message.      *)
OrphanedCancel(c) ==
  /\ CanHandle(c)
  /\ cancel[c].pc = "idle"
  /\ Tab(c) \in orphaned
  /\ orphaned' = orphaned \ {Tab(c)}
  /\ \/ \E r \in Requests :
          pc[r] # "idle" /\ Tab(r) = Tab(c) /\ Post(PortOf[c], r, "orphan")
     \/ UNCHANGED out
  /\ cancel' = [cancel EXCEPT ![c] = [IdleCancel EXCEPT !.pc = "finished"]]
  /\ UNCHANGED <<sw, snapshot, storageVars, terminalSent, aborted>>
  /\ CancelFrame

(* The marker of the aborted request was found: the remove is issued.       *)
CancelRemove(c) ==
  /\ cancel[c].pc = "clearing"
  /\ cancel[c].saw
  /\ RemoveMarker(Tab(cancel[c].cur))
  /\ cancel' = [cancel EXCEPT ![c] =
                    [@ EXCEPT !.pc = "removing", !.saw = FALSE]]
  /\ UNCHANGED <<recoveryVars, terminalSent, aborted, out>>
  /\ CancelFrame

(* clearRequestState is over: the loop goes on.                             *)
CancelNext(c) ==
  /\ \/ cancel[c].pc = "removing"
     \/ cancel[c].pc = "clearing" /\ ~cancel[c].saw
  /\ CancelLoop(c, cancel[c].target, cancel[c].todo)
  /\ UNCHANGED recoveryVars
  /\ CancelFrame

CancelDone(c) ==
  /\ cancel[c].pc = "clearingTab"
  /\ cancel' = [cancel EXCEPT ![c] = [IdleCancel EXCEPT !.pc = "finished"]]
  /\ UNCHANGED <<recoveryVars, storageVars, terminalSent, aborted, out>>
  /\ CancelFrame

(* clearTabState was rejected: the catch of the handler.  A CANCEL without  *)
(* a request id reports the error under an id nobody waits for.             *)
CancelFailed(c) ==
  LET r == cancel[c].target
      silent == r = NoReq \/ ~IsOpen(c)
  IN  /\ cancel[c].pc = "tabClearFailed"
      /\ \/ /\ ~silent
            /\ ~HasTerminalBeenSent(r)
            /\ SetTerminal(r)
            /\ Post(PortOf[c], r, "error")
         \/ /\ silent \/ HasTerminalBeenSent(r)
            /\ UNCHANGED <<terminalSent, out>>
      /\ cancel' = [cancel EXCEPT ![c] = [IdleCancel EXCEPT !.pc = "finished"]]
      /\ UNCHANGED <<recoveryVars, storageVars, aborted>>
      /\ CancelFrame

CancelHandler(c) ==
  CancelRemove(c) \/ CancelNext(c) \/ CancelDone(c) \/ CancelFailed(c)

-------------------------------------------------------------------------------
Next ==
  \/ StartWorker \/ Recover \/ Crash
  \/ \E p \in Ports : Connect(p) \/ Disconnect(p)
  \/ \E r \in Requests : \/ OrphanedRequest(r) \/ Dispatch(r)
                         \/ Coroutine(r) \/ LateRemove(r)
  \/ \E c \in Cancels : \/ ReceiveCancel(c) \/ OrphanedCancel(c)
                        \/ CancelHandler(c)

Spec == Init /\ [][Next]_vars

(* The worker runs every continuation it has scheduled; HTTP answers, fails *)
(* or breaks off; nothing obliges a page to connect or to send.             *)
Fairness ==
  /\ WF_vars(Recover)
  /\ \A r \in Requests : WF_vars(Coroutine(r)) /\ WF_vars(LateRemove(r))
  /\ \A c \in Cancels : WF_vars(CancelHandler(c))

FairSpec == Spec /\ Fairness

-------------------------------------------------------------------------------
(* Properties.                                                              *)

TerminalsOf(r) == {i \in DOMAIN out[r] : out[r][i] \in Terminal}

(* What a client can count on: nothing follows the terminal event of a      *)
(* request, except that a cancelled one may see one error after the done of *)
(* its CANCEL (the unguarded error paths of the dispatchers), and that a    *)
(* late CANCEL may be answered by the recovery error.  Once a remove was     *)
(* rejected, the handler's catch may report it under the target's id.       *)
TerminalDiscipline ==
  ~rejected =>
    \A r \in Requests : \A i \in TerminalsOf(r), j \in DOMAIN out[r] :
      j > i => \/ out[r][j] = "orphan"
               \/ /\ out[r][j] = "error"
                  /\ out[r][i] = "done"
                  /\ aborted[r]

(* activeRequestsById holds exactly the requests whose coroutine runs on an *)
(* open port: none leaks past its finally block or its port, and none that  *)
(* a CANCEL should reach is missing.                                        *)
MapMirrorsCoroutines ==
  \A r \in Requests : r \in active <=> pc[r] \in InFlight /\ IsOpen(r)

(* The worker never aborts a request behind its client's back: an aborted   *)
(* request whose port is open has had a terminal event.                     *)
AbortIsAnswered ==
  \A r \in Requests : aborted[r] /\ IsOpen(r) => TerminalsOf(r) # {}

(* A restarted worker signals an orphan only to a tab that had a request in *)
(* flight when the previous worker died: the marker of a completed request  *)
(* is never mistaken for an interrupted one, nor the marker of a request    *)
(* of the new worker for one of the old.                                    *)
OrphansWereKilled ==
  ~rejected =>
    \A t \in orphaned : \E r \in killed : Tab(r) = t

(* A stored marker names a request that is still in flight, or that was     *)
(* when the worker died and has yet to be recovered.                        *)
MarkersAreLive ==
  ~rejected =>
    \A t \in Tabs : marker[t] # NoReq =>
      /\ Tab(marker[t]) = t
      /\ IF sw = "up" THEN pc[marker[t]] \in InFlight
                      ELSE marker[t] \in killed

(* What the single marker per tab does guarantee: while the only request    *)
(* its page has sent is being worked on, and no request or CANCEL of an     *)
(* earlier page was cut short, the marker names it, so a kill is noticed.   *)
SoleRequestIsMarked ==
  \A r \in Requests :
    /\ pc[r] \in Working \ {"persistFailed"}
    /\ IsOpen(r)
    /\ \A q \in Requests \ {r} : Tab(q) = Tab(r) =>
         \/ pc[q] = "idle"
         \/ PortOf[q] # PortOf[r] /\ ~aborted[q]
    /\ \A c \in Cancels : Tab(c) = Tab(r) => cancel[c].pc \in {"idle", "killed"}
    => marker[Tab(r)] = r

(* A worker that recovers flags every tab whose request was unanswered when *)
(* its predecessor died: what the manual says of a restart ("If the         *)
(* recovery message never appears after the worker restart and page reload, *)
(* the session-state recovery path regressed").                             *)
InterruptedTabs == {Tab(r) : r \in {q \in killed : ~terminalSent[q] /\ ~aborted[q]}}
RestartFlagsInterruptedTabs ==
  [][sw = "recovering" /\ sw' = "up" => InterruptedTabs \subseteq orphaned']_vars

(* At most one terminal event per request ("No second terminal event or     *)
(* late error appears after the cancel").                                   *)
OneTerminal == \A r \in Requests : Cardinality(TerminalsOf(r)) <= 1

(* Every request the worker takes on is answered, unless its port closes.   *)
EveryRequestIsAnswered ==
  \A r \in Requests :
    pc[r] = "persisting" ~> (TerminalsOf(r) # {} \/ ~IsOpen(r))

(* The marker of a request does not outlive it: it is removed while the     *)
(* worker lives, or by the recovery of the next one.                        *)
MarkersAreCleared ==
  \A r \in Requests :
    (sw # "down" /\ marker[Tab(r)] = r) ~> (sw = "down" \/ marker[Tab(r)] # r \/ rejected)

-------------------------------------------------------------------------------
(* The contract of the bridge with its clients: the events of each request. *)
Contract == INSTANCE RequestStream WITH
  sent      <- {r \in Requests : pc[r] # "idle"},
  open      <- {p \in Ports : port[p] = "open"},
  cancelled <- {r \in Requests : aborted[r]},
  degraded  <- rejected

(* Whatever the order of answers, CANCELs, lost ports, kills and recovery,  *)
(* the events a client sees under each request id follow the contract:      *)
(* tokens and one end, nothing on a closed port, a done at once on CANCEL.  *)
StreamContract == Contract!Spec
===============================================================================
