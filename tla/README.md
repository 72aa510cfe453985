# PromptCompiler: a TLA+ verification project

PromptCompiler is a browser extension (MV3: content script, background service worker, popup)
with a Bun/Hono backend. It segments what the user types into clauses, streams an expansion of
each clause, and binds the accepted clauses into one prompt. This directory models its
concurrent parts in TLA+, checks them with TLC and proves theorems about them with TLAPS.

## Inventory of the system

| Component | State it keeps | Operations | What makes it correct |
|---|---|---|---|
| **Background bridge** (`extension/src/background/index.ts`) | `activeRequestsById`, `orphanedTabIds`, `sessionRecoveryPromise` in memory; one marker per tab in `chrome.storage.session` | `onConnect`, `onMessage` (SEGMENT, ENHANCE, BIND, CANCEL), `onDisconnect`, recovery at start | each request is answered, its events are well ordered, the map does not leak, markers tell interrupted requests from completed ones |
| **Background token refresh** (same file) | `tokenRefreshPromise`; `promptcompiler.auth` in two storage areas; a lock with a start time in `chrome.storage.session` | `refreshAccessToken`, `waitForUpdatedAuth` | a single-use refresh token is not sent twice at a time; the rotated pair is stored; a session is neither resurrected nor lost |
| **Content script** (`extension/src/content/index.ts`) | `activeInputState` (draft segments, acceptances, expansions, active request ids, bind phase), the port | keystrokes, debounce, bridge messages, accept/unaccept, bind, commit, discovery and detachment of inputs, storage changes | what is bound is what the user accepted; a draft is never stuck; late events of an older draft do nothing |
| **Popup** (`extension/src/popup/`) | auth, settings, history as shown | sign-in, sign-up, sign-out, settings, pins, deletes, account status | its writes survive those of the worker and of the pages |
| **Prompt history** (`extension/src/lib/prompt-history.ts`) | one list in `chrome.storage.local` | save, pin, delete | caps; pinned templates are never evicted by saves |
| **Backend auth** (`routes/auth.ts`, `services/supabase.ts`, `middleware/auth.ts`, `tier.ts`) | none (Supabase) | `/auth/token`, bearer verification | rotation, refusals |
| **Backend rate limiting** (`services/rateLimit.ts`, `middleware/ratelimit.ts`) | counters with expiries in Redis | daily, burst and per-IP quotas | no more than the limit per day or window; nobody passes uncounted; every counter expires |
| **Backend streaming** (`services/routeHandlers.ts`, `providers/*`, `llm.ts`) | per-request flags, one history row per bind | `/enhance`, `/bind`, provider retry and timeout | one terminal event per stream; one row per successful bind |
| **Backend segmentation** (`services/segment.ts`) | none | normalisation of the classifier's answer | dependencies are acyclic; a failure falls back to a complete answer |
| **Clause order** (`packages/core`) | none | canonical and user order | a permutation |

Interaction: the content script holds one port to the worker and sends requests and CANCELs on
it; the worker calls the backend by HTTP (server-sent events for ENHANCE and BIND) and posts
events back on the port; the popup, the worker and the content scripts share `chrome.storage`
and watch its changes; the popup asks the worker to refresh a token by a runtime message.

What is hard in it: handlers interleave at every `await`; the browser kills the worker at any
moment and storage outlives it; ports close under running requests; storage removes are
check-then-act; refresh tokens are single-use; a CANCEL races the answer it cancels. Each such
place is listed with its line under `hazards` in `PROJECT.json`.

## Modules

| Module | What it is |
|---|---|
| `Bridge` | the bridge: worker life cycle, ports, dispatchers, CANCEL, markers, recovery |
| `MCBridge`, `Bridge_*.cfg` | its instances for TLC |
| `BridgeProofs` | theorems about `Bridge` |
| `RequestStream` | the abstract contract of the bridge: the events a client sees under each request id |
| `StreamProofs` | the theorem that `Bridge` implements `RequestStream` |
| `TokenRefresh` | the token refresh with the popup's sign-in and sign-out and the backend's rotation |
| `MCTokenRefresh`, `TokenRefresh_*.cfg` | its instances for TLC |
| `TokenRefreshProofs` | theorems about `TokenRefresh` |
| `PromptHistory` | the prompt history: overlapping saves, pins and deletes over one storage key |
| `MCPromptHistory`, `PromptHistory_*.cfg` | its instances for TLC |
| `PromptHistoryProofs` | theorems about `PromptHistory` |
| `DraftSession` | the draft session of the content script: debounce, segmentation, review, expansions, bind and commit |
| `MCDraftSession`, `DraftSession_*.cfg` | its instances for TLC |
| `DraftTypeProofs` | type correctness of `DraftSession` |
| `DraftProofs` | theorems about `DraftSession` |
| `RateLimit` | the quotas of the backend: the middleware, and the counters in Redis |
| `MCRateLimit`, `RateLimit_quotas.cfg` | its instance for TLC |
| `RateLimitProofs` | theorems about `RateLimit` |
| `BackendRoutes` | POST /segment, /enhance and /bind: handler, provider, event stream, history row |
| `SegmentAnswer` | what POST /segment makes of a classification, as operators; `BackendRoutes` extends it |
| `EventStream` | the abstract contract of a streaming route: the events its client can read |
| `MCBackendRoutes`, `BackendRoutes_*.cfg` | the instances of `BackendRoutes` for TLC |
| `BackendRoutesProofs` | theorems about `BackendRoutes`, and that it implements `EventStream` |

How they meet. At the 401 path, `Bridge` sees a refresh as a step that takes any time and ends with
or without a token (`Refreshed`), and `TokenRefresh` says what happens inside; its `Callers` are the
requests of `Bridge` that wait there and the popup's REFRESH_TOKEN messages. `DraftSession` knows of
the bridge what `RequestStream` says of it. A fetch of `Bridge` first meets `RateLimit` (a refusal is
an error answer there, a refused POST /auth/token a refusal of `Serve` in `TokenRefresh`) and, once
it is admitted, `BackendRoutes`: the frames a coroutine of `Bridge` reads are the events of
`EventStream`, and a stream that ends without a terminal frame, which `Bridge` has to handle, is one
that was cut between the two, since `EventStream` closes none in this way.

### Bridge

An action is the code that runs between two awaits, since the worker is single-threaded. A
request's coroutine (`dispatchSegmentRequest`, `dispatchStreamingRequest`) is its `pc`:

| `pc` | where the code waits |
|---|---|
| `persisting`, `persistFailed` | `persistRequestState`, granted or rejected |
| `fetching` | the read of the settings and the first fetch |
| `refreshing`, `retrying` | `refreshAccessToken` after a 401; the second fetch |
| `readingError`, `reading` | the body of a failure; the stream or the JSON answer |
| `clearing`, `removing` | the get and the remove of `clearTabStateIfCurrent` in `finally` |

A CANCEL handler has a `pc` of its own, as its loop awaits the marker of each target. A
disconnect does not wait for its removes: the one of the tab is issued at once, those that
follow a matched get come later (`LateRemove`). `Crash` empties the worker's memory, closes the
ports and keeps the storage; `StartWorker` reads the markers, `Recover` flags their tabs and
removes them.

Assumptions about the environment: the storage calls of one worker take effect in the order
they are issued; a tab holds one open port at a time (the content script runs in the top frame
and keeps one port); a request id is used once (`crypto.randomUUID`); an aborted fetch or read
rejects, so no answer is taken from one after the abort. A CANCEL names a request of its own
tab, or none. A remove of a marker may be rejected; a rejected get in `finally` has the outcome
of a rejected remove (the marker stays, the error is logged) and needs no case of its own.

Properties (`out[r]` is what was posted under the id `r`):

- `TerminalDiscipline`: what may follow a terminal event. The code allows exactly one thing: an
  error after the done of a CANCEL (and the recovery error in answer to a late CANCEL).
- `MapMirrorsCoroutines`: `activeRequestsById` is exactly the set of running requests on open ports.
- `AbortIsAnswered`: no request is aborted without an answer while its port is open.
- `OrphansWereKilled`, `MarkersAreLive`: a marker is never that of a completed request, so an
  orphan signal is never a false alarm.
- `SoleRequestIsMarked`: the converse, as far as one marker per tab can give it.
- `EveryRequestIsAnswered`, `MarkersAreCleared`: liveness.
- `StreamContract`: `Bridge` implements `RequestStream`, see below.
- `OneTerminal`, `RestartFlagsInterruptedTabs`: what the manual says, and the code does not do
  (see Findings).

Three of them are claimed only while no remove was rejected (`rejected`): after a rejection the
marker of a completed request stays, and the handler's catch may report under the id of a
request that has been answered.

### RequestStream

What the bridge promises a page, with no worker, coroutines, map or markers in it: a request is
sent or refused, delivers tokens and then one end, is ended at once by a CANCEL, and nothing is
posted to a closed port. Three weak points are part of the contract because the code has them
and a client has to live with them: an error after the done of a CANCEL (`LateError`), the
recovery error in answer to a CANCEL of an earlier request (`Interrupted`), and, once the session
storage has failed, the error of a failed CANCEL (`StrayError`). The mapping is at the end of
`Bridge`: `sent` are the requests whose `pc` has left `idle`, `open` the open ports, `cancelled`
the aborted requests, `degraded` is `rejected`, and `out` is itself. The models of the content
script are to rest on this contract instead of on `Bridge`.

### TokenRefresh

`pc` is where `doRefreshAccessToken` waits: `reading` (auth and lock), `polling` and `sleeping`
(`waitForUpdatedAuth`), `unlocked` (a stale lock removed), `locking`, `sent`, `stored` (in
`finally`), `released`. `caller[c]` is a 401 or a REFRESH_TOKEN message that awaits
`tokenRefreshPromise`. Tokens are numbers in the order of issue and carry the sign-in they
descend from (`fam`), so that "the same session" can be said. Time is kept as ages: of the lock,
of the wait, and of exchanges nobody awaits any more. They stop growing one past `MaxAge`, since
the code only compares them with `REFRESH_LOCK_MAX_AGE_MS`; `Tick` is a fraction of it.

The backend (`Serve`) rotates the refresh token or keeps it, and refuses before the exchange
(the per-IP limiter, an unavailable Redis) or after it (the verification of the new session),
which spends the token. An exchange cut short by a kill or a broken connection may be served
later (`ServeAbandoned`). The popup signs in (`BeginLogin`, `StoreLogin`; `LoginFails` when the
credentials, the network or the missing session end it) and out (`Logout`), touching the local copy
only. Any storage call of the refresh may be rejected: either of the two writes of `writeStoredAuth`
and `clearStoredAuth`, the calls before the lock is written (`StorageRejects`, null), and the removal
of the lock in `finally` (`ClearLock`), which leaves a lock that a later refresh waits for or steals.

Properties:

- `NoParallelExchange`: what the comment at line 156 promises, made precise: one exchange at a
  time in a worker, and a successor of a killed worker leaves its exchange `MaxAge` to finish.
  After a *network* failure the code does resend at once; the property says nothing of those.
- `SpentTokensAreReplaced`: a stored token the backend will refuse is about to be replaced,
  unless the answer was lost on the way (network, kill, rejected write, late refusal).
- `SignOutSticks`, `SessionIsKept`: when a refresh may bring back a session the user left, or
  end one the user began. The exception in each (`overlapped`) is the race the code has: a
  refresh of that session running at the time, or a copy of it left in the session area, which
  the popup does not remove.
- `CallersAreAnswered`: liveness across a kill that leaves the lock behind.

The last three hold with the exceptions stated; without them TLC refutes them, and the
exceptions are where the hazards at `App.tsx:222` and `background/index.ts:163` bite.

### PromptHistory

The list is a set of entries, each stamped with the time it was last saved: a save puts its
entry in front and stamps it, nothing else inserts or moves one, so the order of the list is
that of the stamps and "the first 50 unpinned" are the 50 with the latest ones. Every operation
is a read (`StartSave`, `StartPin`, `StartDelete`) and, later, a write of the whole list (`Save`,
`SetPinned`, `Delete`) computed from what it had read; `op[c]` holds that list. `RefusePin` and
`Fail` end without a write. A commit in any page saves; the popup pins and deletes an entry it
shows or has shown, which may be gone by now.

Properties. The writes are last-write-wins, and the comment at line 5 says so, so an operation
may undo another. What holds all the same:

- `EntriesAreUnique`, `PinLimitHolds`: the checks are made on an outdated list, but every list
  read was consistent once, and a write keeps it so.
- `HistoryIsBounded`: unpinning passes the cap of unpinned entries, but never the sum of the two.
- `KnownPinsSurvive`: an entry the operation saw pinned is not lost, save to its own deletion.

What does not hold is that a save never evicts a template (`prompt-history.ts:8`): a save that has
read the list before the popup pins its oldest entry writes the list back without it.

### DraftSession

The content script is single-threaded too; an action is the code between two awaits. The state
is `activeInputState`, which every input event replaces by a copy, while a `dispatchBindRequest`
that awaits the storage goes on with the copy it was started on. The objects are therefore
numbered: `states[active]` is the current one, the others are those a `bindCalls[c]` holds, and
an object nothing refers to is dropped. The copy is shallow: the set of accepted clauses is one
set for all copies, until a migration installs a new one. `box` names that set, and `Update`
changes `accepted` in all objects that have the box.

| Action | Code |
|---|---|
| `Edit` (`Input`) | `handleInputEvent` and `scheduleDebouncedExtraction`: cancel the bind, mark acceptances stale, copy the state, start the timer; on another input, clean up the former |
| `DebounceFires`, `DebounceResumes` | the debounced extraction before and after `resolveBridgeContext`: migration, SEGMENT, rendering |
| `FocusSegment`, `AcceptFocusedSegment`, `UnacceptSegment`, `Escape` | the keys of the review |
| `DispatchBind`, `BindResumes` | `dispatchBindRequest` before and after its await |
| `CommitGhostText` | the text is written, the input event it fires is handled at once, then the original is reset |
| `ReceiveSegments`, `EnhanceResumes` | `handleSegmentResponse`; `dispatchEnhanceRequest` after its await |
| `ReceiveEnhanceToken`, `ReceiveBindToken`, `ReceiveDone`, `ReceiveError` | events of a stream |
| `WorkerDies`, `PortDisconnects` | the port closes; `onDisconnect` runs, later |
| `SignOut` | `promptcompiler.auth` is removed from the storage |
| `PageChanges` (`Detach`, `Reattach`, `Orphan`) | the page takes inputs away and adds others: the discovery observer and `reattachActiveInput` |

The page's part is `gone`, the inputs that are not in the document. When the active input leaves it,
an object without a bind is cleared (`Detach`). Under a bind the object goes on, in an input that came
with the same mutation (`Reattach`) or in none (`Orphan`): then its answers still come, while it has no
keys and renders nothing (`HasKeys`, `Rendered`). The script may have rendered an older copy of the
object than the active one, so `Orphan` allows the rendering of either, or of none, to be cleared.
After a replacement `input` and `source` differ: the keys and the commit belong to the new input, and
the debounce goes on reading the one it was set for. `typed` is the text of an input at its last input
event. Nothing looks at what comes and goes while the active input stays, so the model does not either.
Two things of the code change no state of the session and are left out: the recovery observer
(`content/index.ts:2385`) never finds an input, because the discovery observer was created first and
has instrumented everything that was added; and its fallback after 500 ms only shows and copies the
text, the part of it that has come if the bind is still running, though the notice calls that the
compiled prompt.

Texts are model values. A clause is its positional id (`seg-start-end`), since the code knows
clauses by nothing else: `Split` and `Sections` say which ids a text yields in the script and in
the backend, `Wording` which characters stand at an id. That an id can name two different
clauses in two texts is what `GateMeansApproved` and `BoundExpansionsAreCurrent` are about. A
request id carries its kind. `requests` are those the worker has and has not ended; the worker is
what `RequestStream` says of it, and a request is dropped at its CANCEL because no object names
it any longer and its events are ignored. The exceptions are the commit and `Orphan`, where a
copy still names expansions that were cancelled (`cancelled`, `Disown`). `LeftBehind` keeps of a superseded object what a
bind call can still read.

`approved` (the clauses accepted since the last input event) and `basis` (what a bind was
collected from) are history variables.

Properties:

- `GateMeansApproved`: whenever Cmd+Enter would bind, each clause it binds as accepted was
  accepted by the user in the present text, across edits, migrations and late answers.
- `BindAnswersInput`: the answer of a bind never replaces what was typed meanwhile. (After a
  replacement, what was typed into the former input.)
- `BindPhaseAgrees`, `PanelIsAnswer`: the phase, the id, the panel and the running request of a
  bind agree in every order of keys and events.
- `BindsAreHeard`: the worker runs no bind the script has forgotten: Escape and the next edit cancel a
  running one, two quick Cmd+Enter start one, and an edit or a commit stops one that still awaits the
  storage. `abandoned` names what is excepted: a bind that is running, or awaits the storage
  (`outlived`), when the user turns to another input or signs out, which the code leaves alone, and
  one that awaits at the edit described below.
- `EnhancesAreHeard`: the worker streams no expansion whose clause has gone from the draft, whatever took
  it away, except that of a clause that went while `dispatchEnhanceRequest` was reading the storage
  (`late`), described below.
- `EnhancesAreAnswered`: the converse, so that a lost expansion is asked for again.
- `FreshDraftIsTyped`: an underline that is not dimmed is that of the present text.
- `NoPassThroughBind`, `BoundExpansionsAreCurrent`: what a comment and the manual say, and the
  code does not do (see Findings).

Two of them have a condition because the code lets it happen: after an edit of a draft with no
acceptance, the user may still accept clauses of the dimmed draft until the debounce fires, and
bind them. That bind is of an outdated text (`basis.fresh` is false) and `BindAnswersInput` says
nothing of it, `FreshDraftIsTyped` only that such a draft is dimmed.

Two weaknesses of the code stand behind the exceptions of `BindsAreHeard` and `EnhancesAreHeard`:

- *A bind that nobody hears.* A `dispatchBindRequest` that awaits the storage goes on with the object
  it was called on (`content/index.ts:2738`) and looks at that object's gate again (2744). An edit
  meanwhile puts a copy in its place; what stops the bind is `hasStaleAccepted`, which the edit sets on
  the object it leaves, but only if a clause is accepted at that time (3116). If the user has taken
  the last acceptance back after Cmd+Enter, the object stays unmarked, the copy shares the set of
  acceptances with it (3139), and the next Enter on the copy, before its debounce has run, opens the
  gate for both. The bind of the former text is then sent, and its answer ignored. It takes a storage
  read that lasts that long. When anything is accepted at the edit, the gate of the left object stays
  closed for good, which is the invariant `CallsAreStopped` of the proofs.
- *An expansion of nothing.* The comment at `content/index.ts:2811` says that a dispatch does nothing when
  its state was superseded by a newer debounce. But a debounce changes the object in place, and the
  guard compares objects: when a debounce (an emptied text, other clauses) or an answer takes the
  clause away while the storage is read, the request is sent for a clause that is not in the draft.
  It ends by itself, or is cancelled with the next change of clauses.

### RateLimit

A call is a request on its way through the middleware: `at[c]` is the command it waits for (INCR,
then TTL or EXPIRE), `quota[c]` the quota it is consuming, `outcome[c]` how it left. The counters
(`count`, `left`) are Redis keys, one for each quota and owner.

| Action | Code |
|---|---|
| `Authenticate`, `Unauthorized` | `verifyBearerToken` and the auth middleware: the tier, or free when the profile cannot be read |
| `TokenRequest` | POST /auth/token, which has no bearer and a quota per address |
| `Incr`, `Look`, `Arm` | the commands of `consumeDailyFreeQuota`, `consumeBurstQuota` and the token quota; the last one answers, and the call goes on to the next quota, to the tier policy (`Admit`) or out |
| `Fail`, `LateIncr`, `LateExpire` | a command that is rejected or times out: the call ends with a 503, and the command may take effect all the same, later |
| `Tick`, `Midnight` | expiry of keys, and the UTC midnight the daily counters are reset at |

An INCR may be counted twice, when the client sends it again over a broken connection. TTL answers in
whole seconds, so a key about to expire may answer 0 (`TtlReplies`). `span` (the calls counted in the
present day or window), `used` and `cut` are history variables.

Properties:

- `AdmissionsAreBounded`: in no order of commands do more calls get through in a day or window
  than the limit. The exception, `cut`, is in the code: the reset is computed before the INCR is
  awaited, and an EXPIREAT held up past midnight removes the new day's counter
  (`rateLimit.ts:315`).
- `AnsweredCallsLeaveExpiry`: the separate expiry is a crash window, which the look at the TTL
  closes. A counter that has answered a call never stays without an expiry.
- `AdmissionIsCounted`: whatever fails on the way, nobody gets through uncounted, and a profile
  that could not be read makes a call meter more, not less.

Two things the model shows and no document denies: a refused call counts, for the daily limit as for
the burst; and the daily limit counts segments and binds as well as enhances. Burst windows are fixed
ones, although `docs/DATA_MODELS.md:215-218` calls them sliding.

### BackendRoutes, SegmentAnswer and EventStream

Requests share nothing in the handlers, so the model has one. `at` is where it waits: the body
(`entry`), the adapter (`open`), the headers (`fetch`), a backoff (`sleep`), the provider's body
(`read`), the client (`write`), the database (`record`). `signal` is the abort signal of the
request and `cancelled` the cancellation of the event stream, two notices of the same departure
that come separately, in either order, or one without the other.

| Action | Code |
|---|---|
| `Refuse`, `NoAdapter`, `Accept` | the checks of the body and of the provider; opening the stream |
| `FirstAttempt`, `TimeOut`, `FetchAborted`, `FetchFails`, `FetchAnswers`, `Wake`, `NoKey` | `fetchProviderStreamResponse` and `retryWithBackoff` |
| `ReadToken`, `ReadDone`, `ReadEnd`, `ReadMalformed`, `ReadReported`, `ReadBroken` | the events of an adapter, each with what the handler does with it (`HearToken`, `HearDone`, `HearError`, `HearAborted`) |
| `Written`, `Record` | the end of a `writeSSE`; the insert of the history row |
| `SignalAborts`, `StreamCancelled` | the client leaves |

`SegmentAnswer` is pure: what comes back from the classifier is any sequence of sections, and
`Normalized` is what the code makes of it. The operators follow `services/segment.ts`; recursion over
data is written as recursive functions. `IsSound` states the result without the walk: unique ids,
each dependency once, an order exists that respects them, and one that was asked for is missing
only if it would close a cycle with those kept.

`EventStream` is what a client may rely on: tokens, at most one warning with only a done after it,
one done or error, and no stream closed under a client that is still there without one. The mapping is
at the end of `BackendRoutes`.

Properties:

- `StreamContract`: `BackendRoutes` implements `EventStream`, with retries, timeouts, a failing
  history insert, and either signal at any point.
- `MetadataAgrees`: the metadata of an enhance has one terminal event, the one the client was sent,
  if it was still there.
- `DoneMeansRecorded`: a bind that ends with done, and no warning, is in the history once.
- `AnswersAreAcyclic`: `IsSound` of every answer of /segment.
- `HeadersAreNotAwaitedForever`: attempts and timeouts run out even if the provider never answers.
- `AbortReleasesProvider`: what the plans say, and the code does not do (see Findings).

## Runs

| Run | Instance | Shows |
|---|---|---|
| `bridge_reload` | one tab, two successive ports (a page and its reload), on each a request and a CANCEL; one SEGMENT and one stream; one token frame; one kill; the persist may fail | the safety properties of events and markers, the contract |
| `bridge_page` | one port, a SEGMENT and a stream in flight together, one CANCEL, one kill; removes may be rejected | the map, answers to aborts; liveness, in the worker and over its restart |
| `bridge_terminal` | one stream, one CANCEL | violation of `OneTerminal` |
| `bridge_restart` | two streams of a page, one kill | violation of `RestartFlagsInterruptedTabs` |
| `refresh` | two callers, a second sign-in, one kill, broken connections, rejected storage calls, refusals | the safety properties of the refresh, and `CallersAreAnswered` |
| `history_overlap` | two overlapping operations, three prompts, four saves, limits of one | the properties of the list |
| `draft_session` | two inputs, drafts of none and of two clauses, two input events, one Cmd+Enter under way, all contexts (signed in, paused, no token), inputs that leave and come back; 1.3 million states, the largest run (two to three minutes) | the safety properties of the review, the bind and the expansions |
| `draft_passthrough` | one input, drafts of two clauses, a backend that may leave one out | violation of `NoPassThroughBind` |
| `draft_expansions` | one input, two texts that differ in a word of the first clause | violation of `BoundExpansionsAreCurrent` |
| `rate_limit` | three calls of one owner on the same kind of route, limits of one, windows and days of two ticks, all faults | the properties of the quotas |
| `backend_routes` | all routes, free, pro and byok, three attempts, answers of two chunks, classifications of up to three sections | the contract, the metadata, the history row, the sections, the end of the retries |
| `backend_abort` | free tier, one attempt, one chunk | violation of `AbortReleasesProvider` |

Bounds and why they are enough. Markers, the map and ports are kept per tab, and no handler
reads the state of another tab, so one tab suffices. Two requests are the least for one to
overwrite or remove the other's marker, two ports the least for a late remove of the old page
to meet the new one; one kill is the least for a recovery (a second one starts over from the
same storage). One frame per response is enough to place an event before and after a CANCEL.
For the refresh, `MaxAge = 2` distinguishes fresh, just expiring and stale; of two callers one
starts and one joins, or both start, one after the other; a second sign-in is the least for an
exchange of the first to meet it. For the history, limits of one make every cap bind after two
saves, three prompts put one in each class (pinned, kept, evicted), four saves bring an evicted
prompt back, and two operations are the least that overlap. For the draft session, `MaxEdits`
counts input events and commits: the first makes a draft, the second meets everything that is
still under way for it (the debounce, the answer, the expansions, the bind); `MaxTokens = 1`
tells an empty panel from one with text. Between two edits there is no bound on keys, answers,
messages and sign-outs. An answer may give a draft no clause, or leave out the first one,
so that ids are kept, moved and lost, and the focus may end up behind the last. Two inputs are the
least for the user to turn to another, or for the page to replace one, while a bind of the first is
under way. After the last input event that `MaxEdits` allows the page stays as it is and no worker
dies; what a worker has left behind that died before goes on. A death after a commit is left to the
theorems, which hold for every `MaxEdits`. Two Cmd+Enter that
pass the first look at the gate together are left to the theorems, and so are more edits: a random
simulation with six edits, two inputs, two calls and four texts (45 million states, on a fixed page)
found no violation. For the quotas, a limit of one makes the second call the first to be refused, and a third
finds what the other two have left; two ticks tell an expiry that is near from one that is not. For
the routes, three attempts are those of the code, and two chunks are the least for a departure
between them; every list of at most two dependencies for each of three sections contains every
cycle of two and three, self-dependencies, duplicates and a choice of which edge closes the
cycle, and the lists with equal or blank texts add indices out of range. The theorems below hold
without these bounds.

`CHECK_DEADLOCK FALSE`: the system may stop, when every request is finished and no page sends
another.

Fairness. `FairSpec` asks weak fairness of the steps the runtime owes: every continuation a
handler has scheduled (coroutines, CANCEL handlers, late removes, recovery), an HTTP call that
answers or breaks off, and the passing of time. Nothing obliges a page to connect or to send, a
user to sign in, or the browser to start or to kill the worker. `BackendRoutes` asks it of three steps
only, timers and rejections of the runtime: `TimeOut`, `FetchAborted`, `Wake`. Provider, database and
client owe nothing. `RateLimit` and `PromptHistory` state none. The fetches of the bridge have no
timeout: that they end is an assumption about the network.

## Findings

- **A second terminal event after a CANCEL** (`bridge_terminal`). The error paths at
  `index.ts:772` and `857` post without asking `hasTerminalBeenSent`. A CANCEL that arrives while
  the refresh after a 401, or the body of an error, is awaited posts `done`, and the coroutine
  posts `error` when it resumes. The testing notes say the opposite
  (`docs/testing-notes/v1_testing_notes.md:2255`, `v1_step_7.md:101` and `112`).
- **A restart that goes unnoticed** (`bridge_restart`). There is one marker per tab: a second
  request overwrites the first one's and removes it when it ends. If the worker is killed while
  the first is still streaming, its tab is not flagged (`v1_testing_notes.md:2284`,
  `v1_step_7.md:121`).
- **A bind without an accepted clause** (`draft_passthrough`). An answer of the backend with fewer
  clauses than the script had cut leaves the focus behind the last one. Enter accepts that index,
  the gate opens, and Cmd+Enter binds with every clause passed through; `content/index.ts:2702`
  says this cannot happen.
- **An outdated expansion is bound** (`draft_expansions`). Finished expansions are kept by
  positional id. An edit that puts a word of the same length in place of another changes no id, so
  the expansions of that clause and of the later ones are kept and bound;
  `docs/UX_FLOW.md:135` says they are cleared and made again.
- **An abort that releases nothing** (`backend_abort`). The abort listener of a fetch is removed when
  its headers have come (`providers/http.ts:123`), and the parser only releases the lock of its
  reader. A client that leaves while the answer is read ends the handler, not the provider's
  answer, which goes on into an open connection. `docs/agent_plans/v1/v1_overarching_plan.md:173`
  says "Abort releases provider/network resources", and `v1_step_5.md:221` says the same.

## Proofs

All theorems are about the specification with every constant left open, under the named
assumptions `ParametersAssumption` (types, `NoReq` is not a request), `RefreshAssumption`
(`MaxAge` is a positive number, types), `LimitsAssumption` (the limits are numbers),
`CallsAssumption`, `QuotaAssumption` and `TierAssumption` (the calls are finitely many; limits,
windows and days are positive; free is a tier), `BackendAssumption` (there is at least one attempt),
`AnswersAssumption` (what a classifier is heard to answer has passed the schema of a classification,
`segment.ts:21-31`, and the segments of a request are texts) and `TextsAssumption` (types; the clauses of one cut, or of one answer, have different positions, as
both are found by a cursor that only moves forward, and no clause is found in an empty text:
`content/index.ts:2876-2912`; finitely many positions and bind calls).

`BridgeProofs`:

- `TypeCorrect`.
- `MapCorrect`: `MapMirrorsCoroutines` is not inductive alone. `MapInv` adds that a tab has one
  open port (or a disconnect, which drops the requests of the *tab*, would drop those of another
  port) and that a request that was sent was sent on a port that has been opened.
- `MarkersLive`, `OrphansGenuine`: `MarkerInv` joins them with what links a marker to the remove
  that its request still owes: the request's `saw` flag, which is true while the marker is its
  own. Without it, `Finish` could leave a marker behind.
- `OutputDisciplined`, `AbortsAnswered`: `AnswerInv` adds that CANCELs target requests of their
  own port's tab, that `tabClearFailed` implies a rejection, that `terminalSent` agrees with what
  was posted, and the shape of the output: nothing, tokens, one terminal event, or done followed
  by one error for an aborted request.
- `SoleMarked`: the marker of a tab whose only request `r` is being worked on names `r` (what makes a
  kill noticed). Who might take it away is a remove, and a remove is owed by somebody. `OwedInv`
  says by whom: a remove that a closed port left behind by an aborted request; what runs on
  without its port has been aborted; a CANCEL clears markers of its own tab only. `Sole(r)` is the
  property's hypothesis in terms of one request, and each step either keeps both, or makes
  `Sole(r)` true by setting the marker (`SoleNext`). `CancelSettles`, `CancelLoopLabel` and
  `CancelLoopOwes` say where one turn of the CANCEL loop leaves it.
- `KillSignalled`, what the markers are for: a kill that cuts the only request of a page short makes
  a signal `Due` to its tab, which stays due through the start of the next worker, and the reading of
  the markers, until a message of the tab gets the recovery error (`KillsAreSignalled`). The two
  exceptions are in its statement: another kill when the marker is gone already, and a storage that
  rejects the recovery. What "the only request" leaves out, two streams of a page, is the violation
  that `bridge_restart` finds. `SoleMarked` gives the step of the kill; `Quiet` and `DownIsStill` say
  that a dead worker does nothing until the next one starts.

`StreamProofs`:

- `BridgeKeepsContract`, the refinement. Each step of `Bridge` maps to an action of the contract or
  to a stutter: `Dispatch` to `Send`, `OrphanedRequest` to `Refuse`, a posting coroutine step to
  `Deliver` or `LateError`, a turn of the CANCEL loop to `Cancel`, `Disconnect` and `Crash` to
  `Shut`. `StreamInv` is what makes the mapping possible: `terminalSent` of a mapped request says
  whether its last event is an end (so the code's test of the flag is the contract's test of the
  output), a request in flight has no recovery error pending for its tab (so `orphan` never
  interrupts a live stream), and the target of a CANCEL is answered or out of the map (so the
  error of a failed CANCEL does not either).

`TokenRefreshProofs`:

- `RefreshTypeCorrect`, which says also that nothing is exchanged without a refresh token.
- `ExchangesAreSpaced`, through `LockInv`: while an exchange of a killed worker is younger than
  `MaxAge`, the lock is held and is no older than it. The code that reads the lock then waits. A lock
  that could not be removed does no harm to this.
- `RotationKeepsUp`: the successor of a spent token is in the answer in flight, or lost.
- `SignOutHolds`, `SessionsAreKept`, through `SessionInv` (what copies of a session may exist
  once it has met a refresh) and `OwnSession` (a refresh of one session cannot write another
  unless that sign-in met it).

`PromptHistoryProofs`: one inductive invariant, `ListInv`, says that the stored list *and every
list an operation has read* are good (finite, well typed, entries and stamps unique, at most `PinnedLimit`
pinned and both limits together). The second half is what makes it inductive: a write puts back
a list that was stored earlier, changed by one operation, so it is enough that each operation
takes a good list to a good one (`SaveIsGood`, `PinIsGood`, `PartIsGood`). `OldestExists` and
`LatestBound` are what the cap needs: among finitely many entries with distinct stamps, at most
`n` have fewer than `n` later ones.

- `HistoryTypeCorrect`, `UniqueEntries`, `PinLimit`, `BoundedHistory` from `ListInv`;
- `PinsSurvive`, the action property, from `ListInv` and `SaveKeepsPins`;
- `SavesHold`, what a save does to the list it has read, however old that is (`SaveOutcome`): its
  prompt is in front, and what is dropped was unpinned and older than every unpinned entry that is
  left. `KeptAreLatest` is the part of the cap in this, `SaveEffect` the whole.

`DraftTypeProofs`: `DraftTypeCorrect`. What is hard in it is `FreshRequestIsFree` and `FreshNumbers`,
that a fresh request id and a fresh object number exist, which is what `crypto.randomUUID` and the
allocation of an object give the code: `TypeInv` adds to `TypeOK` that the requests and the objects
are finitely many, and one more candidate than there are names in use leaves one free.

`DraftProofs`: one inductive invariant, `SessionInv`, which says of the active object
(`Session`), in parts that the lemmas of the actions keep one by one:

- `Reviewed`: unless `hasStaleAccepted` is set, each accepted clause was approved. `MigratedReview`
  is its heart: a migration that leaves the flag down has kept an acceptance only in front of the
  first difference, where the old and the new clause at that index are the same. It also needs the
  clauses of a draft to differ, or taking one acceptance back would leave its double.
- `Drafted`: a draft that is not dimmed, and the text that a debounce has read before its await,
  are the text of the input the debounce was set for (`source`): a page that replaces the input
  changes `input` alone.
- `Bound` and `CallsAreFresh`: the bind agrees with itself, and a `dispatchBindRequest` that still
  awaits on the *active* object was collected from the text that is still there, since an input
  event would have put another object in its place.
- `Wired`: a running request that the object names is of the kind it is named for, so that the
  end or the cancellation of one never hits another; and a running SEGMENT is of the object's draft,
  or the draft has been cleared since, and its answer finds nothing.
- `Heard` and `Answered`: what runs is named, and what is named runs on a live port. The last needs
  a second invariant, `DeadPortIsSilent`, for the moment at which `onDisconnect` forgets the
  expansions.

Two more invariants are about what a change of the object leaves behind:

- `CallsAreStopped`: a bind call that still awaits is on the active object, or was outlived (the
  exceptions of `BindsAreHeard`), or the gate of its object is shut for good (`Shut`): the object is
  marked stale, or its acceptances are empty and in a set that the active object does not share.
  Nothing unmarks an object that has been left, and a step changes the acceptances of another object
  only through the set it shares (`BoxKept`, `ShutStays`). `StoppedGate` draws the conclusion: a call
  that finds its gate open is outlived or its object is the active one.
- `StreamsHaveClauses`: each expansion that is streamed, but for the exceptions of `EnhancesAreHeard`,
  is named by the active object at the id of a clause in its draft. `Kept(o, n)` is what a change of
  the object owes to this (it names of the old expansions those whose clauses it has), and there is a
  lemma for each operation that changes a draft: migration, rendering, clearing, copying.

`SessionHolds` joins them (`DraftInv`), and the theorems are its parts: `GateApproved`, `BindAnswers`,
`BindPhase`, `Panel`, `BindsHeard`, `EnhancesHeard`, `EnhancesAnswered`, `FreshDraft`. They cover any
number of inputs, texts, clauses and overlapping Cmd+Enter; TLC covers two of each.

`RateLimitProofs`: one invariant, of the types and two parts. `CallInv` says what a call has behind it
(which quotas it has passed, and with which answers). `SpanInv` says that the calls counted in a key
since its day or window began had different answers of INCR, none greater than the counter, so that at
most `Limit` of them had one within the limit; and that a call that has been answered leaves an
expiry. A duplicated or late INCR only raises the counter.

- `QuotaTypeCorrect`, `AdmissionsBounded`, `ExpiryKept`, `AdmissionCounted`, for any number of calls,
  owners and tiers, any limits, windows and mixture of routes.

`BackendRoutesProofs`: one invariant of the types, the phases (what the stream, the rows and the
metadata can be at each `at`), the metadata and the recording of a bind.

- `RoutesTypeCorrect`, `MetadataTruthful`, `BindRecorded`, for any number of attempts and chunks;
- `RoutesKeepContract`, the refinement: `Accept` and `NoAdapter` map to `Open`, a write to `Say`, a
  departure to `Leave`, the end of the handler to `Close`, all else to a stutter. What `Close` asks is
  the heart of it: a handler that ends without a done or an error has seen one of the signals;
- `ClientsAreTold`, what a client may rely on, from the contract alone (`ContractKeepsEnd`): a done or
  an error is the last event it reads, a warning is the last or followed by a done only, and a client
  that stays to the end has read a done or an error;
- `NormalizedIsSound`, about no state at all: for a classification of any length, the recursion of
  `SegmentAnswer` computes what `IsSound` states without it; and `AnswersSound`, the invariant, from
  it and `RoutesTypeCorrect`. The induction theorems of the library take an operator, which the
  provers cannot instantiate. Here a fact is the *set* of the numbers it holds for: if it has 0
  and with each number the next, it has them all, or it would miss a smallest one (`Induction`).
  `Recursion` gives from this that the functions defined in a LET exist. `Walk`: the ids that the
  rounds of `hasPath` reach are closed under the dependencies, since there are as many rounds as ids
  and each adds one or is the last. Acyclic means that the ids have ranks, numbers that
  each dependency lowers; a candidate whose walk misses the section keeps the ranks when all that
  the walk has not reached is raised, and one whose walk hits it is `Blocked`: no ranks put it lower. An id
  that was dealt with (`Decided`) stays so, as dependencies are only added (`DecidedGrows`). One
  candidate (`KeepStep`), one section (`KeepAllSteps`) and all of them (`SanitizeSteps`) keep this.

Only model-checked: the liveness properties (`EveryRequestIsAnswered`, `MarkersAreCleared`,
`CallersAreAnswered`, `HeadersAreNotAwaitedForever`), since fairness is outside what the prover
handles; and the violations. Every invariant that a passing run checks is a theorem. Only proved:
`NormalizedIsSound`, `KillSignalled`, `SavesHold` and `ClientsAreTold`, which no run states.

## Not modelled

In the extension: validation of messages and senders, wording of errors and headers, the branch taken
when no backend URL was built in, the keepalive alarm, the fetch of the account status. In the content
script: which inputs are instrumented and which one resembles another (any may, in `Reattach`), the
order in which clauses were accepted, the overlay and its warnings, which change no state of the
session.

In the backend: the wire formats of the providers and the wording of errors; the 500s that no request
reaches (a model that does not match, an empty prompt, a user that is missing) and the configuration of
byok, which no route passes; `peekDailyFreeQuotaCount` and the routes that only read; the abuse signals,
which are log lines; the difference between the clocks of a server and of Redis; a provider that closes
its connection after the handler has finished. Two ways a classification is refused are simplified: a
label that is the name of a property of every object ("constructor") finds it in
`GOAL_TYPE_NORMALIZATION_MAP` (`segment.ts:244`) and ends in a 500, like a section that is blank
(modelled as `failed`), and the order of sections of one slot in a bind prompt is a `localeCompare`.
The 403 of the tier policies is modelled, but no tier of the default policies meets it.

Once its headers have come, a provider's answer has no timeout: a provider that falls silent holds the
handler for ever, the client's departure is noticed at its next event only, and no liveness is claimed
of that phase.

Without behaviour of their own, or sequential and pure: the type declarations, the design tokens, the
clause order of `packages/core` (a stable sort by a table), the page and the test harness. The
status and the reason of each are under `components` in `PROJECT.json`.

## Plan

1. *Done*: `Bridge`, its contract `RequestStream` and the refinement, `TokenRefresh`,
   `PromptHistory`, and their proofs: the parts every other one depends on.
2. *Done*: `DraftSession` and its proofs.
3. *Done*: `RateLimit` with the order of the middleware; `BackendRoutes` with `SegmentAnswer`, its
   contract `EventStream` and the refinement; their proofs.
4. *Done*: the page that takes the active input away, or replaces it, in `DraftSession`.
5. Left: a composition of `DraftSession` with
   `RequestStream` in place of the requests it keeps itself; a composition of `Bridge` with
   `EventStream` in place of its frames.

Each specification writes recursion as recursive functions (a RECURSIVE operator is out of the reach
of the provers), takes its bounds as constants, and comes with a run whose instance has the least
number of actors that can interfere.
