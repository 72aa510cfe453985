----------------------------- MODULE BackendRoutes -----------------------------
(***************************************************************************)
(* POST /segment, /enhance and /bind from the request body to the last     *)
(* byte of the answer: the route handlers, the provider adapters with      *)
(* their retries and timeout, the event stream to the client, the history  *)
(* row of a bind and the metadata of an enhance.  Requests share no state, *)
(* so there is one request; the client may go away, and the provider fail, *)
(* at any point of it.  The answer of the provider is a stream of its own, *)
(* with no timeout once its headers have come.                             *)
(***************************************************************************)
EXTENDS SegmentAnswer

CONSTANTS
  Tiers,        \* the tiers a request may be served at (x-force-groq: "free")
  MaxAttempts,  \* PROVIDER_RETRY_POLICY.maxAttempts
  MaxTokens,    \* bound of the model: text chunks of a provider's answer
  Answers,      \* classifications a provider may come up with
  Segments      \* the texts POST /segment was asked to classify

Kinds == {"segment", "enhance", "bind"}
StreamEvents == {"token", "warning", "done", "error"}
Providers == {"groq", "anthropic", "user"}

ASSUME BackendAssumption ==
  /\ MaxAttempts \in Nat \ {0}
  /\ MaxTokens \in Nat

(* What JSON of the right shape, and the body of the request, come to.       *)
ASSUME AnswersAssumption ==
  /\ \A classification \in Answers : classification \in Seq(Sections)
  /\ Segments \in Seq(STRING)

VARIABLES
  kind,       \* the route of the request
  model,      \* the provider of the model selected for it
  at,         \* what the handler waits for, "entry" before, "over" after
  attempt,    \* the attempts to reach the provider, this one included
  stop,       \* why this attempt is being aborted: "timeout", "abort"
  conn,       \* the body of the provider's answer: "none", "open", "closed"
  tokens,     \* text chunks read from it
  signal,     \* c.req.raw.signal.aborted
  cancelled,  \* streamAborted: the client has cancelled the event stream
  reply,      \* how the request is answered
  sent,       \* the events the client can read
  writing,    \* the event whose write the handler waits for
  captured,   \* the metadata events of an enhance
  rows,       \* enhancement_history rows of this request
  raw         \* the classification the answer to /segment is made from

request == <<kind, model>>
provider == <<attempt, stop, conn, tokens>>
client == <<signal, cancelled>>
answer == <<reply, sent, writing, captured, rows, raw>>
vars == <<kind, model, at, attempt, stop, conn, tokens, signal, cancelled,
          reply, sent, writing, captured, rows, raw>>

Left == signal \/ cancelled

(* No byok configuration is ever passed.                                    *)
ByokProvider == "user"

selectModel(callType, tier) ==
  IF callType = "segment" \/ tier = "free" THEN "groq"
  ELSE IF tier = "pro" THEN "anthropic"
  ELSE IF tier = "byok" THEN ByokProvider
  ELSE "groq"

HasAdapter == model \in {"groq", "anthropic"}

Init ==
  /\ kind \in Kinds
  /\ \E tier \in Tiers : model = selectModel(kind, tier)
  /\ at = "entry"
  /\ attempt = 0
  /\ stop = "none"
  /\ conn = "none"
  /\ tokens = 0
  /\ signal = FALSE
  /\ cancelled = FALSE
  /\ reply = "none"
  /\ sent = <<>>
  /\ writing = "none"
  /\ captured = <<>>
  /\ rows = 0
  /\ raw = <<>>

-------------------------------------------------------------------------------
(* The handlers.                                                            *)

Terminal == {"done", "error", "abort"}

HasTerminal == \E n \in DOMAIN captured : captured[n] \in Terminal

(* Mutant: terminalMetadataCaptured is not looked at.                       *)
CaptureAgain(e) == captured' = IF kind = "enhance" THEN Append(captured, e) ELSE captured

(* captureTerminalMetadata, only the first time.                            *)
Capture(e) ==
  captured' = IF kind = "enhance" /\ ~HasTerminal THEN Append(captured, e) ELSE captured

(* stream.writeSSE: what is written to a cancelled stream is lost.  The     *)
(* handler goes on when the client has taken the event, or cancelled.       *)
Write(e) ==
  /\ at' = "write"
  /\ writing' = e
  /\ sent' = IF cancelled THEN sent ELSE Append(sent, e)

(* The request is answered as JSON.                                         *)
Answer(result, classification) ==
  /\ at' = "over"
  /\ reply' = result
  /\ raw' = classification
  /\ UNCHANGED <<sent, writing, captured, rows>>

(* An invalid body, or nothing left of it after trimming.                   *)
Refuse ==
  /\ at = "entry"
  /\ Answer("invalid", <<>>)
  /\ UNCHANGED <<request, provider, client>>

(* No adapter: a bind is refused, an enhance is told so on a stream.        *)
BindUnsupported ==
  /\ kind = "bind"
  /\ Answer("unsupported", <<>>)

EnhanceUnsupported ==
  /\ kind = "enhance"
  /\ reply' = "stream"
  /\ captured' = <<"start", "error">>
  /\ Write("error")
  /\ UNCHANGED <<rows, raw>>

NoAdapter ==
  /\ at = "entry"
  /\ ~HasAdapter
  /\ BindUnsupported \/ EnhanceUnsupported
  /\ UNCHANGED <<request, provider, client>>

(* The classifier listens to the adapter; the other two open the stream to  *)
(* the client first.                                                        *)
AcceptSegment ==
  /\ kind = "segment"
  /\ UNCHANGED answer

AcceptEnhance ==
  /\ kind = "enhance"
  /\ reply' = "stream"
  /\ captured' = <<"start">>
  /\ UNCHANGED <<sent, writing, rows, raw>>

AcceptBind ==
  /\ kind = "bind"
  /\ reply' = "stream"
  /\ UNCHANGED <<sent, writing, captured, rows, raw>>

Accept ==
  /\ at = "entry"
  /\ HasAdapter
  /\ at' = "open"
  /\ AcceptSegment \/ AcceptEnhance \/ AcceptBind
  /\ UNCHANGED <<request, provider, client>>

(* The client has left, or PROVIDER_ABORTED: nothing more is written.       *)
Drop ==
  /\ at' = "over"
  /\ Capture("abort")
  /\ UNCHANGED <<reply, sent, writing, rows, raw>>

(* The classification is normalised and checked against the schema.         *)
AnswerSegment(classification) ==
  Answer(IF MatchesSchema(classification) THEN "json" ELSE "failed",
         classification)

(* Whatever goes wrong with the classifier, each text becomes a section.    *)
Unclassified ==
  /\ kind = "segment"
  /\ AnswerSegment(FallbackFor(Segments))

(* What the classifier wrote is JSON of the right shape; it is none when it *)
(* wrote nothing.                                                           *)
Classified ==
  /\ kind = "segment"
  /\ tokens > 0
  /\ \E classification \in Answers : AnswerSegment(classification)

(* aggregateStreamingTokensToString goes on to the next event.              *)
Aggregate ==
  /\ kind = "segment"
  /\ at' = "read"
  /\ UNCHANGED answer

(* What the handler does with each event of the adapter.  Each is preceded  *)
(* by a look at streamAborted and abortSignal, except by the classifier.    *)
HearError ==
  \/ Unclassified
  \/ kind # "segment" /\ Left /\ Drop
  \/ /\ kind # "segment"
     /\ ~Left
     /\ Write("error")
     /\ Capture("error")
     /\ UNCHANGED <<reply, rows, raw>>

HearAborted ==
  \/ Unclassified
  \/ kind # "segment" /\ Drop

HearToken ==
  \/ Aggregate
  \/ kind # "segment" /\ Left /\ Drop
  \/ /\ kind # "segment"
     /\ ~Left
     /\ Write("token")
     /\ UNCHANGED <<reply, captured, rows, raw>>

HearDone ==
  \/ Unclassified
  \/ Classified
  \/ kind # "segment" /\ Left /\ Drop
  \/ /\ kind = "enhance"
     /\ ~Left
     /\ Write("done")
     /\ UNCHANGED <<reply, captured, rows, raw>>
  \/ /\ kind = "bind"
     /\ ~Left
     /\ at' = "record"
     /\ UNCHANGED answer

(* A write has completed.                                                   *)
Written ==
  /\ at = "write"
  /\ \/ /\ writing = "token"
        /\ at' = "read"
        /\ UNCHANGED <<sent, writing, captured>>
     \/ /\ writing = "warning"
        /\ Write("done")
        /\ UNCHANGED captured
     \/ /\ writing \in {"done", "error"}
        /\ at' = "over"
        /\ IF writing = "done" THEN Capture("done") ELSE UNCHANGED captured
        /\ UNCHANGED <<sent, writing>>
  /\ UNCHANGED <<request, provider, client, reply, rows, raw>>

(* Mutant: a history row that cannot be written is not mentioned.           *)
RecordSilently ==
  /\ at = "record"
  /\ rows' \in {rows, rows + 1}
  /\ Write("done")
  /\ UNCHANGED <<request, provider, client, reply, captured, raw>>

(* An insert that failed may have been made.                                *)
recordEnhancementHistory(succeeds) ==
  IF succeeds THEN rows' = rows + 1 ELSE rows' \in {rows, rows + 1}

(* The signals are not looked at again.                                     *)
Record ==
  /\ at = "record"
  /\ \/ recordEnhancementHistory(TRUE) /\ Write("done")
     \/ recordEnhancementHistory(FALSE) /\ Write("warning")
  /\ UNCHANGED <<request, provider, client, reply, captured, raw>>

-------------------------------------------------------------------------------
(* The adapter: fetchProviderStreamResponse.                                *)

Try(n) ==
  /\ at' = "fetch"
  /\ attempt' = n
  /\ stop' = IF signal THEN "abort" ELSE "none"

NoKey ==
  /\ at = "open"
  /\ HearError
  /\ UNCHANGED <<request, provider, client>>

FirstAttempt ==
  /\ at = "open"
  /\ Try(1)
  /\ UNCHANGED <<request, client, conn, tokens, answer>>

(* The timer of the attempt fires.                                          *)
TimeOut ==
  /\ at = "fetch"
  /\ stop # "timeout"
  /\ stop' = "timeout"
  /\ UNCHANGED <<request, client, at, attempt, conn, tokens, answer>>

(* Mutant: the limit of attempts is not looked at.                          *)
RetryForever ==
  /\ at' = "sleep"
  /\ UNCHANGED answer

(* retryWithBackoff, after an error that may be retried.                    *)
RetryOrGiveUp ==
  \/ /\ attempt < MaxAttempts
     /\ at' = "sleep"
     /\ UNCHANGED answer
  \/ /\ attempt = MaxAttempts
     /\ HearError

(* Mutant: every abort of the request is taken for one by the client.       *)
FetchAbortedByClient ==
  /\ at = "fetch"
  /\ stop # "none"
  /\ HearAborted
  /\ UNCHANGED <<request, provider, client>>

(* The aborted fetch rejects; the timeout takes precedence.                 *)
FetchAborted ==
  /\ at = "fetch"
  /\ \/ stop = "timeout" /\ RetryOrGiveUp
     \/ stop = "abort" /\ HearAborted
  /\ UNCHANGED <<request, provider, client>>

(* The provider refuses, the connection fails, or there is no body.         *)
FetchFails ==
  /\ at = "fetch"
  /\ stop = "none"
  /\ RetryOrGiveUp \/ HearError
  /\ UNCHANGED <<request, provider, client>>

(* The headers are here: the timer and the abort listener are removed.      *)
FetchAnswers ==
  /\ at = "fetch"
  /\ stop = "none"
  /\ at' = "read"
  /\ conn' = "open"
  /\ UNCHANGED <<request, client, attempt, stop, tokens, answer>>

(* Mutant: the attempts are not counted.                                    *)
WakeUncounted ==
  /\ at = "sleep"
  /\ Try(attempt)
  /\ UNCHANGED <<request, client, conn, tokens, answer>>

(* The backoff is over, aborted or not.                                     *)
Wake ==
  /\ at = "sleep"
  /\ Try(attempt + 1)
  /\ UNCHANGED <<request, client, conn, tokens, answer>>

(* The body: a chunk of text.                                               *)
ReadToken ==
  /\ at = "read"
  /\ conn = "open"
  /\ tokens < MaxTokens
  /\ tokens' = tokens + 1
  /\ HearToken
  /\ UNCHANGED <<request, client, attempt, stop, conn>>

(* [DONE], a finish_reason or a message_stop: the body is not read on.      *)
ReadDone ==
  /\ at = "read"
  /\ conn = "open"
  /\ HearDone
  /\ UNCHANGED <<request, provider, client>>

(* The body ends without one: this counts as done.                          *)
ReadEnd ==
  /\ at = "read"
  /\ conn = "open"
  /\ conn' = "closed"
  /\ HearDone
  /\ UNCHANGED <<request, client, attempt, stop, tokens>>

(* Once the headers are here an error is passed on, never retried: a chunk  *)
(* that is malformed, an error that Anthropic reports, a broken connection. *)
ReadMalformed ==
  /\ at = "read"
  /\ conn = "open"
  /\ HearError
  /\ UNCHANGED <<request, provider, client>>

ReadReported ==
  /\ model = "anthropic"
  /\ at = "read"
  /\ conn = "open"
  /\ HearError
  /\ UNCHANGED <<request, provider, client>>

ReadBroken ==
  /\ at = "read"
  /\ conn = "open"
  /\ conn' = "closed"
  /\ HearError
  /\ UNCHANGED <<request, client, attempt, stop, tokens>>

-------------------------------------------------------------------------------
(* The client.                                                              *)

(* c.req.raw.signal aborts: a fetch that is under way is aborted.           *)
SignalAborts ==
  /\ ~signal
  /\ signal' = TRUE
  /\ stop' = IF at = "fetch" /\ stop = "none" THEN "abort" ELSE stop
  /\ UNCHANGED <<request, at, attempt, conn, tokens, cancelled, answer>>

(* The event stream is cancelled: onAbort.                                  *)
StreamCancelled ==
  /\ reply = "stream"
  /\ ~cancelled
  /\ cancelled' = TRUE
  /\ IF HasAdapter THEN Capture("abort") ELSE UNCHANGED captured
  /\ UNCHANGED <<request, provider, at, signal, reply, sent, writing, rows, raw>>

(* The handler has finished; only the client may still go away.             *)
Finished ==
  /\ at = "over"
  /\ UNCHANGED vars

Next ==
  \/ Refuse \/ NoAdapter \/ Accept \/ Written \/ Record
  \/ NoKey \/ FirstAttempt
  \/ TimeOut \/ FetchAborted \/ FetchFails \/ FetchAnswers \/ Wake
  \/ ReadToken \/ ReadDone \/ ReadEnd
  \/ ReadMalformed \/ ReadReported \/ ReadBroken
  \/ SignalAborts \/ StreamCancelled
  \/ Finished

(* Timers fire, an aborted fetch rejects.  Nothing is assumed of the        *)
(* provider, the database and the client.                                   *)
Spec ==
  /\ Init /\ [][Next]_vars
  /\ WF_vars(TimeOut) /\ WF_vars(FetchAborted) /\ WF_vars(Wake)

-------------------------------------------------------------------------------
(* Properties.                                                              *)

TypeOK ==
  /\ kind \in Kinds
  /\ model \in Providers
  /\ kind = "segment" => model = "groq"
  /\ at \in {"entry", "open", "fetch", "sleep", "read", "write", "record", "over"}
  /\ attempt \in 0..MaxAttempts
  /\ stop \in {"none", "timeout", "abort"}
  /\ conn \in {"none", "open", "closed"}
  /\ tokens \in 0..MaxTokens
  /\ signal \in BOOLEAN
  /\ cancelled \in BOOLEAN
  /\ reply \in {"none", "stream", "json", "invalid", "unsupported", "failed"}
  /\ sent \in Seq(StreamEvents)
  /\ writing \in StreamEvents \cup {"none"}
  /\ captured \in Seq({"start"} \cup Terminal)
  /\ rows \in 0..1
  /\ raw \in Seq(Sections)
  /\ raw # <<>> => kind = "segment" /\ reply \in {"json", "failed"}

LastOf(s) == s[Len(s)]

(* An enhance that is over has one "start" and one terminal event in its    *)
(* metadata, and that event tells what the client was told: "done" and      *)
(* "error" are the last event of the stream, "abort" means the client left. *)
MetadataAgrees ==
  /\ kind = "enhance" /\ reply = "stream" =>
       /\ captured # <<>> /\ captured[1] = "start"
       /\ \A n \in DOMAIN captured : captured[n] \in Terminal => n = 2 /\ Len(captured) = 2
       /\ at = "over" => HasTerminal
  /\ HasTerminal =>
       IF LastOf(captured) = "abort"
       THEN Left
       ELSE sent # <<>> /\ LastOf(sent) = LastOf(captured)

(* A client that reads the done of a bind has its prompt in the history, or *)
(* has been warned; a bind is recorded once at most, and never one that     *)
(* failed or whose generation had not ended.                                *)
DoneMeansRecorded ==
  kind = "bind" =>
    /\ sent # <<>> /\ LastOf(sent) = "done" =>
         rows = 1 \/ \E n \in DOMAIN sent : sent[n] = "warning"
    /\ rows = 1 => /\ conn # "none"
                   /\ \A n \in DOMAIN sent : sent[n] # "error"
                   /\ writing \in {"warning", "done"}

(* The dependencies a classification comes back with have no cycle, no      *)
(* duplicate and no unknown section, and only those that would close a      *)
(* cycle are missing; whatever the provider has made up.                    *)
AnswersAreAcyclic == reply = "json" => IsSound(raw, Normalized(raw))

(* The stream of events keeps the promise of EventStream.                   *)
Promise == INSTANCE EventStream WITH
  streaming <- reply = "stream",
  left <- Left,
  over <- at = "over"
StreamContract == Promise!Spec

(* However often it is retried, the wait for a provider's headers ends,     *)
(* although the provider never answers and the client may have left.        *)
HeadersAreNotAwaitedForever == at = "fetch" ~> at \notin {"fetch", "sleep"}

(* A handler that ends because its client has left does not leave the       *)
(* provider's answer open (v1_overarching_plan.md: "Abort releases          *)
(* provider/network resources.").                                           *)
AbortReleasesProvider ==
  at = "over" /\ reply = "stream" /\ Left /\ ~Promise!Ended => conn # "open"
===============================================================================
