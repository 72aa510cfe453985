-------------------------- MODULE BackendRoutesProofs --------------------------
(* Proofs about BackendRoutes, for any number of attempts, any answers of    *)
(* the provider and any tiers.                                               *)
EXTENDS BackendRoutes, SequenceTheorems, FiniteSetTheorems, WellFoundedInduction, TLAPS

TokensOnly(s) == \A n \in DOMAIN s : s[n] = "token"
EndsWith(s, e) == s # <<>> /\ LastOf(s) = e
Has(s, e) == \E n \in DOMAIN s : s[n] = e

Streamed == reply = "stream"

(* Where the handler is, and what it has told the client by then.            *)
Phases ==
  /\ at = "entry" => reply = "none"
  /\ at \notin {"entry", "over"} => (Streamed <=> kind # "segment") /\ (~Streamed => reply = "none")
  /\ at \in {"write", "record"} => kind # "segment"
  /\ at = "record" => kind = "bind"
  /\ kind = "segment" => ~Streamed
  /\ cancelled => Streamed
  /\ at \in {"entry", "open", "fetch", "sleep", "read", "record"} => TokensOnly(sent)
  /\ ~Streamed => sent = <<>>
  /\ at = "write" /\ writing = "token" => TokensOnly(sent) /\ conn = "open"
  /\ at = "write" /\ writing = "warning" => kind = "bind" /\ (cancelled \/ EndsWith(sent, "warning"))
  /\ at = "write" /\ writing \in {"done", "error"} => cancelled \/ EndsWith(sent, writing)
  /\ at = "write" => writing # "none"
  /\ at = "over" /\ Streamed => Left \/ EndsWith(sent, "done") \/ EndsWith(sent, "error")
  /\ at = "fetch" /\ stop = "abort" => signal
  /\ at \in {"fetch", "sleep"} => attempt > 0
  /\ at = "sleep" => attempt < MaxAttempts
  /\ at \in {"read", "record"} => conn # "none"
  /\ at \in {"entry", "write", "over"} \/ HasAdapter
  /\ at = "write" /\ writing # "error" => HasAdapter

(* The metadata of an enhance, and the last event it goes with.              *)
Metadata ==
  /\ ~(kind = "enhance" /\ Streamed) => captured = <<>>
  /\ kind = "enhance" /\ Streamed =>
       /\ \/ captured = <<"start">> \/ captured = <<"start", "done">>
          \/ captured = <<"start", "error">> \/ captured = <<"start", "abort">>
       /\ at = "over" => captured # <<"start">>
       /\ at = "write" => writing # "warning"
       /\ at = "write" /\ writing \in {"done", "error"} => EndsWith(sent, writing)
       /\ at = "write" /\ writing = "error" => captured # <<"start">>
       /\ captured = <<"start", "abort">> => Left
       /\ captured = <<"start", "error">> =>
            EndsWith(sent, "error") /\ (at = "over" \/ (at = "write" /\ writing = "error"))
       /\ captured = <<"start", "done">> => EndsWith(sent, "done") /\ at = "over"

(* The history row of a bind.                                                *)
Recording ==
  kind = "bind" =>
    /\ EndsWith(sent, "done") => rows = 1 \/ Has(sent, "warning")
    /\ rows = 1 => /\ conn # "none" /\ ~Has(sent, "error")
                   /\ at \in {"write", "over"} /\ writing \in {"warning", "done"}

Inv == TypeOK /\ Phases /\ Metadata /\ Recording

USE BackendAssumption

LEMMA Events ==
  ASSUME NEW s \in Seq(StreamEvents), NEW e \in StreamEvents
  PROVE  /\ Append(s, e) \in Seq(StreamEvents)
         /\ EndsWith(Append(s, e), e)
         /\ \A f : EndsWith(Append(s, e), f) => f = e
         /\ TokensOnly(s) /\ e = "token" => TokensOnly(Append(s, e))
         /\ \A f : Has(Append(s, e), f) <=> Has(s, f) \/ e = f
<1>1. /\ Append(s, e) \in Seq(StreamEvents) /\ Len(Append(s, e)) = Len(s) + 1
      /\ Append(s, e)[Len(s) + 1] = e /\ \A n \in 1..Len(s) : Append(s, e)[n] = s[n]
      /\ DOMAIN s = 1..Len(s) /\ DOMAIN Append(s, e) = 1..(Len(s) + 1) /\ Len(s) \in Nat
  OBVIOUS
<1>2. Append(s, e) # <<>> /\ LastOf(Append(s, e)) = e
  BY <1>1 DEF LastOf
<1>3. TokensOnly(s) /\ e = "token" => TokensOnly(Append(s, e))
  BY <1>1 DEF TokensOnly
<1>4. \A f : Has(Append(s, e), f) <=> Has(s, f) \/ e = f
  BY <1>1 DEF Has
<1> QED BY <1>1, <1>2, <1>3, <1>4 DEF EndsWith

LEMMA LastIsThere ==
  ASSUME NEW s \in Seq(StreamEvents), NEW e, EndsWith(s, e)
  PROVE  Has(s, e) /\ \A f : EndsWith(s, f) => f = e
<1>1. Len(s) \in DOMAIN s
  BY DEF EndsWith
<1> QED BY <1>1 DEF Has, EndsWith, LastOf

LEMMA OnlyTokens ==
  ASSUME NEW s \in Seq(StreamEvents), TokensOnly(s), NEW e, e # "token"
  PROVE  ~Has(s, e) /\ ~EndsWith(s, e)
<1>1. ~Has(s, e)
  BY DEF TokensOnly, Has
<1> QED BY <1>1, LastIsThere

LEMMA NothingSent == TokensOnly(<<>>) /\ \A e : ~Has(<<>>, e) /\ ~EndsWith(<<>>, e)
BY DEF TokensOnly, Has, EndsWith

LEMMA Started ==
  ASSUME NEW e
  PROVE  Append(<<"start">>, e) = <<"start", e>> /\ <<"start", e>> # <<"start">>
<1> DEFINE S == {"start", e}
           long == Append(<<"start">>, e)
           pair == <<"start", e>>
<1>1. /\ long \in Seq(S) /\ Len(long) = 2
      /\ long[1] = "start" /\ long[2] = e
      /\ pair \in Seq(S) /\ Len(pair) = 2
      /\ pair[1] = "start" /\ pair[2] = e
      /\ Len(<<"start">>) = 1
  OBVIOUS
<1> HIDE DEF S, long, pair
<1>2. \A n \in 1..Len(long) : long[n] = pair[n]
  BY <1>1
<1>3. long = pair
  BY <1>1, <1>2, SeqEqual
<1> QED BY <1>1, <1>3 DEF long, pair

LEMMA Pairs ==
  /\ <<"start", "done">> # <<"start", "error">>
  /\ <<"start", "done">> # <<"start", "abort">>
  /\ <<"start", "error">> # <<"start", "abort">>
  /\ \A e \in Terminal : <<"start", e>> # <<"start">> /\ <<"start", e>> # <<>>
  /\ <<"start">> # <<>>
<1>1. \A e \in Terminal : <<"start", e>> # <<"start">> /\ <<"start", e>> # <<>>
  BY Started
<1> QED BY <1>1

LEMMA CaptureTypes ==
  /\ <<>> \in Seq({"start"} \cup Terminal)
  /\ <<"start">> \in Seq({"start"} \cup Terminal)
  /\ \A e \in Terminal : <<"start", e>> \in Seq({"start"} \cup Terminal)
OBVIOUS

LEMMA Captures ==
  ASSUME NEW e \in Terminal, Capture(e), Metadata
  PROVE  /\ kind # "enhance" => captured' = captured
         /\ kind = "enhance" /\ Streamed /\ captured = <<"start">> => captured' = <<"start", e>>
         /\ kind = "enhance" /\ Streamed /\ captured # <<"start">> => captured' = captured
<1>1. captured = <<"start">> => ~HasTerminal
  BY DEF HasTerminal, Terminal
<1>2. ASSUME NEW f \in Terminal, captured = <<"start", f>> PROVE HasTerminal
  <2>1. 2 \in DOMAIN captured /\ captured[2] = f
    BY <1>2
  <2> QED BY <2>1 DEF HasTerminal
<1> QED BY <1>1, <1>2, Started DEF Capture, Metadata, Terminal

LEMMA InitInv == Init => Inv
<1> SUFFICES ASSUME Init PROVE Inv
  OBVIOUS
<1>1. TypeOK
  <2>1. model \in Providers /\ (kind = "segment" => model = "groq")
    BY DEF Init, Providers, selectModel, ByokProvider
  <2>2. sent \in Seq(StreamEvents) /\ captured \in Seq({"start"} \cup Terminal)
    BY DEF Init
  <2>3. attempt \in 0..MaxAttempts /\ tokens \in 0..MaxTokens /\ rows \in 0..1
    BY DEF Init
  <2>4. raw \in Seq(Sections)
    BY DEF Init
  <2> QED BY <2>1, <2>2, <2>3, <2>4 DEF Init, TypeOK, Kinds
<1>2. Phases /\ Metadata /\ Recording
  BY DEF Init, Phases, Metadata, Recording, TokensOnly, EndsWith, Has, Streamed
<1> QED BY <1>1, <1>2 DEF Inv

Listening == at \in {"open", "fetch", "sleep", "read"}

(* What a step of the handler takes over from the action it belongs to.      *)
Settled ==
  /\ UNCHANGED <<request, client>>
  /\ attempt' \in 0..MaxAttempts /\ stop' \in {"none", "timeout", "abort"}
  /\ conn' \in {"none", "open", "closed"} /\ tokens' \in 0..MaxTokens
  /\ conn # "none" => conn' # "none"

LEMMA WhileListening ==
  ASSUME Inv, Listening
  PROVE  /\ TokensOnly(sent) /\ sent \in Seq(StreamEvents)
         /\ kind # "segment" <=> Streamed
         /\ kind = "segment" => reply = "none"
         /\ kind # "enhance" => captured = <<>>
         /\ kind = "enhance" => captured = <<"start">> \/ (captured = <<"start", "abort">> /\ Left)
         /\ kind = "bind" => rows = 0
         /\ HasAdapter
<1>1. /\ TokensOnly(sent) /\ sent \in Seq(StreamEvents) /\ HasAdapter
      /\ kind # "segment" <=> Streamed
      /\ kind = "segment" => reply = "none"
  BY DEF Inv, TypeOK, Phases, Listening
<1>2. /\ kind # "enhance" => captured = <<>>
      /\ kind = "enhance" => captured = <<"start">> \/ (captured = <<"start", "abort">> /\ Left)
  BY <1>1, Pairs DEF Inv, Metadata, Listening, Terminal
<1>3. kind = "bind" => rows = 0
  BY DEF Inv, TypeOK, Recording, Listening
<1> QED BY <1>1, <1>2, <1>3

LEMMA DropStep ==
  ASSUME Inv, Settled, Listening, Drop, kind # "segment", Left
  PROVE  Inv'
<1>1. /\ kind' = kind /\ model' = model /\ signal' = signal /\ cancelled' = cancelled
      /\ sent' = sent /\ reply' = reply /\ rows' = rows /\ raw' = raw /\ writing' = writing
      /\ at' = "over" /\ Left' /\ Streamed /\ Streamed'
  BY WhileListening DEF Settled, Drop, request, client, Left, Streamed
<1>2. /\ kind # "enhance" => captured' = <<>>
      /\ kind = "enhance" => captured' = <<"start", "abort">>
  BY WhileListening, Captures, <1>1 DEF Drop, Inv, Terminal
<1>3. TypeOK'
  <2>1. captured' \in Seq({"start"} \cup Terminal)
    BY <1>2, CaptureTypes DEF Terminal
  <2> QED BY <1>1, <2>1 DEF Inv, TypeOK, Settled
<1>4. Phases'
  BY <1>1 DEF Inv, Phases, Streamed
<1>5. Metadata'
  BY <1>1, <1>2, Pairs DEF Metadata, Terminal, Streamed
<1>6. Recording'
  BY <1>1, WhileListening, OnlyTokens DEF Recording
<1> QED BY <1>3, <1>4, <1>5, <1>6 DEF Inv

LEMMA FallbackType == FallbackFor(Segments) \in Seq(Sections)
<1>1. ASSUME NEW n \in DOMAIN Segments
      PROVE  [text |-> Segments[n], label |-> {"context"}, deps |-> <<>>] \in Sections
  <2>1. Segments[n] \in STRING
    BY AnswersAssumption
  <2>2. "context" \in Words /\ <<>> \in Seq(Int)
    <3>1. SlotOrder[1] = "context" /\ 1 \in DOMAIN SlotOrder
      BY DEF SlotOrder
    <3>2. QED
      BY <3>1 DEF Words, GoalTypes
  <2>3. QED
    BY <2>1, <2>2 DEF Sections
<1>2. DOMAIN Segments = 1..Len(Segments) /\ Len(Segments) \in Nat
  BY AnswersAssumption
<1> HIDE DEF Sections
<1>3. FallbackFor(Segments) \in [1..Len(Segments) -> Sections]
  BY <1>1, <1>2 DEF FallbackFor
<1>4. QED
  BY <1>2, <1>3

LEMMA SegmentStep ==
  ASSUME Inv, Settled, Listening, NEW x \in Seq(Sections), AnswerSegment(x), kind = "segment"
  PROVE  Inv'
<1>1. /\ kind' = kind /\ model' = model /\ signal' = signal /\ cancelled' = cancelled
      /\ sent' = sent /\ rows' = rows /\ writing' = writing /\ captured' = captured
      /\ at' = "over" /\ reply' \in {"json", "failed"} /\ ~Streamed /\ ~Streamed' /\ raw' = x
  BY WhileListening DEF Settled, AnswerSegment, Answer, request, client, Streamed
<1>2. TypeOK'
  BY <1>1 DEF Inv, TypeOK, Settled
<1>3. Phases'
  BY <1>1 DEF Inv, Phases
<1>4. Metadata' /\ Recording'
  BY <1>1, WhileListening DEF Metadata, Recording
<1> QED BY <1>2, <1>3, <1>4 DEF Inv

(* An event is written while the client is there.                            *)
LEMMA WriteStep ==
  ASSUME Inv, Settled, Listening, kind # "segment", ~Left, UNCHANGED <<reply, rows, raw>>,
         NEW e \in {"token", "done", "error"}, Write(e),
         e = "token" => conn' = "open" /\ captured' = captured,
         e = "done" => kind = "enhance" /\ captured' = captured,
         e = "error" => Capture("error")
  PROVE  Inv'
<1>1. /\ kind' = kind /\ model' = model /\ signal' = signal /\ cancelled' = cancelled
      /\ sent' = Append(sent, e) /\ reply' = reply /\ rows' = rows /\ raw' = raw
      /\ at' = "write" /\ writing' = e /\ Streamed /\ Streamed' /\ ~Left' /\ ~cancelled
      /\ HasAdapter'
  BY WhileListening DEF Settled, Write, request, client, Left, Streamed, HasAdapter
<1>2. /\ kind # "enhance" => captured' = <<>>
      /\ kind = "enhance" /\ e # "error" => captured' = <<"start">>
      /\ kind = "enhance" /\ e = "error" => captured' = <<"start", "error">>
  BY WhileListening, Captures, <1>1 DEF Inv, Terminal
<1>3. /\ sent' \in Seq(StreamEvents) /\ EndsWith(sent', e)
      /\ e = "token" => TokensOnly(sent')
      /\ \A f : EndsWith(sent', f) => f = e
  BY <1>1, WhileListening, Events DEF StreamEvents
<1>4. TypeOK'
  <2>1. captured' \in Seq({"start"} \cup Terminal)
    BY <1>2, CaptureTypes DEF Terminal
  <2> QED BY <1>1, <1>3, <2>1 DEF Inv, TypeOK, Settled, StreamEvents
<1>5. Phases'
  BY <1>1, <1>3 DEF Inv, Phases
<1>6. Metadata'
  BY <1>1, <1>2, <1>3, Pairs DEF Metadata, Terminal
<1>7. Recording'
  BY <1>1, <1>3, WhileListening DEF Recording
<1> QED BY <1>4, <1>5, <1>6, <1>7 DEF Inv

LEMMA ErrorStep ==
  ASSUME Inv, Settled, Listening, HearError
  PROVE  Inv'
<1>1. CASE kind = "segment" /\ AnswerSegment(FallbackFor(Segments))
  BY <1>1, SegmentStep, FallbackType
<1>2. CASE kind # "segment" /\ Left /\ Drop
  BY <1>2, DropStep
<1>3. CASE kind # "segment" /\ ~Left /\ Write("error") /\ Capture("error")
           /\ UNCHANGED <<reply, rows, raw>>
  BY <1>3, WriteStep
<1> QED BY <1>1, <1>2, <1>3 DEF HearError, Unclassified

LEMMA TokenStep ==
  ASSUME Inv, Settled, at = "read", conn' = "open", HearToken
  PROVE  Inv'
<1>0. Listening
  BY DEF Listening
<1>1. CASE kind = "segment" /\ at' = "read" /\ UNCHANGED answer
  <2>1. /\ kind' = kind /\ model' = model /\ signal' = signal /\ cancelled' = cancelled
        /\ sent' = sent /\ rows' = rows /\ writing' = writing /\ captured' = captured
        /\ at' = "read" /\ reply' = reply /\ raw' = raw
    BY <1>1 DEF Settled, request, client, answer
  <2>2. TypeOK'
    BY <2>1 DEF Inv, TypeOK, Settled
  <2>3. Phases'
    BY <2>1, <1>0 DEF Inv, Phases, Streamed, HasAdapter
  <2>4. Metadata' /\ Recording'
    BY <1>0, <1>1, <2>1, WhileListening DEF Metadata, Recording
  <2> QED BY <2>2, <2>3, <2>4 DEF Inv
<1>2. CASE kind # "segment" /\ Left /\ Drop
  BY <1>0, <1>2, DropStep
<1>3. CASE kind # "segment" /\ ~Left /\ Write("token") /\ UNCHANGED <<reply, captured, rows, raw>>
  BY <1>0, <1>3, WriteStep
<1> QED BY <1>1, <1>2, <1>3 DEF HearToken, Aggregate

LEMMA DoneStep ==
  ASSUME Inv, Settled, at = "read", HearDone
  PROVE  Inv'
<1>0. Listening
  BY DEF Listening
<1>1. CASE /\ kind = "segment"
           /\ \E x \in Answers \cup {FallbackFor(Segments)} : AnswerSegment(x)
  <2>0. kind = "segment"
    BY <1>1
  <2>1. ASSUME NEW x \in Seq(Sections), AnswerSegment(x) PROVE Inv'
    BY <1>0, <2>0, <2>1, SegmentStep
  <2>2. Answers \cup {FallbackFor(Segments)} \subseteq Seq(Sections)
    BY AnswersAssumption, FallbackType
  <2> QED BY <1>1, <2>1, <2>2
<1>2. CASE kind # "segment" /\ Left /\ Drop
  BY <1>0, <1>2, DropStep
<1>3. CASE kind = "enhance" /\ ~Left /\ Write("done") /\ UNCHANGED <<reply, captured, rows, raw>>
  BY <1>0, <1>3, WriteStep
<1>4. CASE kind = "bind" /\ ~Left /\ at' = "record" /\ UNCHANGED answer
  <2>1. /\ kind' = kind /\ model' = model /\ signal' = signal /\ cancelled' = cancelled
        /\ sent' = sent /\ rows' = rows /\ writing' = writing /\ captured' = captured
        /\ at' = "record" /\ reply' = reply /\ raw' = raw /\ conn' # "none"
    BY <1>4 DEF Settled, request, client, answer, Inv, Phases
  <2>2. TypeOK'
    BY <2>1 DEF Inv, TypeOK, Settled
  <2>3. Phases'
    BY <1>4, <2>1 DEF Inv, Phases, Streamed, HasAdapter
  <2>4. Metadata' /\ Recording'
    BY <1>0, <1>4, <2>1, WhileListening, OnlyTokens DEF Metadata, Recording
  <2> QED BY <2>2, <2>3, <2>4 DEF Inv
<1> QED BY <1>1, <1>2, <1>3, <1>4 DEF HearDone, Unclassified, Classified
-----------------------------------------------------------------------------
(* The adapter and the other actions.                                        *)

LEMMA RefuseStep == Inv /\ (Refuse \/ NoAdapter) => Inv'
<1> SUFFICES ASSUME Inv, Refuse \/ NoAdapter PROVE Inv'
  OBVIOUS
<1>0. /\ at = "entry" /\ reply = "none" /\ TokensOnly(sent) /\ sent = <<>> /\ captured = <<>> /\ ~cancelled
      /\ ~Streamed
  BY DEF Inv, Phases, Metadata, Refuse, NoAdapter, Streamed, TypeOK
<1>1. UNCHANGED <<request, provider, client, rows>>
  BY DEF Refuse, NoAdapter, BindUnsupported, EnhanceUnsupported, Answer
<1>2. CASE \E result \in {"invalid", "unsupported"} : Answer(result, <<>>)
  <2>1. /\ at' = "over" /\ sent' = <<>> /\ captured' = <<>> /\ raw' = <<>> /\ writing' = writing
        /\ reply' \in {"invalid", "unsupported"} /\ ~Streamed'
    BY <1>0, <1>2 DEF Answer, Streamed
  <2>2. TypeOK'
    BY <1>1, <2>1, CaptureTypes DEF Inv, TypeOK, request, provider, client
  <2>3. Phases'
    BY <1>0, <1>1, <2>1 DEF Inv, Phases, request, provider, client
  <2>4. Metadata' /\ Recording'
    BY <1>0, <1>1, <2>1, NothingSent DEF Inv, Metadata, Recording, request, provider, client
  <2> QED BY <2>2, <2>3, <2>4 DEF Inv
<1>3. CASE /\ kind = "enhance" /\ reply' = "stream" /\ captured' = <<"start", "error">>
           /\ Write("error") /\ UNCHANGED <<rows, raw>>
  <2>1. /\ at' = "write" /\ sent' = Append(sent, "error") /\ writing' = "error" /\ Streamed'
        /\ raw' = raw /\ kind' = "enhance"
    BY <1>0, <1>1, <1>3 DEF Write, Streamed, request
  <2>2. sent' \in Seq(StreamEvents) /\ EndsWith(sent', "error")
    BY <2>1, Events DEF Inv, TypeOK, StreamEvents
  <2>3. TypeOK'
    BY <1>1, <1>3, <2>1, <2>2, CaptureTypes
       DEF Inv, TypeOK, request, provider, client, Terminal, StreamEvents
  <2>4. Phases'
    BY <1>0, <1>1, <1>3, <2>1, <2>2 DEF Inv, Phases, request, provider, client
  <2>5. Metadata' /\ Recording'
    BY <1>3, <2>1, <2>2, Pairs DEF Metadata, Recording, Terminal
  <2> QED BY <2>3, <2>4, <2>5 DEF Inv
<1> QED BY <1>2, <1>3 DEF Refuse, NoAdapter, BindUnsupported, EnhanceUnsupported

LEMMA AcceptStep == Inv /\ Accept => Inv'
<1> SUFFICES ASSUME Inv, Accept PROVE Inv'
  OBVIOUS
<1>0. /\ at = "entry" /\ reply = "none" /\ TokensOnly(sent) /\ sent = <<>> /\ ~cancelled
      /\ kind \in Kinds /\ HasAdapter /\ HasAdapter'
  BY DEF Inv, Phases, Accept, Streamed, TypeOK, HasAdapter, request
<1>1. /\ at' = "open" /\ UNCHANGED <<request, provider, client, sent, writing, rows, raw>>
      /\ captured' = IF kind = "enhance" THEN <<"start">> ELSE <<>>
      /\ reply' = IF kind = "segment" THEN "none" ELSE "stream"
  <2>1. kind # "enhance" => captured = <<>>
    BY DEF Inv, Metadata
  <2> QED BY <1>0, <2>1 DEF Accept, AcceptSegment, AcceptEnhance, AcceptBind, answer
<1>2. TypeOK'
  BY <1>0, <1>1, CaptureTypes DEF Inv, TypeOK, request, provider, client
<1>3. Phases'
  BY <1>0, <1>1 DEF Inv, Phases, request, provider, client, Streamed
<1>4. Metadata' /\ Recording'
  BY <1>0, <1>1, Pairs, NothingSent DEF Inv, TypeOK, Recording, Metadata, request, provider, client, Kinds,
     Streamed, Terminal
<1> QED BY <1>2, <1>3, <1>4 DEF Inv

LEMMA WrittenStep == Inv /\ Written => Inv'
<1> SUFFICES ASSUME Inv, Written PROVE Inv'
  OBVIOUS
<1>0. /\ at = "write" /\ UNCHANGED <<request, provider, client, reply, rows, raw>>
      /\ kind # "segment" /\ Streamed /\ Streamed' /\ sent \in Seq(StreamEvents)
      /\ (HasAdapter' <=> HasAdapter) /\ (Left' <=> Left)
  BY DEF Inv, TypeOK, Phases, Written, Streamed, HasAdapter, request, client, Left
<1>1. CASE writing = "token" /\ at' = "read" /\ UNCHANGED <<sent, writing, captured>>
  <2>1. TypeOK'
    BY <1>0, <1>1 DEF Inv, TypeOK, request, provider, client
  <2>2. HasAdapter
    BY <1>0, <1>1 DEF Inv, Phases
  <2>3. Phases'
    BY <1>0, <1>1, <2>2 DEF Inv, Phases, request, provider, client
  <2>4. Metadata'
    BY <1>0, <1>1 DEF Inv, Metadata, request
  <2>5. Recording'
    BY <1>0, <1>1 DEF Inv, Recording, request, provider
  <2> QED BY <2>1, <2>3, <2>4, <2>5 DEF Inv
<1>2. CASE writing = "warning" /\ Write("done") /\ UNCHANGED captured
  <2>1. /\ at' = "write" /\ writing' = "done" /\ kind = "bind" /\ kind' = "bind"
        /\ cancelled' = cancelled /\ rows' = rows /\ conn' = conn
        /\ (cancelled \/ EndsWith(sent, "warning"))
        /\ sent' = IF cancelled THEN sent ELSE Append(sent, "done")
    BY <1>0, <1>2 DEF Write, Inv, Phases, request, provider, client
  <2>2. /\ sent' \in Seq(StreamEvents) /\ (cancelled \/ EndsWith(sent', "done"))
        /\ Has(sent', "error") => Has(sent, "error")
        /\ ~cancelled => Has(sent', "warning")
    BY <1>0, <2>1, Events, LastIsThere DEF StreamEvents
  <2>3. TypeOK'
    BY <1>0, <1>2, <2>1, <2>2 DEF Inv, TypeOK, request, provider, client, StreamEvents
  <2>4. Phases'
    BY <1>0, <1>2, <2>1, <2>2 DEF Inv, Phases, request, provider, client
  <2>5. Metadata'
    BY <1>0, <1>2, <2>1 DEF Inv, Metadata, request
  <2>6. Recording'
    BY <1>0, <1>2, <2>1, <2>2 DEF Inv, Recording
  <2> QED BY <2>3, <2>4, <2>5, <2>6 DEF Inv
<1>3. CASE /\ writing \in {"done", "error"} /\ at' = "over" /\ UNCHANGED <<sent, writing>>
           /\ IF writing = "done" THEN Capture("done") ELSE UNCHANGED captured
  <2>1. /\ kind' = kind /\ rows' = rows /\ conn' = conn /\ cancelled' = cancelled
        /\ (kind = "enhance" => EndsWith(sent, writing))
    BY <1>0, <1>3 DEF Inv, Metadata, request, provider, client
  <2>2. /\ kind # "enhance" => captured' = <<>>
        /\ kind = "enhance" =>
             \/ (captured' = <<"start", "abort">> /\ Left)
             \/ (captured' = <<"start", "error">> /\ EndsWith(sent, "error"))
             \/ (captured' = <<"start", "done">> /\ EndsWith(sent, "done"))
    <3>1. "done" \in Terminal /\ (kind # "enhance" => captured = <<>>)
      BY DEF Terminal, Inv, Metadata
    <3>2. CASE writing = "error"
      BY <1>0, <1>3, <2>1, <3>1, <3>2 DEF Inv, Metadata
    <3>3. CASE writing = "done"
      BY <1>0, <1>3, <2>1, <3>1, <3>3, Captures DEF Inv, Metadata
    <3> QED BY <1>3, <3>2, <3>3
  <2>3. captured' \in Seq({"start"} \cup Terminal)
    BY <2>2, CaptureTypes DEF Terminal
  <2>4. TypeOK'
    BY <1>0, <1>3, <2>3 DEF Inv, TypeOK, request, provider, client
  <2>5. Phases'
    BY <1>0, <1>3, <2>1 DEF Inv, Phases, request, provider, client, Left
  <2>6. Metadata'
    BY <1>0, <1>3, <2>1, <2>2, Pairs DEF Metadata, Terminal
  <2>7. Recording'
    BY <1>0, <1>3, <2>1 DEF Inv, Recording
  <2> QED BY <2>4, <2>5, <2>6, <2>7 DEF Inv
<1> QED BY <1>1, <1>2, <1>3 DEF Written

LEMMA RecordStep == Inv /\ Record => Inv'
<1> SUFFICES ASSUME Inv, Record PROVE Inv'
  OBVIOUS
<1>0. /\ at = "record" /\ UNCHANGED <<request, provider, client, reply, captured, raw>>
      /\ kind = "bind" /\ Streamed /\ Streamed' /\ sent \in Seq(StreamEvents) /\ TokensOnly(sent)
      /\ HasAdapter /\ HasAdapter' /\ conn # "none" /\ rows = 0
  BY DEF Inv, TypeOK, Phases, Recording, Record, Streamed, HasAdapter, request
<1>1. PICK e \in {"done", "warning"} : Write(e) /\ rows' \in {0, 1} /\ (e = "done" => rows' = 1)
  BY <1>0 DEF Record, recordEnhancementHistory
<1>2. /\ at' = "write" /\ writing' = e /\ kind' = "bind" /\ cancelled' = cancelled /\ conn' = conn
      /\ sent' = IF cancelled THEN sent ELSE Append(sent, e)
  BY <1>0, <1>1 DEF Write, request, provider, client
<1>3. /\ sent' \in Seq(StreamEvents) /\ (cancelled \/ EndsWith(sent', e))
      /\ \A f : EndsWith(sent', f) => f = e \/ f = "token"
      /\ ~Has(sent', "error")
  BY <1>0, <1>1, <1>2, Events, OnlyTokens DEF StreamEvents
<1>4. TypeOK'
  BY <1>0, <1>1, <1>2, <1>3 DEF Inv, TypeOK, request, provider, client, StreamEvents
<1>5. Phases'
  BY <1>0, <1>1, <1>2, <1>3 DEF Inv, Phases, request, provider, client
<1>6. Metadata'
  BY <1>0, <1>2 DEF Inv, Metadata
<1>7. Recording'
  BY <1>0, <1>1, <1>2, <1>3 DEF Recording
<1> QED BY <1>4, <1>5, <1>6, <1>7 DEF Inv

(* The handler hears nothing: it waits elsewhere, or for another attempt.    *)
LEMMA QuietStep ==
  ASSUME Inv, Listening, Settled, UNCHANGED answer, at' \in {"fetch", "sleep", "read"},
         at' \in {"fetch", "sleep"} => attempt' > 0,
         at' = "sleep" => attempt' < MaxAttempts,
         at' = "read" => conn' # "none",
         at' = "fetch" /\ stop' = "abort" => signal
  PROVE  Inv'
<1>1. /\ kind' = kind /\ model' = model /\ signal' = signal /\ cancelled' = cancelled
      /\ sent' = sent /\ rows' = rows /\ writing' = writing /\ captured' = captured
      /\ reply' = reply /\ raw' = raw
  BY DEF Settled, request, client, answer
<1>2. TypeOK'
  BY <1>1 DEF Inv, TypeOK, Settled
<1>3. Phases'
  BY <1>1, WhileListening DEF Inv, Phases, Streamed, HasAdapter, Listening
<1>4. Metadata' /\ Recording'
  BY <1>1, WhileListening, OnlyTokens, Pairs DEF Metadata, Recording, Left, Streamed, Terminal
<1> QED BY <1>2, <1>3, <1>4 DEF Inv

LEMMA AttemptStep == Inv /\ (FirstAttempt \/ Wake \/ TimeOut \/ FetchAnswers) => Inv'
<1> SUFFICES ASSUME Inv, FirstAttempt \/ Wake \/ TimeOut \/ FetchAnswers PROVE Inv'
  OBVIOUS
<1>0. /\ attempt \in 0..MaxAttempts /\ conn \in {"none", "open", "closed"} /\ tokens \in 0..MaxTokens
      /\ stop \in {"none", "timeout", "abort"} /\ (at \in {"fetch", "sleep"} => attempt > 0)
      /\ UNCHANGED <<request, client, answer, tokens>>
  BY DEF Inv, TypeOK, Phases, FirstAttempt, Wake, TimeOut, FetchAnswers
<1>1. CASE FirstAttempt
  BY <1>0, <1>1, QuietStep DEF FirstAttempt, Try, Settled, Listening
<1>2. CASE Wake
  <2>1. attempt < MaxAttempts
    BY <1>2 DEF Wake, Inv, Phases
  <2> QED BY <1>0, <1>2, <2>1, QuietStep DEF Wake, Try, Settled, Listening
<1>3. CASE TimeOut
  BY <1>0, <1>3, QuietStep DEF TimeOut, Settled, Listening
<1>4. CASE FetchAnswers
  BY <1>0, <1>4, QuietStep DEF FetchAnswers, Settled, Listening
<1> QED BY <1>1, <1>2, <1>3, <1>4

LEMMA FailureStep == Inv /\ (NoKey \/ FetchAborted \/ FetchFails) => Inv'
<1> SUFFICES ASSUME Inv, NoKey \/ FetchAborted \/ FetchFails PROVE Inv'
  OBVIOUS
<1>0. /\ at \in {"open", "fetch"} /\ Listening /\ UNCHANGED <<request, provider, client>> /\ Settled
      /\ (at = "fetch" => attempt > 0) /\ (at = "fetch" /\ stop = "abort" => signal)
  BY DEF Inv, TypeOK, Phases, NoKey, FetchAborted, FetchFails, Settled, Listening, provider
<1>1. CASE HearError
  BY <1>0, <1>1, ErrorStep
<1>2. CASE at = "fetch" /\ attempt < MaxAttempts /\ at' = "sleep" /\ UNCHANGED answer
  BY <1>0, <1>2, QuietStep DEF provider
<1>3. CASE at = "fetch" /\ stop = "abort" /\ HearAborted
  <2>1. Left
    BY <1>0, <1>3 DEF Left
  <2>2. CASE kind = "segment" /\ AnswerSegment(FallbackFor(Segments))
    BY <1>0, <2>2, SegmentStep, FallbackType
  <2>3. CASE kind # "segment" /\ Drop
    BY <1>0, <2>1, <2>3, DropStep
  <2> QED BY <1>3, <2>2, <2>3 DEF HearAborted, Unclassified
<1> QED BY <1>1, <1>2, <1>3 DEF NoKey, FetchAborted, FetchFails, RetryOrGiveUp

LEMMA ReadStep == Inv /\ (ReadToken \/ ReadDone \/ ReadEnd
         \/ ReadMalformed \/ ReadReported \/ ReadBroken) => Inv'
<1> SUFFICES ASSUME Inv, ReadToken \/ ReadDone \/ ReadEnd
         \/ ReadMalformed \/ ReadReported \/ ReadBroken PROVE Inv'
  OBVIOUS
<1>0. /\ at = "read" /\ Listening /\ UNCHANGED <<request, client>> /\ Settled
  BY DEF Inv, TypeOK, ReadToken, ReadDone, ReadEnd, ReadMalformed, ReadReported, ReadBroken, Settled, Listening, provider
<1>1. CASE ReadToken
  BY <1>0, <1>1, TokenStep DEF ReadToken
<1>2. CASE HearDone
  BY <1>0, <1>2, DoneStep
<1>3. CASE HearError
  BY <1>0, <1>3, ErrorStep
<1> QED BY <1>1, <1>2, <1>3 DEF ReadDone, ReadEnd, ReadMalformed, ReadReported, ReadBroken

LEMMA ClientStep == Inv /\ (SignalAborts \/ StreamCancelled) => Inv'
<1> SUFFICES ASSUME Inv, SignalAborts \/ StreamCancelled PROVE Inv'
  OBVIOUS
<1>0. /\ UNCHANGED <<request, at, attempt, conn, tokens, reply, sent, writing, rows, raw>> /\ Left'
      /\ (Streamed' <=> Streamed) /\ (HasAdapter' <=> HasAdapter)
  BY DEF SignalAborts, StreamCancelled, provider, answer, Left, request, Streamed, HasAdapter
<1>1. CASE SignalAborts
  <2>1. /\ signal' = TRUE /\ cancelled' = cancelled /\ captured' = captured
        /\ stop' \in {"none", "timeout", "abort"}
    BY <1>1 DEF SignalAborts, answer, Inv, TypeOK
  <2>2. TypeOK'
    BY <1>0, <2>1 DEF Inv, TypeOK, request
  <2>3. Phases'
    BY <1>0, <2>1 DEF Inv, Phases, request
  <2>4. Metadata' /\ Recording'
    BY <1>0, <2>1 DEF Inv, Metadata, Recording, request
  <2> QED BY <2>2, <2>3, <2>4 DEF Inv
<1>2. CASE StreamCancelled
  <2>1. cancelled' = TRUE /\ Streamed /\ signal' = signal /\ stop' = stop
    BY <1>2 DEF StreamCancelled, provider, Streamed
  <2>2. /\ kind # "enhance" => captured' = <<>>
        /\ kind = "enhance" => IF captured = <<"start">> THEN captured' = <<"start", "abort">>
                                                       ELSE captured' = captured
    <3>1. "abort" \in Terminal /\ (kind # "enhance" => captured = <<>>)
      BY DEF Terminal, Inv, Metadata
    <3>2. CASE HasAdapter
      BY <1>2, <2>1, <3>1, <3>2, Captures DEF StreamCancelled, Inv
    <3>3. CASE ~HasAdapter
      <4>1. at \in {"write", "over"} /\ (at = "write" => writing = "error")
        BY <2>1, <3>3 DEF Inv, Phases, TypeOK, Streamed
      <4> QED BY <1>2, <2>1, <3>1, <3>3, <4>1 DEF StreamCancelled, Inv, Metadata
    <3> QED BY <3>2, <3>3
  <2>3. captured' \in Seq({"start"} \cup Terminal)
    BY <2>2, CaptureTypes DEF Terminal, Inv, TypeOK
  <2>4. TypeOK'
    BY <1>0, <2>1, <2>3 DEF Inv, TypeOK, request
  <2>5. Phases'
    BY <1>0, <2>1 DEF Inv, Phases, request
  <2>6. Metadata'
    BY <1>0, <2>1, <2>2, Pairs DEF Inv, Metadata, request, Terminal
  <2>7. Recording'
    BY <1>0, <2>1 DEF Inv, Recording, request
  <2> QED BY <2>4, <2>5, <2>6, <2>7 DEF Inv
<1> QED BY <1>1, <1>2

LEMMA StutterStep == Inv /\ UNCHANGED vars => Inv'
<1> SUFFICES ASSUME Inv, UNCHANGED vars PROVE Inv'
  OBVIOUS
<1>1. TypeOK'
  BY DEF vars, Inv, TypeOK
<1>2. Phases'
  BY DEF vars, Inv, Phases, Streamed, HasAdapter, Left
<1>3. Metadata' /\ Recording'
  BY DEF vars, Inv, Metadata, Recording, Streamed, Left
<1> QED BY <1>1, <1>2, <1>3 DEF Inv

LEMMA InvHolds == Spec => []Inv
<1>1. Init => Inv
  BY InitInv
<1>2. Inv /\ [Next]_vars => Inv'
  BY RefuseStep, AcceptStep, WrittenStep, RecordStep, AttemptStep, FailureStep, ReadStep, ClientStep,
     StutterStep DEF Next, Finished
<1> QED BY <1>1, <1>2, PTL DEF Spec

(* Every variable of a route keeps to its type, the attempts and the rows    *)
(* of one request to their limits: the retry loop of retry.ts ends, and a    *)
(* bind is recorded once at most.                                            *)
THEOREM RoutesTypeCorrect == Spec => []TypeOK
<1>1. Inv => TypeOK
  BY DEF Inv
<1> QED BY <1>1, InvHolds, PTL

(* The metadata enhanceRouteHandler captures is one start and one terminal   *)
(* event, and the terminal event is what the client was told.                *)
THEOREM MetadataTruthful == Spec => []MetadataAgrees
<1>1. ASSUME Inv PROVE MetadataAgrees
  <2>1. CASE ~(kind = "enhance" /\ Streamed)
    BY <1>1, <2>1 DEF Inv, Metadata, MetadataAgrees, HasTerminal, Streamed
  <2>2. CASE kind = "enhance" /\ Streamed
    <3>1. CASE captured = <<"start">>
      BY <1>1, <2>2, <3>1 DEF Inv, Metadata, MetadataAgrees, HasTerminal, Terminal, Streamed
    <3>2. ASSUME NEW e \in Terminal, captured = <<"start", e>>,
                 IF e = "abort" THEN Left ELSE EndsWith(sent, e)
          PROVE  MetadataAgrees
      <4>1. /\ Len(captured) = 2 /\ captured[1] = "start" /\ captured[2] = e
            /\ DOMAIN captured = {1, 2} /\ "start" \notin Terminal
        BY <3>2 DEF Terminal
      <4>2. HasTerminal /\ captured # <<>> /\ LastOf(captured) = e
        BY <3>2, <4>1 DEF HasTerminal, LastOf
      <4> QED BY <3>2, <4>1, <4>2 DEF MetadataAgrees, EndsWith
    <3> QED BY <1>1, <2>2, <3>1, <3>2 DEF Inv, Metadata, Terminal
  <2> QED BY <2>1, <2>2
<1> QED BY <1>1, InvHolds, PTL

(* A client of POST /bind that reads "done" has its row in the history or    *)
(* the warning that it may not have; no bind that failed has one.            *)
THEOREM BindRecorded == Spec => []DoneMeansRecorded
<1>1. ASSUME Inv PROVE DoneMeansRecorded
  BY <1>1 DEF Inv, Recording, DoneMeansRecorded, EndsWith, Has
<1> QED BY <1>1, InvHolds, PTL
-----------------------------------------------------------------------------
(* The stream of events implements EventStream.                              *)

LEMMA EndedMeans ==
  /\ Promise!Ended <=> EndsWith(sent, "done") \/ EndsWith(sent, "error")
  /\ Promise!Warned <=> EndsWith(sent, "warning")
BY DEF Promise!Ended, Promise!Warned, Promise!Closing, Promise!LastSent, EndsWith, LastOf

LEMMA NotEnded ==
  ASSUME Inv, TokensOnly(sent)
  PROVE  ~Promise!Ended /\ ~Promise!Warned
BY OnlyTokens, EndedMeans DEF Inv, TypeOK

LEMMA Silence ==
  ASSUME UNCHANGED <<reply, sent, client>>, at' = at \/ (at # "over" /\ at' # "over")
  PROVE  UNCHANGED Promise!vars
BY DEF client, Left, Promise!vars

LEMMA Saying ==
  ASSUME Inv, Streamed, at # "over", UNCHANGED <<reply, client>>,
         NEW e \in StreamEvents, Write(e),
         cancelled \/ (~Promise!Ended /\ (Promise!Warned => e = "done"))
  PROVE  [Promise!Next]_(Promise!vars)
<1>1. (Left' <=> Left) /\ at' = "write" /\ reply' = reply
  BY DEF client, Left, Write
<1>2. CASE cancelled
  BY <1>2, Silence DEF Write
<1>3. CASE ~cancelled
  <2>1. sent' = Append(sent, e)
    BY <1>3 DEF Write
  <2>2. Promise!Say(e)
    BY <1>1, <1>3, <2>1 DEF Promise!Say, Streamed
  <2>3. e \in {"token", "warning"} \cup Promise!Closing
    BY DEF StreamEvents, Promise!Closing
  <2> QED BY <2>2, <2>3 DEF Promise!Next
<1> QED BY <1>2, <1>3

LEMMA Closing ==
  ASSUME at # "over", at' = "over", UNCHANGED <<sent, client>>, Streamed' <=> Streamed,
         Streamed => Promise!Ended \/ Left
  PROVE  [Promise!Next]_(Promise!vars)
<1>1. (Left' <=> Left) /\ sent' = sent
  BY DEF client, Left
<1>2. Promise!Close
  BY <1>1 DEF Promise!Close, Streamed
<1> QED BY <1>2 DEF Promise!Next

LEMMA DropCloses ==
  ASSUME Inv, Listening, UNCHANGED client, Drop, Left
  PROVE  [Promise!Next]_(Promise!vars)
BY Closing DEF Drop, Listening, Streamed

LEMMA SegmentCloses ==
  ASSUME Inv, Listening, UNCHANGED client, kind = "segment", NEW x, AnswerSegment(x)
  PROVE  [Promise!Next]_(Promise!vars)
<1>1. ~Streamed /\ ~Streamed'
  BY WhileListening DEF AnswerSegment, Answer, Streamed
<1> QED BY <1>1, Closing DEF AnswerSegment, Answer, Listening

LEMMA WriteSays ==
  ASSUME Inv, Listening, UNCHANGED <<client, reply>>, kind # "segment",
         NEW e \in StreamEvents, Write(e)
  PROVE  [Promise!Next]_(Promise!vars)
BY WhileListening, NotEnded, Saying DEF Listening

LEMMA HearingKeeps ==
  ASSUME Inv, Listening, UNCHANGED client,
         HearError \/ HearToken \/ HearDone \/ (HearAborted /\ Left)
  PROVE  [Promise!Next]_(Promise!vars)
<1>1. CASE kind = "segment" /\ \E x : AnswerSegment(x)
  <2>1. kind = "segment"
    BY <1>1
  <2>2. ASSUME NEW x, AnswerSegment(x) PROVE [Promise!Next]_(Promise!vars)
    BY <2>1, <2>2, SegmentCloses
  <2> QED BY <1>1, <2>2
<1>2. CASE Left /\ Drop
  BY <1>2, DropCloses
<1>3. CASE kind # "segment" /\ UNCHANGED reply /\ \E e \in StreamEvents : Write(e)
  <2>1. kind # "segment" /\ UNCHANGED reply
    BY <1>3
  <2>2. ASSUME NEW e \in StreamEvents, Write(e) PROVE [Promise!Next]_(Promise!vars)
    BY <2>1, <2>2, WriteSays
  <2> QED BY <1>3, <2>2
<1>4. CASE at' \in {"read", "record"} /\ UNCHANGED answer
  BY <1>4, Silence DEF Listening, answer
<1>5. "token" \in StreamEvents /\ "done" \in StreamEvents /\ "error" \in StreamEvents
  BY DEF StreamEvents
<1>6. CASE HearError
  BY <1>1, <1>2, <1>3, <1>5, <1>6 DEF HearError, Unclassified
<1>7. CASE HearToken
  BY <1>2, <1>3, <1>4, <1>5, <1>7 DEF HearToken, Aggregate
<1>8. CASE HearDone
  BY <1>1, <1>2, <1>3, <1>4, <1>5, <1>8 DEF HearDone, Unclassified, Classified
<1>9. CASE HearAborted /\ Left
  BY <1>1, <1>2, <1>9 DEF HearAborted, Unclassified
<1> QED BY <1>6, <1>7, <1>8, <1>9

LEMMA EntryKeeps ==
  ASSUME Inv, Refuse \/ NoAdapter \/ Accept
  PROVE  [Promise!Next]_(Promise!vars)
<1>0. /\ at = "entry" /\ reply = "none" /\ ~Streamed /\ sent = <<>> /\ ~cancelled
      /\ UNCHANGED client
  BY DEF Inv, TypeOK, Phases, Refuse, NoAdapter, Accept, Streamed
<1>1. CASE Answer("invalid", <<>>) \/ Answer("unsupported", <<>>)
  BY <1>0, <1>1, Closing DEF Answer, Streamed
<1>2. CASE reply' = "stream" /\ at' # "over" /\ sent' \in {<<>>, <<"error">>}
  <2>1. Promise!Open
    BY <1>0, <1>2 DEF Promise!Open, client, Left
  <2> QED BY <2>1 DEF Promise!Next
<1>3. CASE reply' = "none" /\ at' # "over" /\ sent' = sent
  BY <1>0, <1>3, Silence
<1>4. Append(<<>>, "error") = <<"error">>
  OBVIOUS
<1>5. CASE NoAdapter
  BY <1>0, <1>1, <1>2, <1>4, <1>5 DEF NoAdapter, BindUnsupported, EnhanceUnsupported, Write
<1>6. CASE Accept
  BY <1>0, <1>2, <1>3, <1>6
     DEF Accept, AcceptSegment, AcceptEnhance, AcceptBind, answer
<1> QED BY <1>1, <1>5, <1>6 DEF Refuse

LEMMA WritingKeeps ==
  ASSUME Inv, Written \/ Record
  PROVE  [Promise!Next]_(Promise!vars)
<1>0. /\ at \in {"write", "record"} /\ Streamed /\ UNCHANGED <<reply, client>>
      /\ "done" \in StreamEvents /\ "warning" \in StreamEvents
      /\ sent \in Seq(StreamEvents)
  BY DEF Inv, TypeOK, Phases, Written, Record, Streamed, StreamEvents
<1>1. CASE at = "write" /\ writing = "token" /\ at' = "read" /\ UNCHANGED sent
  BY <1>0, <1>1, Silence
<1>2. CASE at = "write" /\ writing = "warning" /\ Write("done")
  <2>1. cancelled \/ (EndsWith(sent, "warning") /\ ~Promise!Ended)
    BY <1>0, <1>2, LastIsThere, EndedMeans DEF Inv, Phases
  <2> QED BY <1>0, <1>2, <2>1, Saying
<1>3. CASE at = "write" /\ writing \in {"done", "error"} /\ at' = "over" /\ UNCHANGED sent
  <2>1. Left \/ Promise!Ended
    BY <1>3, EndedMeans DEF Inv, Phases, Left
  <2>2. Streamed'
    BY <1>0 DEF Streamed
  <2> QED BY <1>0, <1>3, <2>1, <2>2, Closing
<1>4. CASE Record
  <2>1. PICK e \in {"done", "warning"} : Write(e)
    BY <1>4 DEF Record
  <2>2. ~Promise!Ended /\ ~Promise!Warned
    BY <1>4, NotEnded DEF Record, Inv, Phases
  <2> QED BY <1>0, <2>1, <2>2, Saying
<1> QED BY <1>1, <1>2, <1>3, <1>4 DEF Written

LEMMA AdapterKeeps ==
  ASSUME Inv,
         FirstAttempt \/ Wake \/ TimeOut \/ FetchAnswers \/ NoKey \/ FetchAborted \/ FetchFails
         \/ ReadToken \/ ReadDone \/ ReadEnd
         \/ ReadMalformed \/ ReadReported \/ ReadBroken
  PROVE  [Promise!Next]_(Promise!vars)
<1>1. UNCHANGED client /\ Listening
  BY DEF FirstAttempt, Wake, TimeOut, FetchAnswers, NoKey, FetchAborted, FetchFails,
         ReadToken, ReadDone, ReadEnd, ReadMalformed, ReadReported, ReadBroken, Listening
<1>2. CASE UNCHANGED answer /\ at' # "over"
  BY <1>1, <1>2, Silence DEF answer, Listening
<1>3. CASE HearError \/ HearToken \/ HearDone
  BY <1>1, <1>3, HearingKeeps
<1>4. CASE at = "fetch" /\ stop = "abort" /\ HearAborted
  BY <1>1, <1>4, HearingKeeps DEF Inv, Phases, Left
<1>5. CASE FirstAttempt \/ Wake \/ FetchAnswers
  BY <1>2, <1>5 DEF FirstAttempt, Wake, FetchAnswers, Try
<1>6. CASE TimeOut
  BY <1>2, <1>6 DEF TimeOut
<1>7. CASE NoKey \/ FetchAborted \/ FetchFails
  BY <1>2, <1>3, <1>4, <1>7 DEF NoKey, FetchAborted, FetchFails, RetryOrGiveUp
<1>8. CASE ReadToken \/ ReadDone \/ ReadEnd
         \/ ReadMalformed \/ ReadReported \/ ReadBroken
  BY <1>3, <1>8 DEF ReadToken, ReadDone, ReadEnd, ReadMalformed, ReadReported, ReadBroken
<1> QED BY <1>5, <1>6, <1>7, <1>8

LEMMA ClientKeeps ==
  ASSUME Inv, SignalAborts \/ StreamCancelled
  PROVE  [Promise!Next]_(Promise!vars)
<1>1. Left' /\ at' = at /\ reply' = reply /\ sent' = sent
  BY DEF SignalAborts, StreamCancelled, Left, answer
<1>2. Promise!Leave
  BY <1>1 DEF Promise!Leave
<1> QED BY <1>2 DEF Promise!Next

(* Whatever the provider, the client, the timer and the database do, the     *)
(* events of a streaming route are a run of EventStream: nothing follows the *)
(* terminal event, and a client that stays is always told how it ended.      *)
THEOREM RoutesKeepContract == Spec => StreamContract
<1>1. Init => Promise!Init
  BY DEF Init, Promise!Init, Left
<1>2. ASSUME Inv, [Next]_vars PROVE [Promise!Next]_(Promise!vars)
  <2>1. CASE UNCHANGED vars
    BY <2>1, Silence DEF vars, client
  <2>2. CASE Next
    BY <1>2, <2>1, <2>2, EntryKeeps, WritingKeeps, AdapterKeeps, ClientKeeps DEF Next, Finished
  <2> QED BY <1>2, <2>1, <2>2
<1> QED BY <1>1, <1>2, InvHolds, PTL DEF Spec, StreamContract, Promise!Spec

-------------------------------------------------------------------------------
(* What the contract is worth to a client: a done or an error is the last   *)
(* event it reads, a warning is the last or followed by a done only, and a  *)
(* client that stays to the end of a stream has read a done or an error.    *)
ClientReadsOneEnd ==
  /\ \A n \in DOMAIN sent :
       /\ sent[n] \in {"done", "error"} => n = Len(sent)
       /\ sent[n] = "warning" => n = Len(sent) \/ (n + 1 = Len(sent) /\ LastOf(sent) = "done")
  /\ at = "over" /\ reply = "stream" /\ ~Left => sent # <<>> /\ LastOf(sent) \in {"done", "error"}

LEMMA ContractKeepsEnd ==
  ASSUME sent \in Seq(StreamEvents), ClientReadsOneEnd, [Promise!Next]_(Promise!vars)
  PROVE  ClientReadsOneEnd'
<1> DEFINE Ordered(s) ==
             \A n \in DOMAIN s :
               /\ s[n] \in {"done", "error"} => n = Len(s)
               /\ s[n] = "warning" => n = Len(s) \/ (n + 1 = Len(s) /\ LastOf(s) = "done")
           Told == sent # <<>> /\ LastOf(sent) \in {"done", "error"}
<1>1. Told <=> Promise!Ended
  BY DEF Promise!Ended, Promise!LastSent, Promise!Closing, LastOf
<1>2. CASE Promise!Open
  <2>1. sent' = <<>> \/ (Len(sent') = 1 /\ DOMAIN sent' = {1} /\ sent'[1] = "error")
    BY <1>2 DEF Promise!Open
  <2>2. ASSUME NEW n \in DOMAIN sent'
        PROVE  n = Len(sent')
    <3>1. ~\E m \in DOMAIN <<>> : TRUE
      OBVIOUS
    <3>2. sent' # <<>>
      BY <2>2, <3>1
    <3> QED
      BY <2>1, <2>2, <3>2
  <2>3. at' # "over"
    BY <1>2 DEF Promise!Open
  <2> QED
    BY <2>2, <2>3 DEF ClientReadsOneEnd
<1>3. ASSUME NEW e \in {"token", "warning"} \cup Promise!Closing, Promise!Say(e)
      PROVE  ClientReadsOneEnd'
  <2>1. sent' = Append(sent, e) /\ ~Promise!Ended /\ (Promise!Warned => e = "done") /\ at' # "over"
    BY <1>3 DEF Promise!Say
  <2>2. /\ DOMAIN sent = 1..Len(sent) /\ DOMAIN sent' = 1..(Len(sent) + 1) /\ Len(sent) \in Nat
        /\ Len(sent') = Len(sent) + 1 /\ sent'[Len(sent) + 1] = e
        /\ \A n \in 1..Len(sent) : sent'[n] = sent[n]
    BY <2>1 DEF StreamEvents, Promise!Closing
  <2>3. ASSUME NEW n \in 1..Len(sent)
        PROVE  /\ sent[n] \notin {"done", "error"}
               /\ sent[n] = "warning" => n = Len(sent) /\ e = "done"
    <3>1. sent # <<>>
      BY <2>2, <2>3
    <3>2. sent[n] \notin {"done", "error"} /\ LastOf(sent) \notin {"done", "error"}
      BY <1>1, <2>1, <2>2, <3>1 DEF ClientReadsOneEnd, LastOf
    <3>3. sent[n] = "warning" => n = Len(sent)
      BY <2>2, <3>2 DEF ClientReadsOneEnd
    <3>4. sent[Len(sent)] = "warning" => e = "done"
      BY <2>1, <3>1 DEF Promise!Warned, Promise!LastSent
    <3> QED
      BY <3>2, <3>3, <3>4
  <2>4. Ordered(sent')
    <3>1. ASSUME NEW n \in 1..Len(sent)
          PROVE  /\ sent'[n] \notin {"done", "error"}
                 /\ sent'[n] = "warning" => n + 1 = Len(sent') /\ LastOf(sent') = "done"
      <4>1. sent'[n] = sent[n] /\ LastOf(sent') = e
        BY <2>2 DEF LastOf
      <4> QED
        BY <2>2, <2>3, <4>1
    <3>2. \A n \in DOMAIN sent' : n \in 1..Len(sent) \/ n = Len(sent')
      BY <2>2
    <3> QED
      BY <3>1, <3>2
  <2> QED
    BY <2>1, <2>4 DEF ClientReadsOneEnd
<1>4. CASE Promise!Leave
  BY <1>4 DEF Promise!Leave, ClientReadsOneEnd, Left
<1>5. CASE Promise!Close
  <2>1. sent' = sent /\ (reply = "stream") = (reply' = "stream") /\ Left = Left'
    BY <1>5 DEF Promise!Close
  <2>2. reply = "stream" /\ ~Left => Told
    BY <1>1, <1>5 DEF Promise!Close
  <2> QED
    BY <2>1, <2>2 DEF ClientReadsOneEnd
<1>6. CASE UNCHANGED Promise!vars
  BY <1>6 DEF Promise!vars, ClientReadsOneEnd
<1> QED
  BY <1>2, <1>3, <1>4, <1>5, <1>6 DEF Promise!Next

(* Every client of a streaming route is told once how its stream ended;     *)
(* this follows from the contract alone.                                    *)
THEOREM ClientsAreTold == Spec => []ClientReadsOneEnd
<1>1. Init => ClientReadsOneEnd
  BY DEF Init, ClientReadsOneEnd
<1>2. TypeOK /\ ClientReadsOneEnd /\ [Promise!Next]_(Promise!vars) => ClientReadsOneEnd'
  BY ContractKeepsEnd DEF TypeOK
<1> QED
  BY <1>1, <1>2, RoutesTypeCorrect, RoutesKeepContract, PTL DEF Spec, StreamContract, Promise!Spec

-------------------------------------------------------------------------------
(* The answer to a classification, whatever the provider has made up: no     *)
(* induction theorem can be instantiated here, so that induction is over the *)
(* set of the numbers for which a fact holds.                                *)

HIDE BackendAssumption

(* What holds of 0 and passes from each number to the next holds up to n.    *)
LEMMA Induction ==
  ASSUME NEW n \in Nat, NEW K, 0 \in K, \A m \in 1..n : m - 1 \in K => m \in K
  PROVE  0..n \subseteq K
<1> DEFINE out == (0..n) \ K
<1> SUFFICES ASSUME out # {}
             PROVE  FALSE
  OBVIOUS
<1>1. out \in SUBSET Nat
  OBVIOUS
<1> DEFINE R == OpToRel(<, Nat)
<1>2. \A x, y \in Nat : <<x, y>> \in R <=> x < y
  BY DEF OpToRel
<1>0. IsWellFoundedOn(R, Nat)
  BY NatLessThanWellFounded
<1> HIDE DEF R
<1>3. PICK m \in out : \A k \in out : <<k, m>> \notin R
  BY <1>0, <1>1, WFMin
<1>4. m \in 1..n /\ m - 1 \in 0..n
  OBVIOUS
<1>5. m - 1 \in out
  BY <1>4
<1>6. <<m - 1, m>> \in R
  BY <1>2, <1>4
<1>7. QED
  BY <1>3, <1>5, <1>6

(* A function that is defined from its value for the number before.          *)
Iterates(f, S, a, N, G) ==
  f \in [0..N -> S] /\ f[0] = a /\ \A n \in 1..N : f[n] = G[n][f[n - 1]]

LEMMA Recursion ==
  ASSUME NEW S, NEW a \in S, NEW N \in Nat, NEW G \in [1..N -> [S -> S]]
  PROVE  \E f : Iterates(f, S, a, N, G)
<1> DEFINE Is(f, m) == f[0] = a /\ \A n \in 1..m : f[n] = G[n][f[n - 1]]
           K == {m \in 0..N : \E f \in [0..m -> S] : Is(f, m)}
<1>1. 0 \in K
  <2>1. Is([n \in 0..0 |-> a], 0) /\ [n \in 0..0 |-> a] \in [0..0 -> S]
    OBVIOUS
  <2> HIDE DEF Is
  <2>2. QED
    BY <2>1
<1>2. ASSUME NEW m \in 1..N, m - 1 \in K
      PROVE  m \in K
  <2>1. PICK f \in [0..(m - 1) -> S] : Is(f, m - 1)
    BY <1>2
  <2> DEFINE g == [n \in 0..m |-> IF n = m THEN G[m][f[m - 1]] ELSE f[n]]
  <2>2. g \in [0..m -> S]
    OBVIOUS
  <2>3. g[0] = a
    BY <2>1
  <2>4. ASSUME NEW n \in 1..m
        PROVE  g[n] = G[n][g[n - 1]]
    BY <2>1
  <2>5. Is(g, m)
    BY <2>3, <2>4
  <2> HIDE DEF Is, g
  <2>6. QED
    BY <2>2, <2>5
<1>3. N \in K
  <2> HIDE DEF K
  <2>1. 0..N \subseteq K
    BY <1>1, <1>2, Induction
  <2>2. QED
    BY <2>1
<1>4. QED
  BY <1>3 DEF Iterates

-------------------------------------------------------------------------------
LEMMA AppendedSet ==
  ASSUME NEW T, NEW s \in Seq(T), NEW z \in T, NEW y
  PROVE  y \in ToSet(Append(s, z)) <=> y \in ToSet(s) \/ y = z
<1> DEFINE more == Append(s, z)
<1>1. /\ DOMAIN s = 1..Len(s) /\ DOMAIN more = 1..(Len(s) + 1) /\ Len(s) \in Nat
      /\ more[Len(s) + 1] = z /\ \A n \in 1..Len(s) : more[n] = s[n]
  OBVIOUS
<1> HIDE DEF more
<1>2. y \in ToSet(more) <=> \E n \in 1..(Len(s) + 1) : more[n] = y
  BY <1>1 DEF ToSet
<1>3. y \in ToSet(s) <=> \E n \in 1..Len(s) : s[n] = y
  BY <1>1 DEF ToSet
<1>4. QED
  BY <1>1, <1>2, <1>3 DEF more

(* The dependencies as a graph on a finite set D of ids.                     *)
Arc(edges, x, y) == y \in ToSet(edges[x])

(* What a rank respects can be ordered.                                      *)
Respects(rank, edges) ==
  \A x, y \in DOMAIN edges : Arc(edges, x, y) => rank[y] < rank[x]

Closed(R, edges) == \A x \in R, y \in DOMAIN edges : Arc(edges, x, y) => y \in R

(* The walk of hasPath finds a set that no dependency leaves, and only what  *)
(* no order puts after its start.                                            *)
LEMMA Walk ==
  ASSUME NEW D, IsFiniteSet(D), NEW edges \in [D -> Seq(D)], NEW from \in D
  PROVE  \E R \in SUBSET D :
           /\ from \in R
           /\ Closed(R, edges)
           /\ \A target : hasPath(from, target, edges) <=> target \in R
           /\ \A rank \in [D -> Nat] :
                Respects(rank, edges) => \A x \in R : rank[x] <= rank[from]
<1> DEFINE N == Cardinality(D)
           More(R) == R \cup Neighbors(edges, R)
           F(f) == [n \in 0..N |-> IF n = 0 THEN {from} ELSE More(f[n - 1])]
           reached == CHOOSE f : f = F(f)
<1>1. N \in Nat /\ DOMAIN edges = D
  BY FS_CardinalityType
<1>2. \A R, y : y \in More(R) <=> y \in R \/ \E x \in R : Arc(edges, x, y)
  BY DEF Neighbors, Arc
<1>3. \A x \in D : \A y : Arc(edges, x, y) => y \in D
  BY DEF Arc, ToSet
<1>4. \A R \in SUBSET D : More(R) \in SUBSET D
  BY <1>2, <1>3
<1>5. \A target : hasPath(from, target, edges) <=> target \in reached[N]
  BY <1>1 DEF hasPath
<1> HIDE DEF More, N
<1>6. reached \in [0..N -> SUBSET D] /\ reached[0] = {from}
      /\ \A n \in 1..N : reached[n] = More(reached[n - 1])
  <2> DEFINE T == SUBSET D
             G == [n \in 1..N |-> [R \in T |-> More(R)]]
  <2>1. G \in [1..N -> [T -> T]] /\ {from} \in T
    BY <1>4
  <2>2. \A n \in 1..N, R \in T : G[n][R] = More(R)
    OBVIOUS
  <2> HIDE DEF F, G, T, reached
  <2>3. PICK f : Iterates(f, T, {from}, N, G)
    BY <1>1, <2>1, Recursion
  <2>4. \A n \in 1..N : f[n - 1] \in T
    BY <1>1, <2>3 DEF Iterates
  <2>5. \A n \in 1..N : f[n] = More(f[n - 1])
    BY <2>2, <2>3, <2>4 DEF Iterates
  <2>6. f = F(f)
    BY <1>1, <2>3, <2>5 DEF F, Iterates, T
  <2>7. reached = F(reached)
    BY <2>6 DEF reached
  <2>8. ASSUME NEW g, NEW h, h = F(g)
        PROVE  DOMAIN h = 0..N /\ h[0] = {from} /\ \A n \in 1..N : h[n] = More(g[n - 1])
    BY <1>1, <2>8 DEF F
  <2>81. DOMAIN reached = 0..N /\ reached[0] = {from}
        /\ \A n \in 1..N : reached[n] = More(reached[n - 1])
    BY <2>7, <2>8
  <2> DEFINE K == {n \in 0..N : reached[n] \in SUBSET D}
  <2>9. 0..N \subseteq K
    <3>1. 0 \in K
      BY <1>1, <2>81
    <3>2. ASSUME NEW m \in 1..N, m - 1 \in K
          PROVE  m \in K
      <4>1. m \in 0..N /\ reached[m] = More(reached[m - 1])
        BY <1>1, <2>81
      <4>2. QED
        BY <1>4, <3>2, <4>1
    <3> HIDE DEF K
    <3>3. QED
      BY <1>1, <3>1, <3>2, Induction
  <2>10. reached = [n \in 0..N |-> reached[n]]
    BY <2>7 DEF F
  <2>11. QED
    BY <2>81, <2>9, <2>10
<1> HIDE DEF reached
<1>7. reached[N] \in SUBSET D
  BY <1>1, <1>6
(* Each round finds something new, or nothing is left to be found.           *)
<1>8. Closed(reached[N], edges) \/ Cardinality(reached[N]) >= N + 1
  <2> DEFINE K == {n \in 0..N : Closed(reached[n], edges) \/ Cardinality(reached[n]) >= n + 1}
  <2>1. 0 \in K
    <3>1. Cardinality(reached[0]) = 1
      BY <1>6, FS_Singleton
    <3>2. QED
      BY <1>1, <3>1
  <2>2. ASSUME NEW m \in 1..N, m - 1 \in K
        PROVE  m \in K
    <3>1. /\ reached[m - 1] \in SUBSET D /\ reached[m] \in SUBSET D
          /\ reached[m] = More(reached[m - 1])
          /\ m - 1 \in 0..N /\ m \in 0..N
      BY <1>1, <1>6
    <3>2. CASE Closed(reached[m - 1], edges)
      <4>1. \A x \in reached[m - 1] : \A y : Arc(edges, x, y) => y \in reached[m - 1]
        BY <1>1, <1>3, <3>1, <3>2 DEF Closed
      <4>2. \A y : y \in reached[m] <=> y \in reached[m - 1]
        BY <1>2, <3>1, <4>1
      <4>3. reached[m] = reached[m - 1]
        BY <4>2
      <4>4. QED
        BY <3>1, <3>2, <4>3
    <3>3. CASE ~Closed(reached[m - 1], edges)
      <4>1. PICK y \in D : y \in reached[m] /\ y \notin reached[m - 1]
        BY <1>1, <1>2, <3>1, <3>3 DEF Closed
      <4>2. /\ IsFiniteSet(reached[m]) /\ IsFiniteSet(reached[m - 1])
            /\ IsFiniteSet(reached[m - 1] \cup {y})
        BY <3>1, FS_Subset, FS_AddElement
      <4>3. Cardinality(reached[m - 1] \cup {y}) = Cardinality(reached[m - 1]) + 1
        BY <4>1, <4>2, FS_AddElement
      <4>4. Cardinality(reached[m - 1] \cup {y}) <= Cardinality(reached[m])
        BY <1>2, <3>1, <4>1, <4>2, FS_Subset
      <4>5. Cardinality(reached[m]) \in Nat /\ Cardinality(reached[m - 1]) \in Nat
        BY <4>2, FS_CardinalityType
      <4>6. Cardinality(reached[m - 1]) >= m
        BY <2>2, <3>3, <1>1
      <4>7. QED
        BY <1>1, <3>1, <4>3, <4>4, <4>5, <4>6
    <3>4. QED
      BY <3>2, <3>3
  <2> HIDE DEF K
  <2>3. 0..N \subseteq K
    BY <1>1, <2>1, <2>2, Induction
  <2>4. QED
    BY <1>1, <2>3 DEF K
<1>9. Closed(reached[N], edges)
  <2>1. Cardinality(reached[N]) <= N /\ Cardinality(reached[N]) \in Nat
    BY <1>7, FS_Subset, FS_CardinalityType DEF N
  <2>2. QED
    BY <1>1, <1>8, <2>1
<1>10. from \in reached[N]
  <2> DEFINE K == {n \in 0..N : from \in reached[n]}
  <2>1. 0 \in K /\ \A m \in 1..N : m - 1 \in K => m \in K
    BY <1>1, <1>2, <1>6
  <2> HIDE DEF K
  <2>2. 0..N \subseteq K
    BY <1>1, <2>1, Induction
  <2>3. QED
    BY <1>1, <2>2 DEF K
<1>11. ASSUME NEW rank \in [D -> Nat], Respects(rank, edges)
       PROVE  \A x \in reached[N] : rank[x] <= rank[from]
  <2> DEFINE K == {n \in 0..N : \A x \in reached[n] : rank[x] <= rank[from]}
  <2>1. 0 \in K
    BY <1>1, <1>6
  <2>2. ASSUME NEW m \in 1..N, m - 1 \in K
        PROVE  m \in K
    <3>1. /\ reached[m - 1] \in SUBSET D /\ reached[m] \in SUBSET D
          /\ reached[m] = More(reached[m - 1])
          /\ m - 1 \in 0..N /\ m \in 0..N
      BY <1>1, <1>6
    <3>2. ASSUME NEW y \in reached[m], y \notin reached[m - 1]
          PROVE  rank[y] <= rank[from]
      <4>1. PICK x \in reached[m - 1] : Arc(edges, x, y)
        BY <1>2, <3>1, <3>2
      <4>2. rank[y] < rank[x] /\ rank[x] <= rank[from]
        BY <1>1, <1>3, <1>11, <2>2, <3>1, <4>1 DEF Respects
      <4>3. x \in D /\ y \in D
        BY <3>1
      <4>4. rank[x] \in Nat /\ rank[y] \in Nat /\ rank[from] \in Nat
        BY <4>3
      <4>5. QED
        BY <4>2, <4>4
    <3>3. QED
      BY <2>2, <3>1, <3>2
  <2> HIDE DEF K
  <2>3. 0..N \subseteq K
    BY <1>1, <2>1, <2>2, Induction
  <2>4. QED
    BY <1>1, <2>3 DEF K
<1>12. QED
  BY <1>5, <1>7, <1>9, <1>10, <1>11

(* No order puts y before x.                                                 *)
Blocked(edges, x, y) ==
  \A rank \in [DOMAIN edges -> Nat] : Respects(rank, edges) => rank[x] <= rank[y]

(* A dependency that has been dealt with: kept, or not without a cycle.      *)
Decided(edges, x, y) == x = y \/ Arc(edges, x, y) \/ Blocked(edges, x, y)

Grows(edges, more) ==
  DOMAIN more = DOMAIN edges /\ \A x, y \in DOMAIN edges : Arc(edges, x, y) => Arc(more, x, y)

Acyclic(edges) == \E rank \in [DOMAIN edges -> Nat] : Respects(rank, edges)

(* What is true of the dependencies at any time, A being those asked for.    *)
Sane(edges, A) ==
  /\ \A x \in DOMAIN edges : IsInjective(edges[x])
  /\ \A x, y \in DOMAIN edges : Arc(edges, x, y) => x # y /\ <<x, y>> \in A
  /\ Acyclic(edges)

LEMMA DecidedGrows ==
  ASSUME NEW edges, NEW more, Grows(edges, more),
         NEW x \in DOMAIN edges, NEW y \in DOMAIN edges, Decided(edges, x, y)
  PROVE  Decided(more, x, y)
<1>1. CASE Blocked(edges, x, y)
  <2>1. ASSUME NEW rank \in [DOMAIN more -> Nat], Respects(rank, more)
        PROVE  rank[x] <= rank[y]
    <3>1. rank \in [DOMAIN edges -> Nat] /\ Respects(rank, edges)
      BY <2>1 DEF Grows, Respects
    <3>2. QED
      BY <1>1, <3>1 DEF Blocked
  <2>2. QED
    BY <2>1 DEF Decided, Blocked
<1>2. QED
  BY <1>1 DEF Decided, Grows

LEMMA GrowsOn ==
  ASSUME NEW a, NEW b, NEW c, Grows(a, b), Grows(b, c)
  PROVE  Grows(a, c)
BY DEF Grows

(* Keep adds the dependency unless it is there already or closes a cycle.    *)
LEMMA KeepStep ==
  ASSUME NEW D, IsFiniteSet(D), NEW A, NEW edges \in [D -> Seq(D)],
         NEW id \in D, NEW dep \in D, <<id, dep>> \in A, Sane(edges, A)
  PROVE  LET kept == Keep(edges, id, dep)
         IN /\ kept \in [D -> Seq(D)]
            /\ Sane(kept, A)
            /\ Grows(edges, kept)
            /\ Decided(kept, id, dep)
<1> DEFINE kept == Keep(edges, id, dep)
<1>0. DOMAIN edges = D
  OBVIOUS
<1>1. PICK R \in SUBSET D :
        /\ dep \in R
        /\ Closed(R, edges)
        /\ \A target : hasPath(dep, target, edges) <=> target \in R
        /\ \A rank \in [D -> Nat] :
             Respects(rank, edges) => \A x \in R : rank[x] <= rank[dep]
  BY Walk
<1>2. CASE dep = id \/ dep \in ToSet(edges[id]) \/ hasPath(dep, id, edges)
  <2>1. kept = edges
    BY <1>2 DEF Keep
  <2>2. Decided(edges, id, dep)
    BY <1>0, <1>1, <1>2 DEF Decided, Arc, Blocked
  <2>3. QED
    BY <2>1, <2>2 DEF Grows
<1>3. CASE ~(dep = id \/ dep \in ToSet(edges[id]) \/ hasPath(dep, id, edges))
  <2>1. kept = [edges EXCEPT ![id] = Append(@, dep)] /\ id \notin R /\ id # dep
        /\ ~Arc(edges, id, dep)
    BY <1>1, <1>3 DEF Keep, Arc
  <2> HIDE DEF kept
  <2>2. edges[id] \in Seq(D)
    OBVIOUS
  <2>3. kept \in [D -> Seq(D)] /\ kept[id] = Append(edges[id], dep)
        /\ \A x \in D \ {id} : kept[x] = edges[x]
    BY <2>1, <2>2
  <2>4. ASSUME NEW x \in D, NEW y
        PROVE  Arc(kept, x, y) <=> Arc(edges, x, y) \/ (x = id /\ y = dep)
    <3>1. CASE x = id
      <4>1. y \in ToSet(Append(edges[id], dep)) <=> y \in ToSet(edges[id]) \/ y = dep
        BY <2>2, AppendedSet
      <4>2. QED
        BY <2>3, <3>1, <4>1 DEF Arc
    <3>2. CASE x # id
      BY <2>3, <3>2 DEF Arc
    <3>3. QED
      BY <3>1, <3>2
  <2>5. ASSUME NEW x \in D
        PROVE  IsInjective(kept[x])
    <3>1. IsInjective(edges[x])
      BY DEF Sane
    <3>2. CASE x = id
      <4>1. \A n \in DOMAIN edges[id] : edges[id][n] # dep
        BY <2>1 DEF Arc, ToSet
      <4>2. IsInjective(Append(edges[id], dep))
        BY <2>2, <3>1, <3>2, <4>1 DEF IsInjective
      <4>3. QED
        BY <2>3, <3>2, <4>2
    <3>3. CASE x # id
      BY <2>3, <3>1, <3>3
    <3>4. QED
      BY <3>2, <3>3
  <2>6. Acyclic(kept)
    <3>1. PICK rank \in [D -> Nat] : Respects(rank, edges)
      BY <1>0 DEF Sane, Acyclic
    <3> DEFINE new == [x \in D |-> IF x \in R THEN rank[x] ELSE rank[x] + rank[dep] + 1]
    <3>2. new \in [D -> Nat]
      OBVIOUS
    <3>3. ASSUME NEW x \in D, NEW y \in D, Arc(kept, x, y)
          PROVE  new[y] < new[x]
      <4>1. rank[x] \in Nat /\ rank[y] \in Nat /\ rank[dep] \in Nat /\ rank[id] \in Nat
        OBVIOUS
      <4>2. CASE Arc(edges, x, y)
        <5>1. rank[y] < rank[x]
          BY <1>0, <3>1, <4>2 DEF Respects
        <5>2. x \in R => y \in R
          BY <1>0, <1>1, <4>2 DEF Closed
        <5>3. QED
          BY <4>1, <5>1, <5>2
      <4>3. CASE x = id /\ y = dep
        <5>1. x \notin R /\ y \in R
          BY <1>1, <2>1, <4>3
        <5>2. QED
          BY <4>1, <4>3, <5>1
      <4>4. QED
        BY <2>4, <3>3, <4>2, <4>3
    <3> HIDE DEF new
    <3>4. Respects(new, kept)
      BY <2>3, <3>3 DEF Respects
    <3>5. QED
      BY <2>3, <3>2, <3>4 DEF Acyclic
  <2>7. Sane(kept, A)
    BY <1>0, <2>1, <2>3, <2>4, <2>5, <2>6 DEF Sane
  <2>8. Grows(edges, kept) /\ Decided(kept, id, dep)
    BY <1>0, <2>3, <2>4 DEF Grows, Decided
  <2>9. QED
    BY <2>3, <2>7, <2>8 DEF kept
<1>4. QED
  BY <1>2, <1>3

(* The dependencies of one section, and those of all.                        *)
LEMMA KeepAllSteps ==
  ASSUME NEW D, IsFiniteSet(D), NEW A, NEW edges \in [D -> Seq(D)], Sane(edges, A),
         NEW id \in D, NEW deps \in Seq(D), \A d \in DOMAIN deps : <<id, deps[d]>> \in A
  PROVE  LET all == KeepAll(edges, id, deps)
         IN /\ all \in [D -> Seq(D)]
            /\ Sane(all, A)
            /\ Grows(edges, all)
            /\ \A d \in DOMAIN deps : Decided(all, id, deps[d])
<1> DEFINE N == Len(deps)
           S == {g \in [D -> Seq(D)] : Sane(g, A)}
           F(f) == [d \in 0..N |-> IF d = 0 THEN edges ELSE Keep(f[d - 1], id, deps[d])]
           kept == CHOOSE f : f = F(f)
           G == [d \in 1..N |-> [g \in S |-> Keep(g, id, deps[d])]]
<1>1. N \in Nat /\ DOMAIN deps = 1..N /\ \A d \in 1..N : deps[d] \in D
  OBVIOUS
<1>2. KeepAll(edges, id, deps) = kept[N]
  BY DEF KeepAll
<1>3. ASSUME NEW g \in S, NEW d \in 1..N
      PROVE  LET more == Keep(g, id, deps[d])
             IN more \in S /\ Grows(g, more) /\ Decided(more, id, deps[d])
  <2>1. g \in [D -> Seq(D)] /\ Sane(g, A) /\ deps[d] \in D /\ <<id, deps[d]>> \in A
    BY <1>1
  <2>2. QED
    BY <2>1, KeepStep
<1>4. G \in [1..N -> [S -> S]] /\ edges \in S
  BY <1>3
<1>5. \A d \in 1..N, g \in S : G[d][g] = Keep(g, id, deps[d])
  OBVIOUS
<1>6. \A g \in S : g \in [D -> Seq(D)] /\ Sane(g, A) /\ DOMAIN g = D
  OBVIOUS
<1> HIDE DEF F, G, S, N, kept
<1>7. PICK f : Iterates(f, S, edges, N, G)
  BY <1>1, <1>4, Recursion
<1>8. \A d \in 1..N : f[d - 1] \in S /\ f[d] = Keep(f[d - 1], id, deps[d])
  <2>1. \A d \in 1..N : f[d - 1] \in S
    BY <1>1, <1>7 DEF Iterates
  <2>2. QED
    BY <1>5, <1>7, <2>1 DEF Iterates
<1>9. f = F(f)
  BY <1>1, <1>7, <1>8 DEF F, Iterates
<1>10. kept = F(kept)
  BY <1>9 DEF kept
<1>11. ASSUME NEW g, NEW h, h = F(g)
       PROVE  /\ h[0] = edges /\ DOMAIN h = 0..N
              /\ \A d \in 1..N : h[d] = Keep(g[d - 1], id, deps[d])
  BY <1>1, <1>11 DEF F
<1>12. /\ kept[0] = edges
       /\ \A d \in 1..N : kept[d] = Keep(kept[d - 1], id, deps[d])
  BY <1>10, <1>11
<1> DEFINE K == {n \in 0..N : /\ kept[n] \in S
                              /\ Grows(edges, kept[n])
                              /\ \A d \in 1..n : Decided(kept[n], id, deps[d])}
<1>13. 0 \in K
  BY <1>1, <1>4, <1>12 DEF Grows
<1>14. ASSUME NEW n \in 1..N, n - 1 \in K
       PROVE  n \in K
  <2>1. /\ kept[n - 1] \in S /\ Grows(edges, kept[n - 1])
        /\ \A d \in 1..(n - 1) : Decided(kept[n - 1], id, deps[d])
        /\ kept[n] = Keep(kept[n - 1], id, deps[n])
    BY <1>12, <1>14
  <2>2. kept[n] \in S /\ Grows(kept[n - 1], kept[n]) /\ Decided(kept[n], id, deps[n])
    BY <1>3, <2>1
  <2>3. ASSUME NEW d \in 1..n
        PROVE  Decided(kept[n], id, deps[d])
    <3>1. CASE d = n
      BY <2>2, <3>1
    <3>2. CASE d # n
      <4>1. d \in 1..(n - 1) /\ d \in 1..N /\ DOMAIN kept[n - 1] = D
        BY <1>1, <1>6, <2>1, <3>2
      <4>2. QED
        BY <1>1, <2>1, <2>2, <4>1, DecidedGrows
    <3>3. QED
      BY <3>1, <3>2
  <2>4. n \in 0..N
    BY <1>1
  <2>5. QED
    BY <2>1, <2>2, <2>3, <2>4, GrowsOn
<1> HIDE DEF K
<1>15. 0..N \subseteq K
  BY <1>1, <1>13, <1>14, Induction
<1>16. N \in K
  BY <1>1, <1>15
<1>17. QED
  BY <1>1, <1>2, <1>6, <1>16 DEF K

LEMMA SanitizeSteps ==
  ASSUME NEW ids, NEW D, D = ToSet(ids), IsFiniteSet(D), ids \in Seq(D),
         NEW translated \in [1..Len(ids) -> Seq(D)],
         NEW A, \A n \in 1..Len(ids) : \A d \in DOMAIN translated[n] :
                  <<ids[n], translated[n][d]>> \in A
  PROVE  LET all == sanitizeDependencies(ids, translated)
         IN /\ all \in [D -> Seq(D)]
            /\ Sane(all, A)
            /\ \A n \in 1..Len(ids) : \A d \in DOMAIN translated[n] :
                 Decided(all, ids[n], translated[n][d])
<1> DEFINE N == Len(ids)
           none == [id \in D |-> <<>>]
           S == {g \in [D -> Seq(D)] : Sane(g, A)}
           F(f) == [n \in 0..N |-> IF n = 0 THEN none ELSE KeepAll(f[n - 1], ids[n], translated[n])]
           kept == CHOOSE f : f = F(f)
           G == [n \in 1..N |-> [g \in S |-> KeepAll(g, ids[n], translated[n])]]
<1>1. N \in Nat /\ \A n \in 1..N : ids[n] \in D
  OBVIOUS
<1>2. sanitizeDependencies(ids, translated) = kept[N]
  BY DEF sanitizeDependencies
<1>3. ASSUME NEW g \in S, NEW n \in 1..N
      PROVE  LET all == KeepAll(g, ids[n], translated[n])
             IN /\ all \in S /\ Grows(g, all)
                /\ \A d \in DOMAIN translated[n] : Decided(all, ids[n], translated[n][d])
  <2>1. g \in [D -> Seq(D)] /\ Sane(g, A) /\ translated[n] \in Seq(D)
        /\ \A d \in DOMAIN translated[n] : <<ids[n], translated[n][d]>> \in A
    OBVIOUS
  <2>2. QED
    BY <1>1, <2>1, KeepAllSteps
<1>4. none \in S
  <2>1. none \in [D -> Seq(D)]
    OBVIOUS
  <2>2. \A x, y : ~Arc(none, x, y) \/ x \notin D
    <3>1. ToSet(<<>>) = {} /\ \A x \in D : none[x] = <<>>
      BY DEF ToSet
    <3> HIDE DEF none
    <3>2. QED
      BY <3>1 DEF Arc
  <2>3. \A x \in D : IsInjective(none[x])
    BY DEF IsInjective
  <2>4. Acyclic(none)
    <3>1. [x \in D |-> 0] \in [DOMAIN none -> Nat]
      OBVIOUS
    <3>2. Respects([x \in D |-> 0], none)
      BY <2>2 DEF Respects
    <3>3. QED
      BY <3>1, <3>2 DEF Acyclic
  <2>5. DOMAIN none = D
    OBVIOUS
  <2> HIDE DEF none
  <2>6. Sane(none, A)
    BY <2>2, <2>3, <2>4, <2>5 DEF Sane
  <2>7. QED
    BY <2>1, <2>6
<1>5. G \in [1..N -> [S -> S]]
  BY <1>3
<1>6. \A n \in 1..N, g \in S : G[n][g] = KeepAll(g, ids[n], translated[n])
  OBVIOUS
<1>7. \A g \in S : g \in [D -> Seq(D)] /\ Sane(g, A) /\ DOMAIN g = D
  OBVIOUS
<1> HIDE DEF F, G, S, N, kept, none
<1>8. PICK f : Iterates(f, S, none, N, G)
  BY <1>1, <1>4, <1>5, Recursion
<1>9. \A n \in 1..N : f[n - 1] \in S /\ f[n] = KeepAll(f[n - 1], ids[n], translated[n])
  <2>1. \A n \in 1..N : f[n - 1] \in S
    BY <1>1, <1>8 DEF Iterates
  <2>2. QED
    BY <1>6, <1>8, <2>1 DEF Iterates
<1>10. f = F(f)
  BY <1>1, <1>8, <1>9 DEF F, Iterates
<1>11. kept = F(kept)
  BY <1>10 DEF kept
<1>12. ASSUME NEW g, NEW h, h = F(g)
       PROVE  /\ h[0] = none
              /\ \A n \in 1..N : h[n] = KeepAll(g[n - 1], ids[n], translated[n])
  BY <1>1, <1>12 DEF F
<1>13. /\ kept[0] = none
       /\ \A n \in 1..N : kept[n] = KeepAll(kept[n - 1], ids[n], translated[n])
  BY <1>11, <1>12
<1> DEFINE K == {n \in 0..N :
                   /\ kept[n] \in S
                   /\ \A m \in 1..n : \A d \in DOMAIN translated[m] :
                        Decided(kept[n], ids[m], translated[m][d])}
<1>14. 0 \in K
  BY <1>1, <1>4, <1>13
<1>15. ASSUME NEW n \in 1..N, n - 1 \in K
       PROVE  n \in K
  <2>1. /\ kept[n - 1] \in S
        /\ \A m \in 1..(n - 1) : \A d \in DOMAIN translated[m] :
             Decided(kept[n - 1], ids[m], translated[m][d])
        /\ kept[n] = KeepAll(kept[n - 1], ids[n], translated[n])
    BY <1>13, <1>15
  <2>2. /\ kept[n] \in S /\ Grows(kept[n - 1], kept[n])
        /\ \A d \in DOMAIN translated[n] : Decided(kept[n], ids[n], translated[n][d])
    BY <1>3, <2>1
  <2>3. ASSUME NEW m \in 1..n, NEW d \in DOMAIN translated[m]
        PROVE  Decided(kept[n], ids[m], translated[m][d])
    <3>1. CASE m = n
      BY <2>2, <3>1
    <3>2. CASE m # n
      <4>1. m \in 1..(n - 1) /\ m \in 1..N /\ DOMAIN kept[n - 1] = D
        BY <1>1, <1>7, <2>1, <3>2
      <4>2. translated[m][d] \in D /\ ids[m] \in D
        BY <1>1, <4>1 DEF N
      <4>3. QED
        BY <2>1, <2>2, <4>1, <4>2, DecidedGrows
    <3>3. QED
      BY <3>1, <3>2
  <2>4. n \in 0..N
    BY <1>1
  <2>5. QED
    BY <2>2, <2>3, <2>4
<1> HIDE DEF K
<1>16. 0..N \subseteq K
  BY <1>1, <1>14, <1>15, Induction
<1>17. N \in K
  BY <1>1, <1>16
<1>18. QED
  BY <1>2, <1>7, <1>17 DEF K, N

(* The ids that the indices in range stand for.                              *)
LEMMA Translated ==
  ASSUME NEW D, NEW ids \in Seq(D), NEW deps \in Seq(Int)
  PROVE  LET known == translateDependencyIndices(deps, ids)
         IN /\ known \in Seq(D)
            /\ \A y : y \in ToSet(known) <=>
                 \E i \in 1..Len(ids) : i - 1 \in ToSet(deps) /\ y = ids[i]
<1> DEFINE N == Len(deps)
           S == Seq(D)
           inRange == 0..(Len(ids) - 1)
           More(k, d) == IF deps[d] \in inRange THEN Append(k, ids[deps[d] + 1]) ELSE k
           F(f) == [d \in 0..N |->
                      IF d = 0 THEN <<>>
                      ELSE IF deps[d] \in inRange THEN Append(f[d - 1], ids[deps[d] + 1])
                      ELSE f[d - 1]]
           known == CHOOSE f : f = F(f)
           G == [d \in 1..N |-> [k \in S |-> More(k, d)]]
<1>1. N \in Nat /\ DOMAIN deps = 1..N /\ \A d \in 1..N : deps[d] \in Int
  OBVIOUS
<1>2. translateDependencyIndices(deps, ids) = known[N]
  BY DEF translateDependencyIndices
<1>3. \A d \in 1..N : deps[d] \in inRange => ids[deps[d] + 1] \in D
  BY <1>1
<1>4. \A k \in S, d \in 1..N : More(k, d) \in S
  BY <1>3
<1>5. G \in [1..N -> [S -> S]] /\ <<>> \in S
  BY <1>4
<1>6. \A d \in 1..N, k \in S : G[d][k] = More(k, d)
  OBVIOUS
<1>7. \A f : F(f) = [d \in 0..N |-> IF d = 0 THEN <<>> ELSE More(f[d - 1], d)]
  OBVIOUS
<1> HIDE DEF F, G, S, N, known, More
<1>8. PICK f : Iterates(f, S, <<>>, N, G)
  BY <1>1, <1>5, Recursion
<1>9. \A d \in 1..N : f[d - 1] \in S /\ f[d] = More(f[d - 1], d)
  <2>0. \A d \in 1..N : d - 1 \in 0..N
    BY <1>1
  <2>1. \A d \in 1..N : f[d - 1] \in S
    BY <1>8, <2>0 DEF Iterates
  <2>2. QED
    BY <1>6, <1>8, <2>1 DEF Iterates
<1>10. f = F(f)
  <2>1. f = [d \in 0..N |-> IF d = 0 THEN <<>> ELSE More(f[d - 1], d)]
    BY <1>1, <1>8, <1>9 DEF Iterates
  <2>2. QED
    BY <1>7, <2>1
<1>11. known = F(known)
  BY <1>10 DEF known
<1>12. ASSUME NEW g, NEW h, h = F(g)
       PROVE  h[0] = <<>> /\ \A d \in 1..N : h[d] = More(g[d - 1], d)
  BY <1>1, <1>7, <1>12
<1>13. known[0] = <<>> /\ \A d \in 1..N : known[d] = More(known[d - 1], d)
  BY <1>11, <1>12
<1> DEFINE From(n, y) == \E d \in 1..n : deps[d] \in inRange /\ y = ids[deps[d] + 1]
           K == {n \in 0..N : known[n] \in S /\ \A y : y \in ToSet(known[n]) <=> From(n, y)}
<1>14. 0 \in K
  <2>1. \A y : y \notin ToSet(<<>>)
    BY DEF ToSet
  <2>2. \A y : ~From(0, y)
    OBVIOUS
  <2>3. QED
    BY <1>1, <1>5, <1>13, <2>1, <2>2
<1>15. ASSUME NEW n \in 1..N, n - 1 \in K
       PROVE  n \in K
  <2>1. /\ known[n - 1] \in S /\ known[n] = More(known[n - 1], n)
        /\ \A y : y \in ToSet(known[n - 1]) <=> From(n - 1, y)
    BY <1>13, <1>15
  <2>2. known[n] \in S
    BY <1>4, <2>1
  <2>3. ASSUME NEW y
        PROVE  y \in ToSet(known[n]) <=>
                 y \in ToSet(known[n - 1]) \/ (deps[n] \in inRange /\ y = ids[deps[n] + 1])
    <3>1. CASE deps[n] \in inRange
      <4>1. known[n] = Append(known[n - 1], ids[deps[n] + 1])
        BY <2>1, <3>1 DEF More
      <4>2. known[n - 1] \in Seq(D) /\ ids[deps[n] + 1] \in D
        BY <1>3, <2>1, <3>1 DEF S
      <4>3. QED
        BY <3>1, <4>1, <4>2, AppendedSet
    <3>2. CASE deps[n] \notin inRange
      BY <2>1, <3>2 DEF More
    <3>3. QED
      BY <3>1, <3>2
  <2>4. ASSUME NEW y
        PROVE  From(n, y) <=> From(n - 1, y) \/ (deps[n] \in inRange /\ y = ids[deps[n] + 1])
    <3>1. 1..n = (1..(n - 1)) \cup {n}
      BY <1>1
    <3>2. QED
      BY <3>1, Zenon
  <2> HIDE DEF From
  <2>5. \A y : y \in ToSet(known[n]) <=> From(n, y)
    BY <2>1, <2>3, <2>4
  <2>6. n \in 0..N
    BY <1>1
  <2>7. QED
    BY <2>2, <2>5, <2>6
<1> HIDE DEF K
<1>16. 0..N \subseteq K
  BY <1>1, <1>14, <1>15, Induction
<1>17. N \in K
  BY <1>1, <1>16
<1>18. ASSUME NEW y
       PROVE  From(N, y) <=> \E i \in 1..Len(ids) : i - 1 \in ToSet(deps) /\ y = ids[i]
  <2>1. \A i : i \in ToSet(deps) <=> \E d \in 1..N : deps[d] = i
    BY <1>1 DEF ToSet
  <2>2. Len(ids) \in Nat
    OBVIOUS
  <2>3. ASSUME From(N, y)
        PROVE  \E i \in 1..Len(ids) : i - 1 \in ToSet(deps) /\ y = ids[i]
    <3>1. PICK d \in 1..N : deps[d] \in inRange /\ y = ids[deps[d] + 1]
      BY <2>3
    <3>2. deps[d] + 1 \in 1..Len(ids) /\ (deps[d] + 1) - 1 = deps[d]
      BY <1>1, <2>2, <3>1
    <3>3. QED
      BY <2>1, <3>1, <3>2
  <2>4. ASSUME NEW i \in 1..Len(ids), i - 1 \in ToSet(deps), y = ids[i]
        PROVE  From(N, y)
    <3>1. PICK d \in 1..N : deps[d] = i - 1
      BY <2>1, <2>4
    <3>2. deps[d] \in inRange /\ deps[d] + 1 = i
      BY <2>2, <3>1
    <3>3. QED
      BY <2>4, <3>2
  <2>5. QED
    BY <2>3, <2>4
<1>19. QED
  BY <1>2, <1>17, <1>18 DEF K, S

LEMMA IdsUnique ==
  ASSUME NEW T, NEW given \in Seq(T)
  PROVE  LET ids == SectionIds(given)
         IN /\ ids \in Seq(ToSet(ids)) /\ Len(ids) = Len(given) /\ IsFiniteSet(ToSet(ids))
            /\ \A s, t \in 1..Len(given) : ids[s] = ids[t] => s = t
<1> DEFINE ids == SectionIds(given)
           Earlier(n) == {m \in 1..(n - 1) : given[m].text = given[n].text}
<1>1. DOMAIN given = 1..Len(given) /\ Len(given) \in Nat
  OBVIOUS
<1>2. ids = [n \in 1..Len(given) |-> <<given[n].text, Cardinality(Earlier(n))>>]
  BY <1>1 DEF SectionIds
<1> HIDE DEF ids
<1>3. DOMAIN ids = 1..Len(given) /\ \A n \in 1..Len(given) : ids[n] \in ToSet(ids)
  BY <1>2 DEF ToSet
<1>4. ids = [n \in 1..Len(given) |-> ids[n]]
  BY <1>2
<1>5. ids \in [1..Len(given) -> ToSet(ids)]
  BY <1>3, <1>4
<1>6. ids \in Seq(ToSet(ids)) /\ Len(ids) = Len(given)
  BY <1>1, <1>5
<1>7. ASSUME NEW s \in 1..Len(given), NEW t \in 1..Len(given), s < t
      PROVE  ids[s] # ids[t]
  <2>1. CASE given[s].text = given[t].text
    <3>1. Earlier(s) \cup {s} \subseteq Earlier(t) /\ s \notin Earlier(s)
      BY <1>1, <1>7, <2>1
    <3>2. IsFiniteSet(1..(t - 1)) /\ Earlier(t) \subseteq 1..(t - 1)
      <4>1. 1 \in Int /\ t - 1 \in Int
        BY <1>1
      <4>2. QED
        BY <4>1, FS_Interval
    <3> HIDE DEF Earlier
    <3>3. IsFiniteSet(Earlier(t)) /\ IsFiniteSet(Earlier(s))
      BY <3>1, <3>2, FS_Subset
    <3>4. Cardinality(Earlier(s) \cup {s}) = Cardinality(Earlier(s)) + 1
          /\ Cardinality(Earlier(s) \cup {s}) <= Cardinality(Earlier(t))
      BY <3>1, <3>3, FS_AddElement, FS_Subset
    <3>5. Cardinality(Earlier(s)) \in Nat /\ Cardinality(Earlier(t)) \in Nat
      BY <3>3, FS_CardinalityType
    <3>6. Cardinality(Earlier(s)) # Cardinality(Earlier(t))
      BY <3>4, <3>5
    <3>7. QED
      BY <1>2, <3>6
  <2>2. CASE given[s].text # given[t].text
    <3> HIDE DEF Earlier
    <3>1. QED
      BY <1>2, <2>2
  <2>3. QED
    BY <2>1, <2>2
<1>8. IsFiniteSet(ToSet(ids))
  <2>1. IsFiniteSet(1..Len(given))
    BY <1>1, FS_Interval
  <2>2. ids \in Surjection(1..Len(given), ToSet(ids))
    BY <1>3, <1>5 DEF Surjection, ToSet
  <2>3. QED
    BY <2>1, <2>2, FS_Surjection
<1>9. \A s, t \in 1..Len(given) : ids[s] = ids[t] => s = t
  <2>1. \A s, t \in 1..Len(given) : s < t \/ t < s \/ s = t
    BY <1>1
  <2>2. QED
    BY <1>7, <2>1
<1>10. QED
  BY <1>6, <1>8, <1>9 DEF ids

(* Ranks that are numbers make an order of 1..n.                             *)
LEMMA RanksOrder ==
  ASSUME NEW n \in Nat, NEW edges \in SUBSET ((1..n) \X (1..n)), NEW rank \in [1..n -> Nat],
         \A e \in edges : rank[e[2]] < rank[e[1]]
  PROVE  CanBeOrdered(n, edges)
<1> DEFINE Below(s) == {u \in 1..n : rank[u] < rank[s]}
           place == [s \in 1..n |-> Cardinality(Below(s)) + 1]
<1>1. ASSUME NEW s \in 1..n
      PROVE  IsFiniteSet(Below(s)) /\ Cardinality(Below(s)) \in Nat /\ place[s] \in 1..n
  <2>1. IsFiniteSet(1..n) /\ Cardinality(1..n) = n
    BY FS_Interval
  <2>2. Below(s) \subseteq 1..n /\ s \notin Below(s)
    OBVIOUS
  <2>3. IsFiniteSet(Below(s)) /\ Cardinality(Below(s)) <= n /\ Cardinality(Below(s)) \in Nat
        /\ Cardinality(Below(s)) # n
    <3> HIDE DEF Below
    <3>1. QED
      BY <2>1, <2>2, FS_Subset, FS_CardinalityType
  <2>4. QED
    BY <2>3
<1>2. ASSUME NEW e \in edges
      PROVE  place[e[2]] < place[e[1]]
  <2>1. e[1] \in 1..n /\ e[2] \in 1..n /\ rank[e[2]] < rank[e[1]]
    OBVIOUS
  <2>2. Below(e[2]) \cup {e[2]} \subseteq Below(e[1]) /\ e[2] \notin Below(e[2])
    BY <2>1
  <2>3. IsFiniteSet(Below(e[1])) /\ IsFiniteSet(Below(e[2]))
        /\ Cardinality(Below(e[1])) \in Nat /\ Cardinality(Below(e[2])) \in Nat
    BY <1>1, <2>1
  <2>4. place[e[1]] = Cardinality(Below(e[1])) + 1 /\ place[e[2]] = Cardinality(Below(e[2])) + 1
    BY <2>1
  <2> HIDE DEF Below, place
  <2>5. Cardinality(Below(e[2]) \cup {e[2]}) = Cardinality(Below(e[2])) + 1
        /\ Cardinality(Below(e[2]) \cup {e[2]}) <= Cardinality(Below(e[1]))
    BY <2>2, <2>3, FS_AddElement, FS_Subset
  <2>6. QED
    BY <2>3, <2>4, <2>5
<1>3. place \in [1..n -> 1..n]
  BY <1>1
<1> HIDE DEF place
<1>4. QED
  BY <1>2, <1>3 DEF CanBeOrdered

(* What POST /segment makes of any classification at all is sound, however   *)
(* many sections it has and whatever their texts and indices are.            *)
THEOREM NormalizedIsSound ==
  ASSUME NEW T, NEW given \in Seq(T), \A n \in DOMAIN given : given[n].deps \in Seq(Int)
  PROVE  IsSound(given, Normalized(given))
<1> DEFINE N == Len(given)
           ids == SectionIds(given)
           D == ToSet(ids)
           translated == [n \in DOMAIN given |-> translateDependencyIndices(given[n].deps, ids)]
           kept == sanitizeDependencies(ids, translated)
           sections == Normalized(given)
           Asks(s, t) == t - 1 \in ToSet(given[s].deps)
           A == {p \in D \X D : \E s, t \in 1..N : p = <<ids[s], ids[t]>> /\ Asks(s, t)}
           edges == Edges(sections)
<1>1. DOMAIN given = 1..N /\ N \in Nat
  OBVIOUS
<1>2. /\ ids \in Seq(D) /\ Len(ids) = N /\ IsFiniteSet(D)
      /\ \A s, t \in 1..N : ids[s] = ids[t] => s = t
  BY IdsUnique
<1>3. \A x : x \in D <=> \E s \in 1..N : ids[s] = x
  BY <1>2 DEF ToSet
<1>4. \A n \in 1..N : given[n].deps \in Seq(Int)
  BY <1>1
<1>5. /\ DOMAIN sections = 1..N /\ Len(sections) = N
      /\ \A n \in 1..N : sections[n].id = ids[n] /\ sections[n].depends_on = kept[ids[n]]
  <2> DEFINE goal(n) == normalizeGoalType(given[n].label)
             Row(n) == [id |-> ids[n], text |-> given[n].text, goal_type |-> goal(n),
                        canonical_order |-> canonicalSlotForGoalType(goal(n)),
                        depends_on |-> kept[ids[n]]]
  <2>1. sections = [n \in 1..N |-> Row(n)]
    BY <1>1, Zenon DEF Normalized
  <2>2. \A n : Row(n).id = ids[n] /\ Row(n).depends_on = kept[ids[n]]
    OBVIOUS
  <2> HIDE DEF Row, N, ids, kept, sections
  <2>3. QED
    BY <1>1, <2>1, <2>2
<1> HIDE DEF N, ids, D, sections, Asks
<1>6. ASSUME NEW n \in 1..N
      PROVE  /\ translated[n] \in Seq(D)
             /\ \A y : y \in ToSet(translated[n]) <=> \E t \in 1..N : Asks(n, t) /\ y = ids[t]
  <2>1. translated[n] = translateDependencyIndices(given[n].deps, ids)
    BY <1>1
  <2> HIDE DEF translated
  <2> DEFINE deps == given[n].deps
             known == translateDependencyIndices(deps, ids)
  <2>2. deps \in Seq(Int) /\ ids \in Seq(D)
    BY <1>2, <1>4
  <2> HIDE DEF deps
  <2>3. /\ known \in Seq(D)
        /\ \A y : y \in ToSet(known) <=>
             \E t \in 1..Len(ids) : t - 1 \in ToSet(deps) /\ y = ids[t]
    BY <2>2, Translated
  <2> HIDE DEF known
  <2>4. QED
    BY <1>2, <2>1, <2>3 DEF Asks, known, deps
<1>7. translated \in [1..Len(ids) -> Seq(D)]
  BY <1>1, <1>2, <1>6
<1> HIDE DEF translated, kept, A
<1>8. ASSUME NEW n \in 1..N, NEW d \in DOMAIN translated[n]
      PROVE  <<ids[n], translated[n][d]>> \in A
  <2>1. translated[n][d] \in ToSet(translated[n])
    BY DEF ToSet
  <2>2. PICK t \in 1..N : Asks(n, t) /\ translated[n][d] = ids[t]
    BY <1>6, <2>1
  <2>3. ids[n] \in D /\ ids[t] \in D
    BY <1>3
  <2>4. QED
    BY <2>2, <2>3 DEF A
<1>9. /\ kept \in [D -> Seq(D)]
      /\ Sane(kept, A)
      /\ \A n \in 1..N : \A d \in DOMAIN translated[n] : Decided(kept, ids[n], translated[n][d])
  BY <1>2, <1>7, <1>8, SanitizeSteps DEF D, kept
<1>10. DOMAIN kept = D
  BY <1>9
<1>11. \A s, t \in 1..N : <<s, t>> \in edges <=> Arc(kept, ids[s], ids[t])
  BY <1>5 DEF Edges, Arc
<1>12. edges \subseteq (1..N) \X (1..N)
  BY <1>5 DEF Edges
<1>13. Asked(given) \subseteq (1..N) \X (1..N)
       /\ \A s, t \in 1..N : <<s, t>> \in Asked(given) <=> s # t /\ Asks(s, t)
  BY <1>1 DEF Asked, Asks
<1> HIDE DEF edges
<1>14. \A s, t \in DOMAIN sections : sections[s].id = sections[t].id => s = t
  BY <1>2, <1>5
<1>15. \A s \in DOMAIN sections : IsInjective(sections[s].depends_on)
  BY <1>3, <1>5, <1>9, <1>10 DEF Sane
<1>16. edges \subseteq Asked(given)
  <2>1. ASSUME NEW s \in 1..N, NEW t \in 1..N, <<s, t>> \in edges
        PROVE  <<s, t>> \in Asked(given)
    <3>1. ids[s] \in D /\ ids[t] \in D /\ Arc(kept, ids[s], ids[t])
      BY <1>3, <1>11, <2>1
    <3>2. ids[s] # ids[t] /\ <<ids[s], ids[t]>> \in A
      BY <1>9, <1>10, <3>1 DEF Sane
    <3>3. PICK u \in 1..N, v \in 1..N : <<ids[s], ids[t]>> = <<ids[u], ids[v]>> /\ Asks(u, v)
      BY <3>2 DEF A
    <3>4. u = s /\ v = t
      BY <1>2, <3>3
    <3>5. QED
      BY <1>13, <3>2, <3>3, <3>4
  <2>2. QED
    BY <1>12, <2>1
<1>17. CanBeOrdered(N, edges)
  <2>1. PICK rank \in [D -> Nat] : Respects(rank, kept)
    BY <1>9, <1>10 DEF Sane, Acyclic
  <2> DEFINE place == [s \in 1..N |-> rank[ids[s]]]
  <2>2. place \in [1..N -> Nat]
    BY <1>3
  <2>3. ASSUME NEW s \in 1..N, NEW t \in 1..N, <<s, t>> \in edges
        PROVE  place[t] < place[s]
    BY <1>3, <1>10, <1>11, <2>1, <2>3 DEF Respects
  <2>4. \A e \in edges : place[e[2]] < place[e[1]]
    <3> HIDE DEF place
    <3>1. QED
      BY <1>12, <2>3
  <2> HIDE DEF place
  <2>5. edges \in SUBSET ((1..N) \X (1..N))
    BY <1>12
  <2>6. QED
    BY <1>1, <2>2, <2>4, <2>5, RanksOrder
<1>18. ASSUME NEW e \in Asked(given) \ edges
       PROVE  ~CanBeOrdered(N, edges \cup {e})
  <2>1. PICK s \in 1..N, t \in 1..N : e = <<s, t>>
    BY <1>13
  <2>2. s # t /\ Asks(s, t) /\ ~Arc(kept, ids[s], ids[t])
    BY <1>11, <1>13, <2>1
  <2>3. ids[t] \in ToSet(translated[s])
    BY <1>6, <2>2
  <2>4. PICK d \in DOMAIN translated[s] : translated[s][d] = ids[t]
    BY <2>3 DEF ToSet
  <2>5. Decided(kept, ids[s], ids[t])
    BY <1>9, <2>4
  <2>6. Blocked(kept, ids[s], ids[t])
    BY <1>2, <2>2, <2>5 DEF Decided
  <2>7. ASSUME NEW place \in [1..N -> 1..N],
               \A a \in edges \cup {e} : place[a[2]] < place[a[1]]
        PROVE  FALSE
    <3> DEFINE index(x) == CHOOSE u \in 1..N : ids[u] = x
               rank == [x \in D |-> place[index(x)]]
    <3>1. \A x \in D : index(x) \in 1..N /\ ids[index(x)] = x
      BY <1>3
    <3>2. \A u \in 1..N : index(ids[u]) = u
      BY <1>2, <1>3, <3>1
    <3> HIDE DEF index
    <3>3. rank \in [D -> Nat] /\ \A u \in 1..N : rank[ids[u]] = place[u]
      BY <1>1, <1>3, <3>1, <3>2
    <3>4. ASSUME NEW x \in D, NEW y \in D, Arc(kept, x, y)
          PROVE  rank[y] < rank[x]
      <4>1. PICK u \in 1..N, v \in 1..N : ids[u] = x /\ ids[v] = y
        BY <1>3
      <4>2. <<u, v>> \in edges
        BY <1>11, <3>4, <4>1
      <4>3. place[v] < place[u]
        BY <2>7, <4>2
      <4>4. QED
        BY <3>3, <4>1, <4>3
    <3> HIDE DEF rank
    <3>5. Respects(rank, kept)
      BY <1>10, <3>4 DEF Respects
    <3>6. rank[ids[s]] <= rank[ids[t]]
      BY <1>10, <2>6, <3>3, <3>5 DEF Blocked
    <3>7. place[t] < place[s]
      BY <2>1, <2>7
    <3>8. place[s] \in Nat /\ place[t] \in Nat
      BY <1>1
    <3>9. QED
      BY <3>3, <3>6, <3>7, <3>8
  <2>8. QED
    BY <2>7 DEF CanBeOrdered
<1>19. QED
  BY <1>5, <1>14, <1>15, <1>16, <1>17, <1>18 DEF IsSound, edges, sections, N

(* The answer to POST /segment is sound for every classification and not     *)
(* only for the small ones: ids are unique, dependencies have no cycle, and  *)
(* none that was asked for is missing unless it would close one.             *)
THEOREM AnswersSound == Spec => []AnswersAreAcyclic
<1>1. TypeOK => AnswersAreAcyclic
  <2> SUFFICES ASSUME TypeOK
               PROVE  IsSound(raw, Normalized(raw))
    BY DEF AnswersAreAcyclic
  <2>1. raw \in Seq(Sections)
    BY DEF TypeOK
  <2>2. \A n \in DOMAIN raw : raw[n] \in Sections
    BY <2>1
  <2>3. \A n \in DOMAIN raw : raw[n].deps \in Seq(Int)
    BY <2>2 DEF Sections
  <2>4. QED
    BY <2>1, <2>3, NormalizedIsSound
<1>2. QED
  BY <1>1, RoutesTypeCorrect, PTL
===============================================================================
