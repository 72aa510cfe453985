---------------------------- MODULE RateLimitProofs ----------------------------
(* Proofs about RateLimit, for any number of calls and owners, any limits,   *)
(* windows and day, and every fault.                                         *)
EXTENDS RateLimit, FiniteSetTheorems, TLAPS

CallTypes ==
  /\ profile \in [Owners -> Tiers]
  /\ path \in [Calls -> Paths]
  /\ tier \in [Calls -> Tiers]
  /\ at \in [Calls -> {"new", "done"} \cup Working]
  /\ quota \in [Calls -> Quotas]
  /\ used \in [Calls -> [Quotas -> Nat]]
  /\ outcome \in [Calls -> {"none", "unauthorized", "unavailable", "exceeded",
                            "forbidden", "admitted"}]
  /\ late \in [Calls -> {"none", "incr", "arm"}]
  /\ stale \in [Calls -> BOOLEAN]

CounterTypes ==
  /\ count \in [Keys -> Nat]
  /\ left \in [Keys -> Nat \cup {NoExpiry}]
  /\ \A k \in Keys : left[k] # 0 /\ (count[k] = 0 => left[k] = NoExpiry)
  /\ midnight \in 1..DayLength
  /\ span \in [Keys -> SUBSET Calls]
  /\ cut \in [Owners -> BOOLEAN]

(* What a call has behind it at each point of its way.                       *)
CallInv(c) ==
  /\ outcome[c] = "none" <=> at[c] # "done"
  /\ at[c] = "new" => \A q \in Quotas : used[c][q] = 0
  /\ at[c] = "incr" => used[c][quota[c]] = 0
  /\ at[c] \in {"look", "arm"} => used[c][quota[c]] > 0
  /\ at[c] \in Working /\ quota[c] = "daily" => used[c]["burst"] = 0
  /\ stale[c] => quota[c] = "daily"
  /\ late[c] # "none" => at[c] = "done"
  /\ \A q \in Quotas : used[c][q] > Limit[q] => q = quota[c] /\ outcome[c] # "admitted"
  /\ path[c] = "llm" /\ at[c] \in Working => quota[c] # "token"
  /\ path[c] # "llm" /\ at[c] \in Working => quota[c] = "token"
  /\ path[c] = "llm" /\ at[c] \in Working /\ quota[c] = "burst" /\ profile[Owner[c]] = "free"
       => used[c]["daily"] > 0
  /\ path[c] = "llm" /\ outcome[c] = "admitted" =>
       /\ quota[c] = "burst" /\ used[c]["burst"] > 0
       /\ profile[Owner[c]] = "free" => used[c]["daily"] > 0

(* The calls counted in a key had different answers of its INCRs.            *)
SpanInv(k) ==
  /\ k[1] = "daily" => left[k] \in {NoExpiry, midnight}
  /\ \A c \in span[k] : Owner[c] = k[2] /\ used[c][k[1]] > 0
  /\ Exempt(k) \/
       /\ \A c \in span[k] : used[c][k[1]] <= count[k]
       /\ \A c, d \in span[k] : used[c][k[1]] = used[d][k[1]] => c = d
       /\ \A c \in span[k] : Answered(c, k[1]) => left[k] # NoExpiry

Inv ==
  /\ CallTypes
  /\ CounterTypes
  /\ \A c \in Calls : CallInv(c)
  /\ \A k \in Keys : SpanInv(k)

LEMMA IntervalSize == ASSUME NEW n \in Nat PROVE IsFiniteSet(1..n) /\ Cardinality(1..n) = n
<1>1. IsFiniteSet(1..n) /\ Cardinality(1..n) = IF 1 > n THEN 0 ELSE n - 1 + 1
  BY FS_Interval
<1> QED BY <1>1

USE CallsAssumption, QuotaAssumption, TierAssumption

LEMMA Parts == TypeOK <=> CallTypes /\ CounterTypes
BY DEF TypeOK, CallTypes, CounterTypes

LEMMA Pairs ==
  /\ \A q \in Quotas, o \in Owners : /\ <<q, o>> \in Keys
                                     /\ <<q, o>>[1] = q /\ <<q, o>>[2] = o
  /\ \A k \in Keys : k[1] \in Quotas /\ k[2] \in Owners /\ k = <<k[1], k[2]>>
BY DEF Keys

LEMMA Limits == \A q \in Quotas : Limit[q] \in Nat /\ Limit[q] > 0
OBVIOUS

LEMMA InitInv == Init => Inv
<1> SUFFICES ASSUME Init PROVE Inv
  OBVIOUS
<1>1. CallTypes
  BY DEF Init, CallTypes, Quotas, Working
<1>2. CounterTypes
  BY DEF Init, CounterTypes, NoExpiry
<1>3. ASSUME NEW c \in Calls PROVE CallInv(c)
  BY <1>3, Limits DEF Init, CallInv, Quotas, Working
<1>4. ASSUME NEW k \in Keys PROVE SpanInv(k)
  BY <1>4 DEF Init, SpanInv
<1> QED BY <1>1, <1>2, <1>3, <1>4 DEF Inv

(* Nothing but the calls and counters of c's step has changed.               *)
OthersKept(c) ==
  \A d \in Calls \ {c} :
    /\ path'[d] = path[d] /\ at'[d] = at[d] /\ quota'[d] = quota[d]
    /\ used'[d] = used[d] /\ outcome'[d] = outcome[d] /\ late'[d] = late[d]
    /\ stale'[d] = stale[d]

LEMMA OthersStay ==
  ASSUME NEW c \in Calls, OthersKept(c), profile' = profile, \A d \in Calls : CallInv(d),
         CallInv(c)'
  PROVE  \A d \in Calls : CallInv(d)'
<1> SUFFICES ASSUME NEW d \in Calls, d # c PROVE CallInv(d)'
  OBVIOUS
<1>1. CallInv(d)
  OBVIOUS
<1>2. /\ path'[d] = path[d] /\ at'[d] = at[d] /\ quota'[d] = quota[d]
      /\ used'[d] = used[d] /\ outcome'[d] = outcome[d] /\ late'[d] = late[d]
      /\ stale'[d] = stale[d]
  BY DEF OthersKept
<1> QED BY <1>1, <1>2 DEF CallInv

(* A quota function has returned to the middleware.                          *)
LEMMA AnswerStep ==
  ASSUME CallTypes, NEW c \in Calls, CallInv(c), at[c] \in {"look", "arm"}, Answer(c),
         UNCHANGED <<profile, path, tier, used, late>>
  PROVE  CallTypes' /\ CallInv(c)' /\ OthersKept(c)
<1>1. CASE Exceeded(c) /\ End(c, "exceeded")
  <2>1. CallTypes'
    BY <1>1 DEF CallTypes, End
  <2>2. CallInv(c)'
    BY <1>1 DEF CallTypes, CallInv, End, Working
  <2> QED BY <1>1, <2>1, <2>2 DEF OthersKept, End, CallTypes
<1>2. CASE ~Exceeded(c) /\ quota[c] = "daily" /\ Consume(c, "burst")
  <2>1. CallTypes'
    BY <1>2 DEF CallTypes, Consume, Quotas, Working
  <2>2. CallInv(c)'
    BY <1>2, Limits DEF CallTypes, CallInv, Consume, Working, Exceeded, Quotas
  <2> QED BY <1>2, <2>1, <2>2 DEF OthersKept, Consume, CallTypes
<1>3. ASSUME NEW r \in {"admitted", "forbidden"}, ~Exceeded(c), quota[c] # "daily", End(c, r),
             path[c] = "llm" => quota[c] = "burst"
      PROVE  CallTypes' /\ CallInv(c)' /\ OthersKept(c)
  <2>1. CallTypes'
    BY <1>3 DEF CallTypes, End
  <2>2. CallInv(c)'
    BY <1>3, Limits DEF CallTypes, CallInv, End, Working, Exceeded, Quotas
  <2> QED BY <1>3, <2>1, <2>2 DEF OthersKept, End, CallTypes
<1> QED BY <1>1, <1>2, <1>3 DEF Answer, Admit, CallInv, Working

(* What an answer makes answered: the quota it answers, nothing else.        *)
LEMMA AnswerAnswers ==
  ASSUME CallTypes, NEW c \in Calls, CallInv(c), at[c] \in {"look", "arm"}, Answer(c), used' = used
  PROVE  \A d \in Calls, q \in Quotas : Answered(d, q)' => Answered(d, q) \/ (d = c /\ q = quota[c])
<1> SUFFICES ASSUME NEW d \in Calls, NEW q \in Quotas, Answered(d, q)', ~(d = c /\ q = quota[c])
             PROVE  Answered(d, q)
  OBVIOUS
<1>1. CASE d # c
  <2>1. at'[d] = at[d] /\ quota'[d] = quota[d] /\ outcome'[d] = outcome[d]
    BY <1>1 DEF Answer, Admit, End, Consume, CallTypes
  <2> QED BY <2>1 DEF Answered
<1>2. CASE d = c
  BY <1>2 DEF Answered
<1> QED BY <1>1, <1>2

(* Calls and counters that a step does not touch.                            *)
LEMMA SpanKept ==
  ASSUME NEW k \in Keys, SpanInv(k), UNCHANGED <<counters, midnight, used>>,
         \A c \in span[k] : Answered(c, k[1])' => Answered(c, k[1]) \/ left[k] # NoExpiry
  PROVE  SpanInv(k)'
BY DEF SpanInv, counters, Exempt

LEMMA CountersKept == CounterTypes /\ UNCHANGED <<counters, midnight>> => CounterTypes'
BY DEF CounterTypes, counters

(* The first step of a call answers nothing.                                 *)
LEMMA NewStep ==
  ASSUME Inv, NEW c \in Calls, at[c] = "new", UNCHANGED <<counters, midnight, used, profile, path, late>>,
         CallTypes', CallInv(c)', OthersKept(c)
  PROVE  Inv'
<1>1. \A d \in Calls : CallInv(d)'
  BY OthersStay DEF Inv
<1>2. ASSUME NEW k \in Keys PROVE SpanInv(k)'
  <2>1. ASSUME NEW d \in span[k], Answered(d, k[1])' PROVE Answered(d, k[1])
    <3>1. d \in Calls
      BY <2>1 DEF Inv, CounterTypes
    <3>2. CASE d = c
      <4>1. used[c][k[1]] = 0
        BY Pairs DEF Inv, CallInv
      <4> QED BY <4>1, <3>2, <2>1 DEF Answered
    <3>3. CASE d # c
      BY <3>1, <3>3, <2>1 DEF OthersKept, Answered
    <3> QED BY <3>2, <3>3
  <2> QED BY <2>1, SpanKept DEF Inv
<1> QED BY <1>1, <1>2, CountersKept DEF Inv

LEMMA AuthenticateStep == ASSUME Inv, NEW c \in Calls, Authenticate(c) PROVE Inv'
<1> USE DEF Authenticate
<1>0. CallTypes /\ CallInv(c) /\ at[c] = "new" /\ path[c] # "token"
  BY DEF Inv
<1>1. PICK t \in TiersFound(c) : /\ tier' = [tier EXCEPT ![c] = t]
                                 /\ \/ path[c] = "llm" /\ Meter(c, t)
                                    \/ path[c] = "projects" /\ Admit(c, t)
  OBVIOUS
<1>2. t \in Tiers /\ (profile[Owner[c]] = "free" => t = "free")
  BY <1>0, <1>1 DEF TiersFound, CallTypes
<1>3. CallTypes' /\ CallInv(c)' /\ OthersKept(c)
  <2>1. CASE path[c] = "llm" /\ Consume(c, "daily")
    <3>1. CallTypes'
      BY <1>0, <1>1, <1>2, <2>1 DEF CallTypes, Consume, Quotas, Working
    <3>2. CallInv(c)'
      BY <1>0, <2>1, Limits DEF CallTypes, CallInv, Consume, Working, Quotas
    <3> QED BY <3>1, <3>2, <2>1, <1>0 DEF OthersKept, Consume, CallTypes
  <2>2. CASE path[c] = "llm" /\ Consume(c, "burst") /\ t # "free"
    <3>1. CallTypes'
      BY <1>0, <1>1, <1>2, <2>2 DEF CallTypes, Consume, Quotas, Working
    <3>2. CallInv(c)'
      BY <1>0, <1>2, <2>2, Limits DEF CallTypes, CallInv, Consume, Working, Quotas
    <3> QED BY <3>1, <3>2, <2>2, <1>0 DEF OthersKept, Consume, CallTypes
  <2>3. ASSUME NEW r \in {"admitted", "forbidden"}, path[c] = "projects", End(c, r)
        PROVE  CallTypes' /\ CallInv(c)' /\ OthersKept(c)
    <3>1. CallTypes'
      BY <1>0, <1>1, <1>2, <2>3 DEF CallTypes, End
    <3>2. CallInv(c)'
      BY <1>0, <2>3, Limits DEF CallTypes, CallInv, End, Working, Quotas
    <3> QED BY <3>1, <3>2, <2>3, <1>0 DEF OthersKept, End, CallTypes
  <2> QED BY <1>1, <2>1, <2>2, <2>3 DEF Meter, Admit
<1> QED BY <1>0, <1>3, NewStep

LEMMA UnauthorizedStep == ASSUME Inv, NEW c \in Calls, Unauthorized(c) PROVE Inv'
<1>0. CallTypes /\ CallInv(c) /\ at[c] = "new" /\ UNCHANGED <<counters, midnight, used, request, late>>
  BY DEF Inv, Unauthorized
<1>1. CallTypes'
  BY <1>0 DEF Unauthorized, End, CallTypes, request
<1>2. CallInv(c)'
  BY <1>0, Limits DEF Unauthorized, End, CallTypes, CallInv, Working, Quotas, request
<1>3. OthersKept(c)
  BY <1>0 DEF Unauthorized, End, CallTypes, OthersKept, request
<1> QED BY <1>0, <1>1, <1>2, <1>3, NewStep DEF request

LEMMA TokenRequestStep == ASSUME Inv, NEW c \in Calls, TokenRequest(c) PROVE Inv'
<1>0. CallTypes /\ CallInv(c) /\ at[c] = "new" /\ UNCHANGED <<counters, midnight, used, request, late>>
  BY DEF Inv, TokenRequest
<1>1. CallTypes'
  BY <1>0 DEF TokenRequest, Consume, CallTypes, request, Quotas, Working
<1>2. CallInv(c)'
  BY <1>0, Limits DEF TokenRequest, Consume, CallTypes, CallInv, Working, Quotas, request
<1>3. OthersKept(c)
  BY <1>0 DEF TokenRequest, Consume, CallTypes, OthersKept, request
<1> QED BY <1>0, <1>1, <1>2, <1>3, NewStep DEF request

-----------------------------------------------------------------------------
(* The commands.                                                             *)

LEMMA KeyOf ==
  ASSUME CallTypes, NEW c \in Calls
  PROVE  Key(c) \in Keys /\ Key(c)[1] = quota[c] /\ Key(c)[2] = Owner[c]
BY Pairs DEF CallTypes, Key

(* A counter that only grows keeps its expiry, and its calls.                *)
LEMMA CountedTypes ==
  ASSUME CounterTypes, NEW k \in Keys, NEW n \in {1, 2}, Counted(k, n), midnight' = midnight,
         span' \in [Keys -> SUBSET Calls]
  PROVE  CounterTypes'
<1>1. count' \in [Keys -> Nat] /\ \A j \in Keys : count'[j] = 0 => count[j] = 0
  BY DEF CounterTypes, Counted
<1> QED BY <1>1 DEF CounterTypes, Counted

LEMMA IncrStep == ASSUME Inv, NEW c \in Calls, Incr(c) PROVE Inv'
<1> DEFINE key == Key(c)
<1>0. CallTypes /\ CounterTypes /\ CallInv(c) /\ at[c] = "incr" /\ key \in Keys
      /\ key[1] = quota[c] /\ key[2] = Owner[c]
  BY KeyOf DEF Inv, Incr
<1>1. PICK n \in {1, 2} :
        /\ Counted(key, n)
        /\ used' = [used EXCEPT ![c][quota[c]] = count[key] + n]
        /\ at' = [at EXCEPT ![c] = IF count[key] + n = 1 THEN "arm" ELSE "look"]
  BY DEF Incr
<1>2. /\ span' = [span EXCEPT ![key] = @ \cup {c}]
      /\ UNCHANGED <<profile, path, tier, quota, outcome, late, stale, midnight>>
  BY DEF Incr, request
<1>3. quota[c] \in Quotas /\ count[key] + n \in Nat /\ count[key] + n > count[key] /\ count[key] \in Nat
  BY <1>0 DEF CallTypes, CounterTypes
<1>4. CallTypes'
  <2>1. used' \in [Calls -> [Quotas -> Nat]]
    BY <1>0, <1>1, <1>3 DEF CallTypes
  <2> QED BY <1>0, <1>1, <1>2, <2>1 DEF CallTypes, Working
<1>5. CounterTypes'
  BY <1>0, <1>1, <1>2, CountedTypes DEF CounterTypes
<1>6. /\ used'[c] = [used[c] EXCEPT ![quota[c]] = count[key] + n]
      /\ \A d \in Calls \ {c} : used'[d] = used[d]
      /\ used[c] \in [Quotas -> Nat]
  BY <1>0, <1>1 DEF CallTypes
<1>7. CallInv(c)'
  <2>1. at'[c] \in {"look", "arm"}
    BY <1>0, <1>1 DEF CallTypes
  <2>2. used'[c][quota[c]] = count[key] + n /\ \A q \in Quotas \ {quota[c]} : used'[c][q] = used[c][q]
    BY <1>3, <1>6
  <2>3. used'[c][quota[c]] > 0
    BY <2>2, <1>3
  <2> QED BY <2>1, <2>2, <2>3, <1>0, <1>2, <1>3 DEF CallInv, Working, Quotas
<1>8. OthersKept(c)
  BY <1>0, <1>1, <1>2, <1>6 DEF OthersKept, CallTypes
<1>9. ASSUME NEW k \in Keys PROVE SpanInv(k)'
  <2>0. SpanInv(k) /\ span[k] \subseteq Calls /\ k[1] \in Quotas
    BY Pairs DEF Inv, CounterTypes
  <2>1. c \notin span[key]
    <3>1. used[c][key[1]] = 0
      BY <1>0 DEF CallInv
    <3>2. SpanInv(key)
      BY <1>0 DEF Inv
    <3> QED BY <3>1, <3>2 DEF SpanInv
  <2>2. left' = left /\ cut' = cut /\ midnight' = midnight
    BY <1>1, <1>2 DEF Counted
  <2>3. CASE k # key
    <3>1. count'[k] = count[k] /\ span'[k] = span[k]
      BY <2>3, <1>0, <1>1, <1>2 DEF Counted, CounterTypes
    <3>2. \A d \in span[k] : used'[d][k[1]] = used[d][k[1]]
      <4>1. ASSUME c \in span[k] PROVE k[1] # quota[c]
        <5>1. k[2] = Owner[c]
          BY <4>1, <2>0 DEF SpanInv
        <5> QED BY <5>1, <2>3, <1>0, Pairs
      <4> QED BY <4>1, <1>3, <1>6, <2>0
    <3>3. ASSUME NEW d \in span[k], Answered(d, k[1])' PROVE Answered(d, k[1])
      <4>1. used[d][k[1]] > 0
        BY <2>0 DEF SpanInv
      <4>2. outcome'[d] = outcome[d] /\ quota'[d] = quota[d] /\ (at'[d] = "done" => at[d] = "done")
        BY <1>0, <1>1, <1>2, <2>0 DEF CallTypes
      <4> QED BY <4>1, <4>2, <3>3 DEF Answered
    <3> QED BY <2>0, <2>2, <3>1, <3>2, <3>3 DEF SpanInv, Exempt
  <2>4. CASE k = key
    <3>1. count'[k] = count[k] + n /\ span'[k] = span[k] \cup {c}
      BY <2>4, <1>0, <1>1, <1>2 DEF Counted, CounterTypes
    <3>2. \A d \in span[k] : used'[d] = used[d] /\ d # c /\ used[d][k[1]] \in Nat
      BY <2>0, <2>1, <2>4, <1>0, <1>6 DEF CallTypes
    <3>3. used'[c][k[1]] = count[k] + n
      BY <2>4, <1>0, <1>3, <1>6
    <3>4. ASSUME NEW d \in span'[k], Answered(d, k[1])' PROVE d \in span[k] /\ Answered(d, k[1])
      <4>1. d # c
        BY <3>4, <2>4, <1>0, <1>1, <1>2 DEF Answered, CallTypes
      <4>2. d \in span[k]
        BY <4>1, <3>1
      <4>3. used'[d] = used[d] /\ outcome'[d] = outcome[d] /\ quota'[d] = quota[d] /\ at'[d] = at[d]
        BY <4>1, <4>2, <3>2, <1>0, <1>1, <1>2, <2>0 DEF CallTypes
      <4> QED BY <4>2, <4>3, <3>4 DEF Answered
    <3>5. \A d \in span'[k] : Owner[d] = k[2] /\ used'[d][k[1]] > 0
      BY <2>0, <2>4, <3>1, <3>2, <3>3, <1>0, <1>3 DEF SpanInv
    <3>6. k[1] = "daily" => left'[k] \in {NoExpiry, midnight'}
      BY <2>0, <2>2 DEF SpanInv
    <3>7. Exempt(k)' <=> Exempt(k)
      BY <2>2 DEF Exempt
    <3>8. ASSUME ~Exempt(k) PROVE /\ \A d \in span'[k] : used'[d][k[1]] <= count'[k]
                                  /\ \A d, e \in span'[k] : used'[d][k[1]] = used'[e][k[1]] => d = e
      <4>1. /\ \A d \in span[k] : used[d][k[1]] <= count[k]
            /\ \A d, e \in span[k] : used[d][k[1]] = used[e][k[1]] => d = e
        BY <2>0, <3>8 DEF SpanInv
      <4>2. count[k] \in Nat /\ count[k] + n > count[k]
        BY <1>3, <2>4
      <4>3. \A d \in span[k] : used'[d][k[1]] <= count[k]
        BY <4>1, <3>2
      <4>4. \A d \in span'[k] : used'[d][k[1]] <= count'[k]
        <5>1. \A d \in span[k] : used'[d][k[1]] <= count[k] + n
          BY <4>3, <4>2, <3>2
        <5> QED BY <5>1, <4>2, <3>1, <3>3
      <4>5. \A d \in span[k] : used'[d][k[1]] # used'[c][k[1]]
        BY <4>3, <4>2, <3>3, <3>2
      <4>6. \A d, e \in span[k] : used'[d][k[1]] = used'[e][k[1]] => d = e
        BY <4>1, <3>2
      <4> QED BY <4>4, <4>5, <4>6, <3>1
    <3>9. ASSUME ~Exempt(k) PROVE \A d \in span'[k] : Answered(d, k[1])' => left'[k] # NoExpiry
      BY <2>0, <2>2, <3>4, <3>9 DEF SpanInv
    <3> HIDE DEF key
    <3> QED BY <3>5, <3>6, <3>7, <3>8, <3>9 DEF SpanInv
  <2> QED BY <2>3, <2>4
<1>10. \A d \in Calls : CallInv(d)'
  BY <1>2, <1>7, <1>8, OthersStay DEF Inv
<1> QED BY <1>4, <1>5, <1>9, <1>10 DEF Inv

(* A call that has been answered on a key whose expiry it has seen.          *)
LEMMA AnsweredOnKnownExpiry ==
  ASSUME Inv, NEW c \in Calls, at[c] \in {"look", "arm"}, Answer(c), used' = used, midnight' = midnight,
         NEW k \in Keys, SpanInv(k), UNCHANGED counters, left[Key(c)] # NoExpiry
  PROVE  SpanInv(k)'
<1>1. ASSUME NEW d \in span[k], Answered(d, k[1])' PROVE Answered(d, k[1]) \/ left[k] # NoExpiry
  <2>1. d \in Calls /\ k[1] \in Quotas /\ Owner[d] = k[2]
    BY Pairs DEF Inv, CounterTypes, SpanInv
  <2>2. Answered(d, k[1]) \/ (d = c /\ k[1] = quota[c])
    BY <1>1, <2>1, AnswerAnswers DEF Inv
  <2>3. ASSUME d = c, k[1] = quota[c] PROVE k = Key(c)
    BY <2>1, <2>3, Pairs DEF Key
  <2> QED BY <2>2, <2>3
<1> QED BY <1>1, SpanKept

LEMMA LookStep == ASSUME Inv, NEW c \in Calls, Look(c) PROVE Inv'
<1>0. /\ CallTypes /\ CounterTypes /\ CallInv(c) /\ at[c] = "look" /\ Key(c) \in Keys
      /\ UNCHANGED <<counters, midnight, used, profile, path, tier, late>>
  BY KeyOf DEF Inv, Look, request
<1>1. PICK ttl \in TtlReplies(Key(c)) :
        \/ ttl > 0 /\ Answer(c)
        \/ /\ ttl <= 0
           /\ at' = [at EXCEPT ![c] = "arm"]
           /\ UNCHANGED <<quota, outcome, stale>>
  BY DEF Look
<1>2. CASE ttl > 0 /\ Answer(c)
  <2>1. left[Key(c)] # NoExpiry
    <3>1. CASE count[Key(c)] = 0
      BY <3>1, <1>2 DEF TtlReplies
    <3>2. CASE count[Key(c)] # 0 /\ left[Key(c)] = 1
      BY <3>2 DEF NoExpiry
    <3>3. CASE count[Key(c)] # 0 /\ left[Key(c)] # 1
      BY <3>3, <1>2 DEF TtlReplies, NoExpiry
    <3> QED BY <3>1, <3>2, <3>3
  <2>2. CallTypes' /\ CallInv(c)' /\ OthersKept(c)
    BY <1>0, <1>2, AnswerStep
  <2>3. \A k \in Keys : SpanInv(k)'
    BY <1>0, <1>2, <2>1, AnsweredOnKnownExpiry DEF Inv
  <2> QED BY <2>2, <2>3, <1>0, OthersStay, CountersKept DEF Inv
<1>3. CASE at' = [at EXCEPT ![c] = "arm"] /\ UNCHANGED <<quota, outcome, stale>>
  <2>1. CallTypes'
    BY <1>0, <1>3 DEF CallTypes, Working
  <2>2. CallInv(c)'
    BY <1>0, <1>3 DEF CallTypes, CallInv, Working
  <2>3. OthersKept(c)
    BY <1>0, <1>3 DEF CallTypes, OthersKept
  <2>4. ASSUME NEW k \in Keys PROVE SpanInv(k)'
    <3>1. \A d \in span[k] : Answered(d, k[1])' => Answered(d, k[1])
      BY <1>0, <1>3 DEF Answered, CallTypes, CounterTypes
    <3> QED BY <1>0, <3>1, SpanKept DEF Inv
  <2> QED BY <2>1, <2>2, <2>3, <2>4, <1>0, OthersStay, CountersKept DEF Inv
<1> QED BY <1>1, <1>2, <1>3

(* EXPIRE and EXPIREAT.                                                      *)
LEMMA ExpireTypes ==
  ASSUME CallTypes, CounterTypes, NEW c \in Calls, CallInv(c), Expire(c), midnight' = midnight
  PROVE  CounterTypes'
<1> DEFINE key == Key(c)
<1>0. key \in Keys /\ key[2] \in Owners /\ key[1] \in Quotas
  BY KeyOf, Pairs
<1>1. CASE UNCHANGED counters
  BY <1>1, CountersKept
<1>2. CASE count[key] > 0 /\ SetExpiry(key)
  <2>1. (IF key[1] = "daily" THEN midnight ELSE Window[key[1]]) \in Nat \ {0}
    BY <1>0 DEF CounterTypes, Quotas
  <2>2. /\ left' \in [Keys -> Nat \cup {NoExpiry}] /\ left'[key] # 0
        /\ \A j \in Keys \ {key} : left'[j] = left[j]
    BY <1>0, <1>2, <2>1 DEF SetExpiry, CounterTypes
  <2>3. count[key] # 0
    BY <1>2
  <2> QED BY <1>2, <2>2, <2>3 DEF SetExpiry, CounterTypes
<1>3. CASE RemoveKey(key)
  <2>1. /\ count' \in [Keys -> Nat] /\ left' \in [Keys -> Nat \cup {NoExpiry}]
        /\ left'[key] = NoExpiry /\ count'[key] = 0
        /\ \A j \in Keys \ {key} : left'[j] = left[j] /\ count'[j] = count[j]
    BY <1>0, <1>3 DEF RemoveKey, CounterTypes
  <2>2. cut' \in [Owners -> BOOLEAN] /\ span' = span
    BY <1>3 DEF RemoveKey, CounterTypes
  <2> QED BY <2>1, <2>2 DEF CounterTypes, NoExpiry
<1> QED BY <1>1, <1>2, <1>3 DEF Expire

LEMMA ExpireSpan ==
  ASSUME CallTypes, CounterTypes, NEW c \in Calls, CallInv(c), Expire(c),
         midnight' = midnight, used' = used, NEW k \in Keys, SpanInv(k),
         \A d \in span[k] : Answered(d, k[1])' => Answered(d, k[1]) \/ k = Key(c)
  PROVE  SpanInv(k)'
<1> DEFINE key == Key(c)
<1>0. /\ key \in Keys /\ key[2] \in Owners /\ key[1] \in Quotas /\ key[1] = quota[c]
      /\ \A d \in span[k] : used[d][k[1]] \in Nat
      /\ count[k] \in Nat /\ k[1] \in Quotas /\ k[2] \in Owners
  BY KeyOf, Pairs DEF CallTypes, CounterTypes
<1>1. CASE count[key] = 0 /\ UNCHANGED counters
  <2>1. ASSUME k = key, ~Exempt(k), NEW d \in span[k] PROVE FALSE
    BY <1>0, <1>1, <2>1 DEF SpanInv
  <2> QED BY <1>1, <2>1 DEF SpanInv, counters, Exempt
<1>2. CASE SetExpiry(key)
  <2>1. CASE k # key
    BY <1>2, <2>1, <1>0 DEF SetExpiry, SpanInv, Exempt, CounterTypes
  <2>2. CASE k = key
    <3>1. left'[k] = IF k[1] = "daily" THEN midnight ELSE Window[k[1]]
      BY <1>0, <1>2, <2>2 DEF SetExpiry, CounterTypes
    <3>2. left'[k] # NoExpiry
      BY <1>0, <3>1 DEF CounterTypes, NoExpiry, Quotas
    <3> QED BY <1>2, <3>1, <3>2 DEF SetExpiry, SpanInv, Exempt
  <2> QED BY <2>1, <2>2
<1>3. CASE stale[c] /\ RemoveKey(key)
  <2>0. key[1] = "daily"
    BY <1>0, <1>3 DEF CallInv
  <2>1. CASE k # key
    <3>1. count'[k] = count[k] /\ left'[k] = left[k] /\ span' = span /\ (Exempt(k) => Exempt(k)')
      BY <1>3, <2>1, <1>0 DEF RemoveKey, CounterTypes, Exempt
    <3> QED BY <3>1, <2>1 DEF SpanInv
  <2>2. CASE k = key
    <3>1. left'[k] = NoExpiry /\ span' = span /\ Exempt(k)'
      BY <1>3, <2>0, <2>2, <1>0 DEF RemoveKey, CounterTypes, Exempt
    <3> QED BY <3>1 DEF SpanInv
  <2> QED BY <2>1, <2>2
<1> QED BY <1>1, <1>2, <1>3 DEF Expire

LEMMA ArmStep == ASSUME Inv, NEW c \in Calls, Arm(c) PROVE Inv'
<1>0. /\ CallTypes /\ CounterTypes /\ CallInv(c) /\ at[c] = "arm" /\ Expire(c) /\ Answer(c)
      /\ UNCHANGED <<midnight, used, profile, path, tier, late>>
  BY DEF Inv, Arm, request
<1>1. CallTypes' /\ CallInv(c)' /\ OthersKept(c)
  BY <1>0, AnswerStep
<1>2. CounterTypes'
  BY <1>0, ExpireTypes
<1>3. ASSUME NEW k \in Keys PROVE SpanInv(k)'
  <2>1. ASSUME NEW d \in span[k], Answered(d, k[1])' PROVE Answered(d, k[1]) \/ k = Key(c)
    <3>1. d \in Calls /\ k[1] \in Quotas /\ Owner[d] = k[2]
      BY Pairs DEF Inv, CounterTypes, SpanInv
    <3>2. Answered(d, k[1]) \/ (d = c /\ k[1] = quota[c])
      BY <1>0, <2>1, <3>1, AnswerAnswers
    <3> QED BY <3>1, <3>2, Pairs DEF Key
  <2> QED BY <1>0, <2>1, ExpireSpan DEF Inv
<1>4. \A d \in Calls : CallInv(d)'
  BY <1>0, <1>1, OthersStay DEF Inv
<1> QED BY <1>1, <1>2, <1>3, <1>4 DEF Inv

LEMMA FailStep == ASSUME Inv, NEW c \in Calls, Fail(c) PROVE Inv'
<1>0. /\ CallTypes /\ CounterTypes /\ CallInv(c) /\ at[c] \in Working /\ End(c, "unavailable")
      /\ UNCHANGED <<counters, midnight, used, profile, path, tier>>
  BY DEF Inv, Fail, request
<1>1. PICK command \in {"none", "incr", "arm"} : late' = [late EXCEPT ![c] = command]
  BY <1>0 DEF Fail, Working
<1>2. CallTypes'
  BY <1>0, <1>1 DEF CallTypes, End
<1>3. CallInv(c)'
  BY <1>0 DEF CallTypes, CallInv, End, Working
<1>4. OthersKept(c)
  BY <1>0, <1>1 DEF CallTypes, OthersKept, End
<1>5. ASSUME NEW k \in Keys PROVE SpanInv(k)'
  <2>1. ASSUME NEW d \in span[k], Answered(d, k[1])' PROVE Answered(d, k[1])
    <3>1. d \in Calls
      BY <1>0 DEF CounterTypes
    <3>2. CASE d = c
      BY <1>0, <3>2, <2>1 DEF Answered, End, CallTypes
    <3>3. CASE d # c
      BY <1>0, <3>1, <3>3, <2>1 DEF Answered, End, CallTypes
    <3> QED BY <3>2, <3>3
  <2> QED BY <1>0, <2>1, SpanKept DEF Inv
<1> QED BY <1>0, <1>2, <1>3, <1>4, <1>5, OthersStay, CountersKept DEF Inv

(* A command of a call that is done touches no call.                         *)
LEMMA LateCalls ==
  ASSUME Inv, NEW c \in Calls, late' = [late EXCEPT ![c] = "none"],
         UNCHANGED <<request, at, quota, used, outcome, stale>>
  PROVE  /\ CallTypes' /\ \A d \in Calls : CallInv(d)'
         /\ \A d \in Calls, q \in Quotas : Answered(d, q)' <=> Answered(d, q)
<1>1. CallTypes
  BY DEF Inv
<1>2. CallTypes'
  BY <1>1 DEF CallTypes, request
<1>3. ASSUME NEW d \in Calls PROVE CallInv(d)'
  <2>1. CallInv(d) /\ (late'[d] # "none" => late[d] # "none")
    BY <1>1 DEF Inv, CallTypes
  <2> QED BY <2>1 DEF CallInv, request
<1> QED BY <1>2, <1>3 DEF Answered

LEMMA LateIncrStep == ASSUME Inv, NEW c \in Calls, LateIncr(c) PROVE Inv'
<1> DEFINE key == Key(c)
<1>0. /\ CallTypes /\ CounterTypes /\ Counted(key, 1) /\ key \in Keys
      /\ UNCHANGED <<midnight, span, used>>
  BY KeyOf DEF Inv, LateIncr
<1>1. /\ CallTypes' /\ \A d \in Calls : CallInv(d)'
      /\ \A d \in Calls, q \in Quotas : Answered(d, q)' <=> Answered(d, q)
  BY LateCalls DEF LateIncr
<1>2. CounterTypes'
  BY <1>0, CountedTypes DEF CounterTypes
<1>3. ASSUME NEW k \in Keys PROVE SpanInv(k)'
  <2>1. count[k] \in Nat /\ count'[k] \in Nat /\ count'[k] >= count[k]
    BY <1>0 DEF Counted, CounterTypes
  <2>2. /\ SpanInv(k) /\ left' = left /\ cut' = cut /\ k[1] \in Quotas
        /\ \A d \in span[k] : d \in Calls /\ used[d][k[1]] \in Nat
    BY <1>0, Pairs DEF Inv, Counted, CounterTypes, CallTypes
  <2>3. \A d \in span[k] : used[d][k[1]] <= count[k] => used[d][k[1]] <= count'[k]
    BY <2>1, <2>2
  <2> QED BY <1>0, <1>1, <2>2, <2>3 DEF SpanInv, Exempt
<1> QED BY <1>1, <1>2, <1>3 DEF Inv

LEMMA LateExpireStep == ASSUME Inv, NEW c \in Calls, LateExpire(c) PROVE Inv'
<1>0. /\ CallTypes /\ CounterTypes /\ CallInv(c) /\ Expire(c) /\ UNCHANGED <<midnight, used>>
  BY DEF Inv, LateExpire
<1>1. /\ CallTypes' /\ \A d \in Calls : CallInv(d)'
      /\ \A d \in Calls, q \in Quotas : Answered(d, q)' <=> Answered(d, q)
  BY LateCalls DEF LateExpire
<1>2. CounterTypes'
  BY <1>0, ExpireTypes
<1>3. ASSUME NEW k \in Keys PROVE SpanInv(k)'
  <2>1. \A d \in span[k] : Answered(d, k[1])' => Answered(d, k[1])
    BY <1>0, <1>1, Pairs DEF CounterTypes
  <2> QED BY <1>0, <2>1, ExpireSpan DEF Inv
<1> QED BY <1>1, <1>2, <1>3 DEF Inv

-----------------------------------------------------------------------------
(* Time.                                                                     *)

LEMMA ExpiryTypes ==
  ASSUME CounterTypes, NEW ended \in SUBSET Keys, Expiry(ended), midnight' \in 1..DayLength,
         cut' \in [Owners -> BOOLEAN]
  PROVE  CounterTypes'
<1>1. \A k \in Keys : left[k] \in Nat \cup {NoExpiry} /\ count[k] \in Nat
  BY DEF CounterTypes
<1>2. \A k \in Keys : /\ count'[k] = (IF left[k] = 1 THEN 0 ELSE count[k])
                       /\ left'[k] = (IF left[k] > 1 THEN left[k] - 1 ELSE NoExpiry)
  BY DEF Expiry
<1>3. \A k \in Keys : /\ count'[k] \in Nat /\ left'[k] \in Nat \cup {NoExpiry}
                       /\ left'[k] # 0 /\ (count'[k] = 0 => left'[k] = NoExpiry)
  <2> SUFFICES ASSUME NEW k \in Keys
               PROVE /\ count'[k] \in Nat /\ left'[k] \in Nat \cup {NoExpiry}
                     /\ left'[k] # 0 /\ (count'[k] = 0 => left'[k] = NoExpiry)
    OBVIOUS
  <2>1. count[k] = 0 => left[k] = NoExpiry
    BY DEF CounterTypes
  <2> QED BY <1>1, <1>2, <2>1 DEF NoExpiry
<1>4. /\ count' = [k \in Keys |-> count'[k]] /\ left' = [k \in Keys |-> left'[k]]
      /\ span' \in [Keys -> SUBSET Calls]
  BY DEF Expiry, CounterTypes
<1> QED BY <1>3, <1>4 DEF CounterTypes

LEMMA ExpirySpan ==
  ASSUME CounterTypes, NEW ended \in SUBSET Keys, Expiry(ended), NEW k \in Keys, SpanInv(k),
         k[1] = "daily" => left'[k] \in {NoExpiry, midnight'},
         left[k] = 1 => k \in ended,
         k \notin ended => (Exempt(k) => Exempt(k)'),
         \A d \in Calls : Answered(d, k[1])' => Answered(d, k[1])
  PROVE  SpanInv(k)'
<1>0. used' = used /\ span[k] \subseteq Calls
  BY DEF Expiry, CounterTypes
<1>1. CASE k \in ended
  <2>1. span'[k] = {}
    BY <1>1 DEF Expiry
  <2> QED BY <2>1 DEF SpanInv
<1>2. CASE k \notin ended
  <2>1. span'[k] = span[k] /\ left[k] # 1
    BY <1>2 DEF Expiry
  <2>2. count'[k] = count[k]
    BY <2>1 DEF Expiry
  <2>3. left[k] # NoExpiry => left'[k] # NoExpiry
    <3>1. left[k] \in Nat \cup {NoExpiry} /\ left[k] # 0
      BY DEF CounterTypes
    <3>2. left'[k] = IF left[k] > 1 THEN left[k] - 1 ELSE NoExpiry
      BY DEF Expiry
    <3> QED BY <3>1, <3>2, <2>1 DEF NoExpiry
  <2> QED BY <1>0, <1>2, <2>1, <2>2, <2>3 DEF SpanInv
<1> QED BY <1>1, <1>2

(* Calls see midnight only in their reset.                                   *)
LEMMA TimeCalls ==
  ASSUME Inv, UNCHANGED <<request, at, quota, used, outcome, late>>, stale' \in [Calls -> BOOLEAN],
         \A c \in Calls : stale'[c] => quota[c] = "daily"
  PROVE  CallTypes' /\ \A c \in Calls : CallInv(c)'
<1>1. CallTypes'
  BY DEF Inv, CallTypes, request
<1>2. ASSUME NEW c \in Calls PROVE CallInv(c)'
  <2>1. CallInv(c) /\ (stale'[c] => quota[c] = "daily")
    BY DEF Inv
  <2> QED BY <2>1 DEF CallInv, request
<1> QED BY <1>1, <1>2

LEMMA TickStep == Inv /\ Tick => Inv'
<1> SUFFICES ASSUME Inv, Tick PROVE Inv'
  OBVIOUS
<1>0. /\ CallTypes /\ CounterTypes /\ midnight > 1 /\ midnight' = midnight - 1 /\ Expiry(OverWindows)
      /\ UNCHANGED <<stale, cut>> /\ UNCHANGED <<request, at, quota, used, outcome, late>>
  BY DEF Inv, Tick, Expiry
<1>1. CallTypes' /\ \A c \in Calls : CallInv(c)'
  BY <1>0, TimeCalls DEF Inv, CallInv, CallTypes
<1>2. CounterTypes'
  <2>1. midnight' \in 1..DayLength
    BY <1>0 DEF CounterTypes
  <2>2. cut' \in [Owners -> BOOLEAN] /\ OverWindows \in SUBSET Keys
    BY <1>0 DEF CounterTypes, OverWindows
  <2> QED BY <1>0, <2>1, <2>2, ExpiryTypes
<1>3. ASSUME NEW k \in Keys PROVE SpanInv(k)'
  <2>0. SpanInv(k) /\ midnight \in Nat /\ left[k] \in Nat \cup {NoExpiry}
    BY <1>0 DEF Inv, CounterTypes
  <2>1. ASSUME k[1] = "daily" PROVE left'[k] \in {NoExpiry, midnight'} /\ left[k] # 1
    <3>1. left[k] \in {NoExpiry, midnight}
      BY <2>0, <2>1 DEF SpanInv
    <3>2. left'[k] = IF left[k] > 1 THEN left[k] - 1 ELSE NoExpiry
      BY <1>0 DEF Expiry
    <3> QED BY <1>0, <2>0, <3>1, <3>2 DEF NoExpiry
  <2>2. left[k] = 1 => k \in OverWindows
    BY <2>1 DEF OverWindows
  <2>3. Exempt(k)' <=> Exempt(k)
    BY <1>0 DEF Exempt
  <2>4. \A d \in Calls : Answered(d, k[1])' => Answered(d, k[1])
    BY <1>0 DEF Answered
  <2>5. OverWindows \in SUBSET Keys
    BY DEF OverWindows
  <2> QED BY <1>0, <2>0, <2>1, <2>2, <2>3, <2>4, <2>5, ExpirySpan
<1> QED BY <1>1, <1>2, <1>3 DEF Inv

LEMMA MidnightStep == Inv /\ Midnight => Inv'
<1> DEFINE ended == OverWindows \cup ({"daily"} \X Owners)
<1> SUFFICES ASSUME Inv, Midnight PROVE Inv'
  OBVIOUS
<1>0. /\ CallTypes /\ CounterTypes /\ midnight = 1 /\ midnight' = DayLength /\ Expiry(ended)
      /\ stale' = [c \in Calls |-> quota[c] = "daily" /\ (at[c] \in Working \/ late[c] = "arm")]
      /\ cut' = [o \in Owners |-> FALSE] /\ UNCHANGED <<request, at, quota, used, outcome, late>>
  BY DEF Inv, Midnight, Expiry
<1>1. CallTypes' /\ \A c \in Calls : CallInv(c)'
  <2>1. stale' \in [Calls -> BOOLEAN] /\ \A c \in Calls : stale'[c] => quota[c] = "daily"
    BY <1>0
  <2> QED BY <1>0, <2>1, TimeCalls
<1>5. ended \in SUBSET Keys /\ \A k \in Keys : k[1] = "daily" => k \in ended
  BY Pairs DEF OverWindows, Keys, Quotas
<1>2. CounterTypes'
  <2>1. midnight' \in 1..DayLength
    BY <1>0
  <2>2. cut' \in [Owners -> BOOLEAN]
    BY <1>0
  <2> HIDE DEF ended
  <2> QED BY <1>0, <1>5, <2>1, <2>2, ExpiryTypes
<1>3. ASSUME NEW k \in Keys PROVE SpanInv(k)'
  <2>0. SpanInv(k) /\ left[k] \in Nat \cup {NoExpiry}
    BY <1>0 DEF Inv, CounterTypes
  <2>1. k[1] = "daily" => left'[k] \in {NoExpiry, midnight'}
    BY <1>0, <2>0 DEF SpanInv, Expiry, NoExpiry
  <2>2. left[k] = 1 => k \in ended
    BY <1>5 DEF OverWindows
  <2>3. k \notin ended => (Exempt(k) => Exempt(k)')
    BY <1>5 DEF Exempt
  <2>4. \A d \in Calls : Answered(d, k[1])' => Answered(d, k[1])
    BY <1>0 DEF Answered
  <2> HIDE DEF ended
  <2> QED BY <1>0, <1>5, <2>0, <2>1, <2>2, <2>3, <2>4, ExpirySpan
<1> QED BY <1>1, <1>2, <1>3 DEF Inv

LEMMA StutterStep == Inv /\ UNCHANGED vars => Inv'
<1> SUFFICES ASSUME Inv, UNCHANGED vars PROVE Inv'
  OBVIOUS
<1>1. CallTypes' /\ \A c \in Calls : CallInv(c)'
  BY DEF vars, Inv, CallTypes, CallInv
<1>2. CounterTypes'
  BY DEF vars, Inv, CounterTypes
<1>3. \A k \in Keys : SpanInv(k)'
  BY DEF vars, Inv, SpanInv, Exempt, Answered
<1> QED BY <1>1, <1>2, <1>3 DEF Inv

-----------------------------------------------------------------------------
LEMMA InvHolds == Spec => []Inv
<1>1. Init => Inv
  BY InitInv
<1>2. Inv /\ [Next]_vars => Inv'
  BY AuthenticateStep, UnauthorizedStep, TokenRequestStep, IncrStep, LookStep, ArmStep, FailStep,
     LateIncrStep, LateExpireStep, TickStep, MidnightStep, StutterStep DEF Next
<1> QED BY <1>1, <1>2, PTL DEF Spec

(* Every reachable state of the quotas is well typed; a key has an expiry    *)
(* only if it exists, and none that has passed.                              *)
THEOREM QuotaTypeCorrect == Spec => []TypeOK
<1>1. Inv => TypeOK
  BY Parts DEF Inv
<1> QED BY <1>1, InvHolds, PTL

(* An admitted call is among the first Limit[q] of the key, and these have   *)
(* different answers of INCR.                                                *)
LEMMA FewAreAdmitted ==
  ASSUME Inv, NEW k \in Keys, ~Exempt(k)
  PROVE  Cardinality({c \in span[k] : outcome[c] = "admitted"}) <= Limit[k[1]]
<1> DEFINE admitted == {c \in span[k] : outcome[c] = "admitted"}
           f == [c \in admitted |-> used[c][k[1]]]
<1>0. /\ k[1] \in Quotas /\ Limit[k[1]] \in Nat /\ admitted \subseteq Calls
      /\ \A c \in Calls : used[c][k[1]] \in Nat
  BY Pairs, Limits DEF Inv, CounterTypes, CallTypes
<1>1. \A c \in admitted : used[c][k[1]] \in 1..Limit[k[1]]
  <2> SUFFICES ASSUME NEW c \in admitted PROVE used[c][k[1]] \in 1..Limit[k[1]]
    OBVIOUS
  <2>1. used[c][k[1]] > 0
    BY DEF Inv, SpanInv
  <2>2. ~(used[c][k[1]] > Limit[k[1]])
    BY <1>0 DEF Inv, CallInv
  <2> QED BY <1>0, <2>1, <2>2
<1>2. \A c, d \in admitted : used[c][k[1]] = used[d][k[1]] => c = d
  BY DEF Inv, SpanInv
<1>3. f \in Injection(admitted, 1..Limit[k[1]])
  <2>1. f \in [admitted -> 1..Limit[k[1]]]
    BY <1>1
  <2>2. \A c, d \in admitted : f[c] = f[d] => c = d
    BY <1>2
  <2> HIDE DEF f, admitted
  <2> QED BY <2>1, <2>2 DEF Injection, IsInjective
<1>4. IsFiniteSet(1..Limit[k[1]]) /\ Cardinality(1..Limit[k[1]]) = Limit[k[1]]
  BY <1>0, IntervalSize
<1> HIDE DEF f, admitted
<1>5. Cardinality(admitted) <= Limit[k[1]]
  BY <1>3, <1>4, FS_Injection
<1> QED BY <1>5 DEF admitted

(* However commands interleave, fail, come late or twice, the limit of every *)
(* quota holds, in every day and window.                                     *)
THEOREM AdmissionsBounded == Spec => []AdmissionsAreBounded
<1>1. Inv => AdmissionsAreBounded
  BY FewAreAdmitted DEF AdmissionsAreBounded
<1> QED BY <1>1, InvHolds, PTL

(* A counter that has answered a call will expire.                           *)
THEOREM ExpiryKept == Spec => []AnsweredCallsLeaveExpiry
<1>1. Inv => AnsweredCallsLeaveExpiry
  BY DEF Inv, SpanInv, AnsweredCallsLeaveExpiry
<1> QED BY <1>1, InvHolds, PTL

(* No LLM call is admitted without having been counted against its limits.   *)
THEOREM AdmissionCounted == Spec => []AdmissionIsCounted
<1>1. Inv => AdmissionIsCounted
  <2> SUFFICES ASSUME Inv, NEW c \in Calls, path[c] = "llm", outcome[c] = "admitted"
               PROVE  /\ used[c]["burst"] \in 1..Limit["burst"]
                      /\ profile[Owner[c]] = "free" => used[c]["daily"] \in 1..Limit["daily"]
    BY DEF AdmissionIsCounted
  <2>1. \A q \in Quotas : used[c][q] \in Nat /\ Limit[q] \in Nat /\ ~(used[c][q] > Limit[q])
    BY Limits DEF Inv, CallInv, CallTypes
  <2>2. used[c]["burst"] > 0 /\ (profile[Owner[c]] = "free" => used[c]["daily"] > 0)
    BY DEF Inv, CallInv
  <2> QED BY <2>1, <2>2 DEF Quotas
<1> QED BY <1>1, InvHolds, PTL
===============================================================================
