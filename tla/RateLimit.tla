------------------------------- MODULE RateLimit -------------------------------
(***************************************************************************)
(* The quotas of the backend: what a request meets between its arrival and *)
(* the route handler (auth, ratelimit and tier middleware, and the quota   *)
(* of POST /auth/token), and the counters in Redis it is counted in.       *)
(* A quota is consumed by separate commands (INCR, TTL, EXPIRE), so calls  *)
(* of the same owner interleave between them; each command may fail or     *)
(* time out, and take effect all the same, later.                          *)
(***************************************************************************)
EXTENDS Integers, FiniteSets

CONSTANTS
  Calls,        \* requests to the backend
  Owners,       \* users, each with the address it calls from
  Owner,        \* Owner[c]: who makes the call c
  Traffic,      \* the routes the calls may take: functions from calls to Paths
  Tiers,        \* TIER_VALUES
  Limit,        \* Limit[q]: the calls that pass the quota q
  Window,       \* Window[q]: the ticks a counter of the quota q lives
  DayLength,    \* the ticks from one UTC midnight to the next
  AllowedTiers, \* strictTierRoutePolicies: the tiers let through to the routes
  Faults        \* a subset of {"auth", "profile", "redis", "resend"}

Quotas == {"daily", "burst", "token"}
Paths == {"llm", "projects", "token"}

ASSUME CallsAssumption ==
  /\ IsFiniteSet(Calls)
  /\ Owner \in [Calls -> Owners]
  /\ Traffic \subseteq [Calls -> Paths]
ASSUME QuotaAssumption ==
  /\ Limit \in [Quotas -> Nat \ {0}]
  /\ Window \in [{"burst", "token"} -> Nat \ {0}]
  /\ DayLength \in Nat \ {0}
ASSUME TierAssumption == "free" \in Tiers /\ AllowedTiers \subseteq Tiers

NoExpiry == -1
Keys == Quotas \X Owners
Working == {"incr", "look", "arm"}

VARIABLES
  profile,   \* the tier the profiles table has of each owner
  path,      \* the route of each call
  tier,      \* the tier resolved for each call
  at,        \* where each call is: "new", one of Working, or "done"
  quota,     \* the quota a call consumes, or consumed last
  used,      \* used[c][q]: the answer of INCR, 0 before
  outcome,   \* what became of the call
  late,      \* the command of a failed call that may still take effect
  stale,     \* midnight has passed since the call computed its reset
  count,     \* count[k]: the counter, 0 if there is no such key
  left,      \* left[k]: the ticks until the key expires
  midnight,  \* the ticks until the next UTC midnight
  span,      \* span[k]: the calls counted in the present day or window
  cut        \* an expiry of the day before has removed today's counter

counters == <<count, left, span, cut>>
request == <<profile, path, tier>>
vars == <<profile, path, tier, at, quota, used, outcome, late, stale,
          count, left, midnight, span, cut>>

Key(c) == <<quota[c], Owner[c]>>

Init ==
  /\ profile \in [Owners -> Tiers]
  /\ path \in Traffic
  /\ tier = [c \in Calls |-> "free"]
  /\ at = [c \in Calls |-> "new"]
  /\ quota = [c \in Calls |-> "burst"]
  /\ used = [c \in Calls |-> [q \in Quotas |-> 0]]
  /\ outcome = [c \in Calls |-> "none"]
  /\ late = [c \in Calls |-> "none"]
  /\ stale = [c \in Calls |-> FALSE]
  /\ count = [k \in Keys |-> 0]
  /\ left = [k \in Keys |-> NoExpiry]
  /\ midnight = DayLength
  /\ span = [k \in Keys |-> {}]
  /\ cut = [o \in Owners |-> FALSE]

-----------------------------------------------------------------------------
(* The middleware.                                                          *)

End(c, result) ==
  /\ at' = [at EXCEPT ![c] = "done"]
  /\ outcome' = [outcome EXCEPT ![c] = result]
  /\ UNCHANGED <<quota, stale>>

(* A quota function is entered: now is read, the INCR sent.                 *)
Consume(c, q) ==
  /\ at' = [at EXCEPT ![c] = "incr"]
  /\ quota' = [quota EXCEPT ![c] = q]
  /\ stale' = [stale EXCEPT ![c] = FALSE]
  /\ UNCHANGED outcome

(* The tier middleware, and the handler behind it.                          *)
Admit(c, t) == End(c, IF t \in AllowedTiers THEN "admitted" ELSE "forbidden")

Meter(c, t) == Consume(c, IF t = "free" THEN "daily" ELSE "burst")

(* verifyBearerToken: a profile that cannot be read counts as free.         *)
TiersFound(c) ==
  {profile[Owner[c]]} \cup (IF "profile" \in Faults THEN {"free"} ELSE {})

Authenticate(c) ==
  /\ at[c] = "new"
  /\ path[c] # "token"
  /\ \E t \in TiersFound(c) :
       /\ tier' = [tier EXCEPT ![c] = t]
       /\ \/ path[c] = "llm" /\ Meter(c, t)
          \/ path[c] = "projects" /\ Admit(c, t)
  /\ UNCHANGED <<profile, path, used, late, counters, midnight>>

Unauthorized(c) ==
  /\ "auth" \in Faults
  /\ at[c] = "new"
  /\ path[c] # "token"
  /\ End(c, "unauthorized")
  /\ UNCHANGED <<request, used, late, counters, midnight>>

(* POST /auth/token: no bearer token, a quota per address.                  *)
TokenRequest(c) ==
  /\ at[c] = "new"
  /\ path[c] = "token"
  /\ Consume(c, "token")
  /\ UNCHANGED <<request, used, late, counters, midnight>>

(* Mutant: the call after the last one allowed passes too.                  *)
ExceededByTwo(c) == used[c][quota[c]] > Limit[quota[c]] + 1

Exceeded(c) == used[c][quota[c]] > Limit[quota[c]]

(* A quota function has returned.                                           *)
Answer(c) ==
  \/ Exceeded(c) /\ End(c, "exceeded")
  \/ ~Exceeded(c) /\ quota[c] = "daily" /\ Consume(c, "burst")
  \/ ~Exceeded(c) /\ quota[c] = "burst" /\ Admit(c, tier[c])
  \/ ~Exceeded(c) /\ quota[c] = "token" /\ End(c, "admitted")

-----------------------------------------------------------------------------
(* The commands.                                                            *)

Counted(k, n) ==
  /\ count' = [count EXCEPT ![k] = @ + n]
  /\ UNCHANGED <<left, cut>>

(* INCR; the client may have sent it twice over a broken connection. The    *)
(* call goes on to set the expiry if it is the first, to look at it if not. *)
Incr(c) ==
  /\ at[c] = "incr"
  /\ \E n \in {1} \cup (IF "resend" \in Faults THEN {2} ELSE {}) :
       /\ Counted(Key(c), n)
       /\ used' = [used EXCEPT ![c][quota[c]] = count[Key(c)] + n]
       /\ at' = [at EXCEPT ![c] = IF count[Key(c)] + n = 1 THEN "arm" ELSE "look"]
  /\ span' = [span EXCEPT ![Key(c)] = @ \cup {c}]
  /\ UNCHANGED <<request, quota, outcome, late, stale, midnight>>

(* TTL: the rest of the time to the nearest tick; -1 without expiry, -2     *)
(* without a key.                                                           *)
TtlReplies(k) ==
  IF count[k] = 0 THEN {-2}
  ELSE IF left[k] = 1 THEN {0, 1}
  ELSE {left[k]}

(* Mutant: only the call that was the first sets the expiry.                *)
LookAtNothing(c) ==
  /\ at[c] = "look"
  /\ Answer(c)
  /\ UNCHANGED <<request, used, late, counters, midnight>>

Look(c) ==
  /\ at[c] = "look"
  /\ \E ttl \in TtlReplies(Key(c)) :
       \/ ttl > 0 /\ Answer(c)
       \/ /\ ttl <= 0
          /\ at' = [at EXCEPT ![c] = "arm"]
          /\ UNCHANGED <<quota, outcome, stale>>
  /\ UNCHANGED <<request, used, late, counters, midnight>>

(* EXPIREAT with a time that has passed removes the key.                    *)
RemoveKey(k) ==
  /\ count' = [count EXCEPT ![k] = 0]
  /\ left' = [left EXCEPT ![k] = NoExpiry]
  /\ cut' = [cut EXCEPT ![k[2]] = TRUE]
  /\ UNCHANGED span

(* Mutant: the midnight before, not the next one.                           *)
SetExpiryToday(k) ==
  /\ left' = [left EXCEPT ![k] = IF k[1] = "daily" THEN midnight - DayLength ELSE Window[k[1]]]
  /\ UNCHANGED <<count, span, cut>>

SetExpiry(k) ==
  /\ left' = [left EXCEPT ![k] = IF k[1] = "daily" THEN midnight ELSE Window[k[1]]]
  /\ UNCHANGED <<count, span, cut>>

(* EXPIRE, or EXPIREAT the midnight that came after the call's now.         *)
Expire(c) ==
  \/ count[Key(c)] = 0 /\ UNCHANGED counters
  \/ count[Key(c)] > 0 /\ ~stale[c] /\ SetExpiry(Key(c))
  \/ count[Key(c)] > 0 /\ stale[c] /\ RemoveKey(Key(c))

Arm(c) ==
  /\ at[c] = "arm"
  /\ Expire(c)
  /\ Answer(c)
  /\ UNCHANGED <<request, used, late, midnight>>

(* Mutant: a quota that cannot be consumed lets the call through.           *)
FailOpen(c) ==
  /\ "redis" \in Faults
  /\ at[c] \in Working
  /\ Admit(c, tier[c])
  /\ UNCHANGED <<request, used, late, counters, midnight>>

(* A command fails or times out: the call is refused as unavailable, and    *)
(* the command is lost or under way.                                        *)
Fail(c) ==
  /\ "redis" \in Faults
  /\ at[c] \in Working
  /\ End(c, "unavailable")
  /\ \E command \in {"none", at[c]} \ {"look"} : late' = [late EXCEPT ![c] = command]
  /\ UNCHANGED <<request, used, counters, midnight>>

LateIncr(c) ==
  /\ late[c] = "incr"
  /\ Counted(Key(c), 1)
  /\ late' = [late EXCEPT ![c] = "none"]
  /\ UNCHANGED <<request, at, quota, used, outcome, stale, midnight, span>>

LateExpire(c) ==
  /\ late[c] = "arm"
  /\ Expire(c)
  /\ late' = [late EXCEPT ![c] = "none"]
  /\ UNCHANGED <<request, at, quota, used, outcome, stale, midnight>>

-----------------------------------------------------------------------------
(* Time.                                                                    *)

(* Keys in their last tick expire; ended are the keys whose day or window   *)
(* is over.                                                                 *)
Expiry(ended) ==
  /\ count' = [k \in Keys |-> IF left[k] = 1 THEN 0 ELSE count[k]]
  /\ left' = [k \in Keys |-> IF left[k] > 1 THEN left[k] - 1 ELSE NoExpiry]
  /\ span' = [k \in Keys |-> IF k \in ended THEN {} ELSE span[k]]
  /\ UNCHANGED <<request, at, quota, used, outcome, late>>

OverWindows == {k \in Keys : k[1] # "daily" /\ left[k] = 1}

Tick ==
  /\ midnight > 1
  /\ midnight' = midnight - 1
  /\ Expiry(OverWindows)
  /\ UNCHANGED <<stale, cut>>

Midnight ==
  /\ midnight = 1
  /\ midnight' = DayLength
  /\ Expiry(OverWindows \cup ({"daily"} \X Owners))
  /\ stale' = [c \in Calls |-> quota[c] = "daily" /\ (at[c] \in Working \/ late[c] = "arm")]
  /\ cut' = [o \in Owners |-> FALSE]

Next ==
  \/ \E c \in Calls :
       \/ Authenticate(c) \/ Unauthorized(c) \/ TokenRequest(c)
       \/ Incr(c) \/ Look(c) \/ Arm(c)
       \/ Fail(c) \/ LateIncr(c) \/ LateExpire(c)
  \/ Tick
  \/ Midnight

Spec == Init /\ [][Next]_vars

-----------------------------------------------------------------------------
TypeOK ==
  /\ profile \in [Owners -> Tiers]
  /\ path \in [Calls -> Paths]
  /\ tier \in [Calls -> Tiers]
  /\ at \in [Calls -> {"new", "done"} \cup Working]
  /\ quota \in [Calls -> Quotas]
  /\ used \in [Calls -> [Quotas -> Nat]]
  /\ outcome \in [Calls -> {"none", "unauthorized", "unavailable", "exceeded",
                            "forbidden", "admitted"}]
  /\ late \in [Calls -> {"none", "incr", "arm"}]
  /\ stale \in [Calls -> BOOLEAN]
  /\ count \in [Keys -> Nat]
  /\ left \in [Keys -> Nat \cup {NoExpiry}]
  /\ \A k \in Keys : left[k] # 0 /\ (count[k] = 0 => left[k] = NoExpiry)
  /\ midnight \in 1..DayLength
  /\ span \in [Keys -> SUBSET Calls]
  /\ cut \in [Owners -> BOOLEAN]

(* consumeDailyFreeQuota computes the reset before the INCR: one that is    *)
(* held up past midnight removes the counter of the new day, and its calls  *)
(* count for nothing.                                                       *)
Exempt(k) == k[1] = "daily" /\ cut[k[2]]

(* However the commands of an owner's calls interleave, fail, come late or  *)
(* twice, no more calls get through in a day, or in a window, than the      *)
(* limit of the quota allows.                                               *)
AdmissionsAreBounded ==
  \A k \in Keys : Exempt(k) \/
    Cardinality({c \in span[k] : outcome[c] = "admitted"}) <= Limit[k[1]]

(* The call has had an answer from the quota.                               *)
Answered(c, q) ==
  /\ used[c][q] > 0
  /\ quota[c] = q => at[c] = "done" /\ outcome[c] # "unavailable"

(* No counter is left behind for good, refusing its owner for ever: one     *)
(* that has answered a call has an expiry, even if the call that created it *)
(* failed before it could set it.                                           *)
AnsweredCallsLeaveExpiry ==
  \A k \in Keys : Exempt(k) \/
    \A c \in span[k] : Answered(c, k[1]) => left[k] # NoExpiry

(* Whatever fails, nothing gets through uncounted: a call of an LLM route   *)
(* that is admitted is within the burst limit, and within the daily limit   *)
(* unless its owner has a paid tier.                                        *)
AdmissionIsCounted ==
  \A c \in Calls : path[c] = "llm" /\ outcome[c] = "admitted" =>
    /\ used[c]["burst"] \in 1..Limit["burst"]
    /\ profile[Owner[c]] = "free" => used[c]["daily"] \in 1..Limit["daily"]
===============================================================================
