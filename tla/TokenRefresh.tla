----------------------------- MODULE TokenRefresh -----------------------------
(***************************************************************************)
(* The token refresh of the background worker (extension/src/background/   *)
(* index.ts) with what it shares its storage with: the sign-in and the     *)
(* sign-out of the popup (extension/src/popup/App.tsx), and the backend's  *)
(* /auth/token, which rotates single-use refresh tokens.                   *)
(*                                                                         *)
(* One worker runs one refresh at a time (tokenRefreshPromise); the lock   *)
(* in chrome.storage.session outlives a worker the browser kills.  Times   *)
(* are ages that stop growing once they exceed MaxAge                      *)
(* (REFRESH_LOCK_MAX_AGE_MS), of which Tick is one unit.  A storage        *)
(* operation takes effect in the step that issues it.                      *)
(***************************************************************************)
EXTENDS Naturals, FiniteSets

CONSTANTS
  Callers,      \* 401 responses and REFRESH_TOKEN messages, each asking once
  MaxAge,       \* age up to which a lock, and a wait for its holder, is honoured
  MaxLogins,    \* bound on the sign-ins after the first
  MaxCrashes,   \* bound on the number of worker kills
  Faults        \* faults of the environment: "network", "storage", "refusal"

ASSUME RefreshAssumption ==
  /\ MaxAge \in Nat \ {0}
  /\ MaxLogins \in Nat
  /\ MaxCrashes \in Nat
  /\ Faults \subseteq {"network", "storage", "refusal"}

VARIABLES
  local,       \* promptcompiler.auth of chrome.storage.local
  session,     \* promptcompiler.auth of chrome.storage.session
  lock,        \* [held, age] of promptcompiler.refresh_lock
  pc,          \* where doRefreshAccessToken is suspended
  cred,        \* auth, as its readStoredAuth returned it
  seen,        \* what the last poll of waitForUpdatedAuth read
  waited,      \* age of waitForUpdatedAuth
  answer,      \* the backend's answer to the exchange in flight
  caller,      \* caller[c]: "idle", "waiting", "answered" or "killed"
  pending,     \* a sign-in is waiting for its answer
  issued,      \* number of token pairs issued so far
  spent,       \* refresh tokens the backend will not accept any more
  abandoned,   \* exchanges the backend may still serve for nobody
  crashes,     \* number of kills so far
  logins,      \* number of sign-ins so far
  lost,        \* history: spent tokens whose successor never reached storage
  signedOut,   \* history: sign-ins the user signed out of
  overlapped   \* history: sign-ins that, or whose sign-out, met a refresh

authVars    == <<local, session>>
refreshVars == <<pc, cred, seen, waited, answer>>
backendVars == <<issued, spent, abandoned, lost>>
popupVars   == <<pending, logins, signedOut, overlapped>>
vars == <<authVars, lock, refreshVars, caller, backendVars, popupVars, crashes>>

(* Tokens are numbered as they are issued; fam is the sign-in they descend  *)
(* from; a pair may lack a refresh token (0).                               *)
Auth   == [fam : Nat, access : Nat, refresh : Nat]
NoAuth == [fam |-> 0, access |-> 0, refresh |-> 0]
NoAnswer == [kind |-> "none", auth |-> NoAuth]
NoLock   == [held |-> FALSE, age |-> 0]

Ages == 0..MaxAge + 1

TypeOK ==
  /\ local \in Auth /\ session \in Auth
  /\ lock \in [held : BOOLEAN, age : Ages]
  /\ pc \in {"idle", "reading", "polling", "sleeping", "unlocked", "locking",
             "sent", "stored", "released"}
  /\ cred \in Auth /\ seen \in Auth
  /\ pc \in {"locking", "sent"} => cred.refresh # 0
  /\ waited \in Ages
  /\ answer \in [kind : {"none", "pending", "granted", "refused"}, auth : Auth]
  /\ caller \in [Callers -> {"idle", "waiting", "answered", "killed"}]
  /\ pending \in BOOLEAN
  /\ issued \in Nat
  /\ spent \subseteq Nat
  /\ abandoned \subseteq [refresh : Nat, age : Ages, killed : BOOLEAN]
  /\ crashes \in 0..MaxCrashes
  /\ logins \in 0..MaxLogins
  /\ lost \subseteq Nat
  /\ signedOut \subseteq Nat
  /\ overlapped \subseteq Nat

(* The user has signed in; nothing was refreshed in this browser session.   *)
Init ==
  /\ \E refresh \in {0, 1} : local = [fam |-> 1, access |-> 1, refresh |-> refresh]
  /\ session = NoAuth
  /\ lock = NoLock
  /\ pc = "idle"
  /\ cred = NoAuth
  /\ seen = NoAuth
  /\ waited = 0
  /\ answer = NoAnswer
  /\ caller = [c \in Callers |-> "idle"]
  /\ pending = FALSE
  /\ issued = 1
  /\ spent = {}
  /\ abandoned = {}
  /\ crashes = 0
  /\ logins = 0
  /\ lost = {}
  /\ signedOut = {}
  /\ overlapped = {}

-------------------------------------------------------------------------------
(* Mutant: the session copy is preferred.                                   *)
StoredAuthOfSession == IF session # NoAuth THEN session ELSE local

(* readStoredAuth: local first, then what a refresh left in the session.    *)
StoredAuth == IF local # NoAuth THEN local ELSE session

(* Mutant: a lock is honoured a moment too short.                           *)
LockIsFreshShort == lock.held /\ lock.age < MaxAge

LockIsFresh == lock.held /\ lock.age <= MaxAge

(* writeStoredAuth and clearStoredAuth: both areas at once, either of which *)
(* may reject the operation.                                                *)
Store(auth) ==
  \/ local' = auth /\ session' = auth
  \/ /\ "storage" \in Faults
     /\ \/ local' = auth /\ UNCHANGED session
        \/ session' = auth /\ UNCHANGED local
        \/ UNCHANGED authVars

RefreshFrame == UNCHANGED <<caller, popupVars, crashes>>

(* tokenRefreshPromise settles and is forgotten.                            *)
Settle ==
  /\ pc' = "idle"
  /\ caller' = [c \in Callers |->
                  IF caller[c] = "waiting" THEN "answered" ELSE caller[c]]
  /\ UNCHANGED <<popupVars, crashes>>

-------------------------------------------------------------------------------
(* refreshAccessToken: join the refresh under way, or start one, which      *)
(* reads the stored auth.                                                   *)
Call(c) ==
  /\ caller[c] = "idle"
  /\ caller' = [caller EXCEPT ![c] = "waiting"]
  /\ \/ pc # "idle" /\ UNCHANGED <<pc, cred>>
     \/ pc = "idle" /\ pc' = "reading" /\ cred' = StoredAuth
  /\ UNCHANGED <<authVars, lock, seen, waited, answer, backendVars, popupVars,
                 crashes>>

(* A fresh lock: the exchange of a killed worker may still be under way.    *)
WaitForHolder ==
  /\ pc = "reading"
  /\ LockIsFresh
  /\ pc' = "polling"
  /\ waited' = 0
  /\ seen' = StoredAuth
  /\ UNCHANGED <<authVars, lock, cred, answer, backendVars>>
  /\ RefreshFrame

(* A poll has read the stored auth: another token than before is the answer.*)
Polled ==
  /\ pc = "polling"
  /\ \/ /\ seen # NoAuth
        /\ cred = NoAuth \/ seen.access # cred.access
        /\ Settle
     \/ /\ seen = NoAuth \/ (cred # NoAuth /\ seen.access = cred.access)
        /\ pc' = "sleeping"
        /\ RefreshFrame
  /\ UNCHANGED <<authVars, lock, cred, seen, waited, answer, backendVars>>

(* Mutant: the wait for the holder of the lock has no deadline.             *)
WakeForever ==
  /\ pc = "sleeping"
  /\ pc' = "polling"
  /\ seen' = StoredAuth
  /\ UNCHANGED <<authVars, lock, cred, waited, answer, backendVars>>
  /\ RefreshFrame

(* REFRESH_LOCK_POLL_INTERVAL_MS later: poll again, or null at the deadline.*)
Wake ==
  /\ pc = "sleeping"
  /\ \/ /\ waited < MaxAge
        /\ pc' = "polling"
        /\ seen' = StoredAuth
        /\ RefreshFrame
     \/ /\ waited >= MaxAge
        /\ Settle
        /\ UNCHANGED seen
  /\ UNCHANGED <<authVars, lock, cred, waited, answer, backendVars>>

(* A stale lock is removed.                                                 *)
StealLock ==
  /\ pc = "reading"
  /\ lock.held /\ ~LockIsFresh
  /\ lock' = NoLock
  /\ pc' = "unlocked"
  /\ UNCHANGED <<authVars, cred, seen, waited, answer, backendVars>>
  /\ RefreshFrame

(* Mutant: the stored auth is not asked for a refresh token.                *)
TakeLockUnasked ==
  /\ pc = "unlocked" \/ (pc = "reading" /\ ~lock.held)
  /\ lock' = [held |-> TRUE, age |-> 0]
  /\ pc' = "locking"
  /\ RefreshFrame
  /\ UNCHANGED <<authVars, cred, seen, waited, answer, backendVars>>

(* No lock in the way: null without a refresh token, else take the lock.    *)
TakeLock ==
  /\ pc = "unlocked" \/ (pc = "reading" /\ ~lock.held)
  /\ \/ cred.refresh = 0 /\ Settle /\ UNCHANGED lock
     \/ /\ cred.refresh # 0
        /\ lock' = [held |-> TRUE, age |-> 0]
        /\ pc' = "locking"
        /\ RefreshFrame
  /\ UNCHANGED <<authVars, cred, seen, waited, answer, backendVars>>

(* The catch block before there is a lock to release, null: a read of the   *)
(* stored auth or of the lock, the removal of a stale lock or the write of  *)
(* the new one is rejected.                                                 *)
StorageRejects ==
  /\ "storage" \in Faults
  /\ pc \in {"reading", "polling", "unlocked"}
  /\ Settle
  /\ UNCHANGED <<authVars, lock, cred, seen, waited, answer, backendVars>>

(* The lock is written: POST /auth/token.                                   *)
Send ==
  /\ pc = "locking"
  /\ pc' = "sent"
  /\ answer' = [kind |-> "pending", auth |-> NoAuth]
  /\ UNCHANGED <<authVars, lock, cred, seen, waited, backendVars>>
  /\ RefreshFrame

(* A refresh token whose successor was issued and will not be stored.       *)
LoseIfSpent == lost' = lost \cup ({cred.refresh} \cap spent)

(* Mutant: the rotated refresh token is not taken from the answer.          *)
ReceiveKeepingToken ==
  /\ pc = "sent"
  /\ answer.kind \in {"granted", "refused"}
  /\ LET new == IF answer.kind = "granted"
                THEN [answer.auth EXCEPT !.refresh = cred.refresh] ELSE NoAuth
     IN  /\ Store(new)
         /\ IF local' = new /\ session' = new THEN UNCHANGED lost ELSE LoseIfSpent
  /\ pc' = "stored"
  /\ answer' = NoAnswer
  /\ UNCHANGED <<lock, cred, seen, waited, issued, spent, abandoned>>
  /\ RefreshFrame

(* The answer is in: the new pair is written; any failure status, a 429 or  *)
(* a 503 too, clears the stored auth.                                       *)
Receive ==
  /\ pc = "sent"
  /\ answer.kind \in {"granted", "refused"}
  /\ LET new == IF answer.kind = "granted" THEN answer.auth ELSE NoAuth
     IN  /\ Store(new)
         /\ IF local' = new /\ session' = new THEN UNCHANGED lost ELSE LoseIfSpent
  /\ pc' = "stored"
  /\ answer' = NoAnswer
  /\ UNCHANGED <<lock, cred, seen, waited, issued, spent, abandoned>>
  /\ RefreshFrame

(* The finally block removes the lock, which stays when that is rejected.   *)
ClearLock ==
  \/ lock' = NoLock
  \/ "storage" \in Faults /\ UNCHANGED lock

(* The fetch rejects, or its body breaks off: the catch block, null, and    *)
(* the finally block.  The backend may have served the exchange, or may     *)
(* still do so.                                                             *)
NetworkFails ==
  /\ "network" \in Faults
  /\ pc = "sent"
  /\ pc' = "released"
  /\ ClearLock
  /\ answer' = NoAnswer
  /\ abandoned' = IF answer.kind = "pending"
                  THEN abandoned \cup {[refresh |-> cred.refresh, age |-> lock.age,
                                        killed |-> FALSE]}
                  ELSE abandoned
  /\ LoseIfSpent
  /\ UNCHANGED <<authVars, cred, seen, waited, issued, spent>>
  /\ RefreshFrame

(* The stored auth is written or cleared, or that was rejected: the finally *)
(* block.                                                                   *)
Release ==
  /\ pc = "stored"
  /\ pc' = "released"
  /\ ClearLock
  /\ UNCHANGED <<authVars, cred, seen, waited, answer, backendVars>>
  /\ RefreshFrame

Released ==
  /\ pc = "released"
  /\ Settle
  /\ UNCHANGED <<authVars, lock, cred, seen, waited, answer, backendVars>>

Refresh ==
  \/ WaitForHolder \/ Polled \/ Wake \/ StealLock \/ TakeLock
  \/ StorageRejects \/ Send
  \/ Receive \/ NetworkFails \/ Release \/ Released

-------------------------------------------------------------------------------
(* The rest of the world: the backend, the popup, the browser and time.     *)

(* /auth/token with a refresh token that is still good: a new pair, rotated *)
(* or not; or a refusal by the limiter before the exchange, or by the       *)
(* verification after it.  A spent token is refused.                        *)
Serve ==
  /\ answer.kind = "pending"
  /\ \/ /\ cred.refresh \notin spent
        /\ issued' = issued + 1
        /\ \E refresh \in {cred.refresh, issued + 1} :
             /\ answer' = [kind |-> "granted",
                           auth |-> [fam |-> cred.fam, access |-> issued + 1,
                                     refresh |-> refresh]]
             /\ spent' = IF refresh = cred.refresh THEN spent
                         ELSE spent \cup {cred.refresh}
        /\ UNCHANGED lost
     \/ /\ "refusal" \in Faults \/ cred.refresh \in spent
        /\ answer' = [kind |-> "refused", auth |-> NoAuth]
        /\ UNCHANGED <<issued, spent, lost>>
     \/ /\ "refusal" \in Faults
        /\ answer' = [kind |-> "refused", auth |-> NoAuth]
        /\ spent' = spent \cup {cred.refresh}
        /\ lost' = lost \cup {cred.refresh}
        /\ UNCHANGED issued
  /\ UNCHANGED <<authVars, lock, pc, cred, seen, waited, caller, abandoned,
                 popupVars, crashes>>

(* An abandoned exchange is served, or never arrives.                       *)
ServeAbandoned(x) ==
  /\ x \in abandoned
  /\ abandoned' = abandoned \ {x}
  /\ \/ UNCHANGED <<spent, lost>>
     \/ /\ spent' = spent \cup {x.refresh}
        /\ lost' = lost \cup {x.refresh}
  /\ UNCHANGED <<authVars, lock, refreshVars, caller, issued, popupVars, crashes>>

(* The popup offers the forms to sign in and to sign up while nobody is     *)
(* signed in; the answer of Supabase comes later, and is written to the     *)
(* local area.                                                              *)
BeginLogin ==
  /\ ~pending
  /\ logins < MaxLogins
  /\ local = NoAuth
  /\ pending' = TRUE
  /\ logins' = logins + 1
  /\ UNCHANGED <<authVars, lock, refreshVars, caller, backendVars, signedOut,
                 overlapped, crashes>>

StoreLogin ==
  /\ pending
  /\ pending' = FALSE
  /\ issued' = issued + 1
  /\ \E refresh \in {0, issued + 1} :
       local' = [fam |-> issued + 1, access |-> issued + 1, refresh |-> refresh]
  /\ overlapped' = IF pc = "idle" THEN overlapped ELSE overlapped \cup {issued + 1}
  /\ UNCHANGED <<session, lock, refreshVars, caller, spent, abandoned, lost,
                 logins, signedOut, crashes>>

(* No session comes of it: the sign-in is refused, the account has to be    *)
(* confirmed by e-mail first, or the popup was closed.                      *)
LoginFails ==
  /\ pending
  /\ pending' = FALSE
  /\ UNCHANGED <<authVars, lock, refreshVars, caller, backendVars, logins,
                 signedOut, overlapped, crashes>>

(* Mutant: sign-out forgets the session copy and keeps the local one.       *)
LogoutOfSession ==
  /\ local # NoAuth
  /\ session' = NoAuth
  /\ signedOut' = signedOut \cup {local.fam}
  /\ UNCHANGED <<local, lock, refreshVars, caller, backendVars, pending, logins,
                 overlapped, crashes>>

(* handleLogout removes the local copy, and that one only.                  *)
Logout ==
  /\ local # NoAuth
  /\ local' = NoAuth
  /\ signedOut' = signedOut \cup {local.fam}
  /\ overlapped' = IF session.fam = local.fam \/ (pc # "idle" /\ cred.fam = local.fam)
                   THEN overlapped \cup {local.fam} ELSE overlapped
  /\ UNCHANGED <<session, lock, refreshVars, caller, backendVars, pending, logins,
                 crashes>>

(* The browser kills the worker in the middle of a refresh.                 *)
Crash ==
  /\ pc # "idle"
  /\ crashes < MaxCrashes
  /\ crashes' = crashes + 1
  /\ pc' = "idle"
  /\ answer' = NoAnswer
  /\ caller' = [c \in Callers |->
                  IF caller[c] = "waiting" THEN "killed" ELSE caller[c]]
  /\ abandoned' = IF answer.kind = "pending"
                  THEN abandoned \cup {[refresh |-> cred.refresh, age |-> lock.age,
                                        killed |-> TRUE]}
                  ELSE abandoned
  /\ IF pc = "sent" THEN LoseIfSpent ELSE UNCHANGED lost
  /\ UNCHANGED <<authVars, lock, cred, seen, waited, issued, spent, popupVars>>

Older(age) == IF age > MaxAge THEN age ELSE age + 1

Tick ==
  /\ lock' = IF lock.held THEN [lock EXCEPT !.age = Older(lock.age)] ELSE lock
  /\ waited' = IF pc \in {"polling", "sleeping"} THEN Older(waited) ELSE waited
  /\ abandoned' = {[x EXCEPT !.age = Older(x.age)] : x \in abandoned}
  /\ UNCHANGED <<authVars, pc, cred, seen, answer, caller, issued, spent, lost,
                 popupVars, crashes>>

-------------------------------------------------------------------------------
Next ==
  \/ \E c \in Callers : Call(c)
  \/ Refresh
  \/ Serve
  \/ \E x \in abandoned : ServeAbandoned(x)
  \/ BeginLogin \/ StoreLogin \/ LoginFails \/ Logout
  \/ Crash
  \/ Tick

Spec == Init /\ [][Next]_vars

(* The worker runs the continuations it has scheduled, /auth/token answers  *)
(* or the connection breaks, and time passes.                               *)
Fairness == WF_vars(Refresh) /\ WF_vars(Serve) /\ WF_vars(Tick)

FairSpec == Spec /\ Fairness

-------------------------------------------------------------------------------
(* Properties.                                                              *)

(* "A single-use refresh_token is never sent twice in parallel": within a   *)
(* worker there is one exchange at a time, and across a kill a worker that  *)
(* takes the lock leaves the exchange of its predecessor MaxAge to finish.  *)
NoParallelExchange ==
  pc \in {"locking", "sent"} =>
    \A x \in abandoned : x.killed => x.age > MaxAge

(* Rotation never strands the user: a stored refresh token that the backend *)
(* will refuse is about to be replaced by its successor, unless the answer  *)
(* that carried the successor was lost.                                     *)
SpentTokensAreReplaced ==
  \A auth \in {local, session} :
    auth.refresh \in spent \ lost => pc = "sent" /\ cred.refresh = auth.refresh

(* A sign-out sticks: a session the user left is not signed in again,       *)
(* unless a refresh had left a copy of it in the session area or was        *)
(* running on it at the time.                                               *)
SignOutSticks == local.fam \in signedOut => local.fam \in overlapped

(* A sign-in is lost only to the user's sign-out or next sign-in, or to a   *)
(* refused refresh of its own tokens, unless it was stored while a refresh  *)
(* was running.                                                             *)
SessionIsKept ==
  [][ /\ local # NoAuth
      /\ local.fam \notin overlapped \cup signedOut
      /\ local'.fam # local.fam
      => \/ local.fam \in signedOut'
         \/ pending /\ ~pending'
         \/ local' = NoAuth /\ cred.fam = local.fam /\ answer.kind = "refused" ]_vars

(* Whoever waits for a refresh is answered, whatever lock a killed worker   *)
(* has left behind, unless the worker is killed.                            *)
CallersAreAnswered ==
  \A c \in Callers : caller[c] = "waiting" ~> caller[c] # "waiting"
===============================================================================
