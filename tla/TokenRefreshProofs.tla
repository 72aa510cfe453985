-------------------------- MODULE TokenRefreshProofs --------------------------
(***************************************************************************)
(* What holds of TokenRefresh for any number of callers, any lock age and  *)
(* any number of sign-ins, kills and faults.                               *)
(***************************************************************************)
EXTENDS TokenRefresh, TLAPS

(* The kinds of step of the refresh, as far as the proofs tell them apart:  *)
(* only Receive writes the stored auth, only four steps touch the lock.     *)
Quiet ==
  /\ UNCHANGED <<authVars, lock, cred, answer, backendVars, popupVars, crashes>>
  /\ waited' \in {waited, 0}
  /\ seen' \in {seen, StoredAuth}
  /\ pc' \in {"idle", "polling", "sleeping"}
  /\ caller' = caller \/ caller' = [c \in Callers |->
                  IF caller[c] = "waiting" THEN "answered" ELSE caller[c]]

(* No step of the refresh but these has any effect beyond itself.           *)
LEMMA QuietSteps == WaitForHolder \/ Polled \/ Wake \/ StorageRejects \/ Released => Quiet
BY DEF WaitForHolder, Polled, Wake, StorageRejects, Released, Settle, RefreshFrame, Quiet,
   popupVars

LEMMA OlderAge ==
  ASSUME RefreshAssumption, NEW a \in Ages
  PROVE  /\ Older(a) \in Ages
         /\ a > MaxAge => Older(a) > MaxAge
BY DEF RefreshAssumption, Ages, Older

LEMMA Constants == 0 \in Ages /\ NoAuth \in Auth /\ NoLock \in [held : BOOLEAN, age : Ages]
BY RefreshAssumption DEF RefreshAssumption, Ages, NoAuth, Auth, NoLock

LEMMA StoredAuthType == TypeOK => StoredAuth \in Auth
BY DEF TypeOK, StoredAuth

-------------------------------------------------------------------------------
LEMMA TypeNext == TypeOK /\ [Next]_vars => TypeOK'
<1> SUFFICES ASSUME TypeOK, [Next]_vars
             PROVE  TypeOK'
  OBVIOUS
<1> USE Constants DEF TypeOK, authVars, refreshVars, backendVars, popupVars
<1>1. ASSUME NEW c \in Callers, Call(c)
      PROVE  TypeOK'
  BY <1>1, StoredAuthType DEF Call
<1>2. CASE WaitForHolder \/ Polled \/ Wake \/ StorageRejects \/ Released
  <2>1. Quiet
    BY <1>2, QuietSteps
  <2>2. QED
    BY <2>1, StoredAuthType DEF Quiet
<1>3. CASE StealLock
  BY <1>3 DEF StealLock, RefreshFrame
<1>4. CASE TakeLock
  <2>1. lock' \in [held : BOOLEAN, age : Ages]
    <3>1. [held |-> TRUE, age |-> 0] \in [held : BOOLEAN, age : Ages]
      OBVIOUS
    <3>2. QED
      BY <1>4, <3>1 DEF TakeLock
  <2>2. caller' \in [Callers -> {"idle", "waiting", "answered", "killed"}]
    BY <1>4 DEF TakeLock, Settle, RefreshFrame
  <2>3. UNCHANGED popupVars /\ UNCHANGED crashes /\ pc' \in {"idle", "locking"}
    BY <1>4 DEF TakeLock, Settle, RefreshFrame
  <2>4. pc' = "locking" => cred'.refresh # 0
    BY <1>4 DEF TakeLock, Settle
  <2>5. QED
    BY <1>4, <2>1, <2>2, <2>3, <2>4 DEF TakeLock
<1>5. CASE Send
  BY <1>5 DEF Send, RefreshFrame
<1>6. CASE Receive
  <2>1. local' \in Auth /\ session' \in Auth
    BY <1>6 DEF Receive, Store
  <2>2. lost' \subseteq Nat
    BY <1>6 DEF Receive, LoseIfSpent, Auth
  <2>3. QED
    BY <1>6, <2>1, <2>2 DEF Receive, RefreshFrame, NoAnswer
<1>7. CASE NetworkFails
  <2>1. lost' \subseteq Nat /\ answer' = NoAnswer
    BY <1>7 DEF NetworkFails, LoseIfSpent, Auth
  <2>2. abandoned' \subseteq [refresh : Nat, age : Ages, killed : BOOLEAN]
    <3>1. [refresh |-> cred.refresh, age |-> lock.age, killed |-> FALSE]
            \in [refresh : Nat, age : Ages, killed : BOOLEAN]
      BY DEF Auth
    <3>2. QED
      BY <1>7, <3>1 DEF NetworkFails
  <2>3. QED
    BY <1>7, <2>1, <2>2 DEF NetworkFails, ClearLock, RefreshFrame, NoAnswer
<1>8. CASE Release
  BY <1>8 DEF Release, ClearLock, RefreshFrame
<1>9. CASE Serve
  <2>1. cred.refresh \in Nat /\ cred.fam \in Nat
    BY DEF Auth
  <2>2. ASSUME NEW refresh \in Nat
        PROVE  [fam |-> cred.fam, access |-> issued + 1, refresh |-> refresh] \in Auth
    BY <2>1 DEF Auth
  <2>3. answer' \in [kind : {"none", "pending", "granted", "refused"}, auth : Auth]
    <3>1. ASSUME NEW refresh \in {cred.refresh, issued + 1},
                 answer' = [kind |-> "granted",
                            auth |-> [fam |-> cred.fam, access |-> issued + 1,
                                      refresh |-> refresh]]
          PROVE  answer' \in [kind : {"none", "pending", "granted", "refused"}, auth : Auth]
      BY <2>1, <2>2, <3>1
    <3>2. CASE answer' = [kind |-> "refused", auth |-> NoAuth]
      BY <3>2
    <3>3. QED
      BY <1>9, <3>1, <3>2 DEF Serve
  <2>4. issued' \in Nat /\ spent' \subseteq Nat /\ lost' \subseteq Nat
    <3>1. issued' \in {issued, issued + 1}
      BY <1>9 DEF Serve
    <3>2. spent' \in {spent, spent \cup {cred.refresh}}
      BY <1>9 DEF Serve
    <3>3. lost' \in {lost, lost \cup {cred.refresh}}
      BY <1>9 DEF Serve
    <3>4. QED
      BY <2>1, <3>1, <3>2, <3>3
  <2>5. QED
    BY <1>9, <2>3, <2>4 DEF Serve
<1>10. ASSUME NEW x \in abandoned, ServeAbandoned(x)
       PROVE  TypeOK'
  BY <1>10 DEF ServeAbandoned
<1>11. CASE BeginLogin \/ LoginFails
  <2>1. pending' \in BOOLEAN
    BY <1>11 DEF BeginLogin, LoginFails
  <2>2. logins' \in 0..MaxLogins
    BY <1>11, RefreshAssumption DEF BeginLogin, LoginFails, RefreshAssumption
  <2>3. QED
    BY <1>11, <2>1, <2>2 DEF BeginLogin, LoginFails
<1>12. CASE StoreLogin
  <2>1. issued' \in Nat /\ local' \in Auth
    BY <1>12 DEF StoreLogin, Auth
  <2>2. overlapped' \subseteq Nat
    BY <1>12 DEF StoreLogin
  <2>3. QED
    BY <1>12, <2>1, <2>2 DEF StoreLogin
<1>13. CASE Logout
  BY <1>13 DEF Logout, Auth
<1>14. CASE Crash
  <2>1. lost' \subseteq Nat /\ answer' = NoAnswer
    BY <1>14 DEF Crash, LoseIfSpent, Auth
  <2>2. abandoned' \subseteq [refresh : Nat, age : Ages, killed : BOOLEAN]
    <3>1. [refresh |-> cred.refresh, age |-> lock.age, killed |-> TRUE]
            \in [refresh : Nat, age : Ages, killed : BOOLEAN]
      BY DEF Auth
    <3>2. QED
      BY <1>14, <3>1 DEF Crash
  <2>3. crashes' \in 0..MaxCrashes
    BY <1>14, RefreshAssumption DEF Crash, RefreshAssumption
  <2>4. QED
    BY <1>14, <2>1, <2>2, <2>3 DEF Crash, NoAnswer
<1>15. CASE Tick
  <2>1. lock' \in [held : BOOLEAN, age : Ages] /\ waited' \in Ages
    BY <1>15, OlderAge, RefreshAssumption DEF Tick
  <2>2. abandoned' \subseteq [refresh : Nat, age : Ages, killed : BOOLEAN]
    <3>1. ASSUME NEW x \in abandoned
          PROVE  [x EXCEPT !.age = Older(x.age)] \in [refresh : Nat, age : Ages, killed : BOOLEAN]
      BY OlderAge, RefreshAssumption
    <3>2. QED
      BY <1>15, <3>1 DEF Tick
  <2>3. QED
    BY <1>15, <2>1, <2>2 DEF Tick
<1>16. CASE UNCHANGED vars
  BY <1>16 DEF vars
<1>17. QED
  BY <1>1, <1>2, <1>3, <1>4, <1>5, <1>6, <1>7, <1>8, <1>9, <1>10, <1>11, <1>12,
     <1>13, <1>14, <1>15, <1>16 DEF Next, Refresh

(* Every reachable state is well typed: tokens, ages and bounds stay in     *)
(* range whatever is interrupted.                                           *)
THEOREM RefreshTypeCorrect == Spec => []TypeOK
<1>1. Init => TypeOK
  <2> SUFFICES ASSUME Init PROVE TypeOK
    OBVIOUS
  <2>1. local \in Auth
    BY DEF Init, Auth
  <2>2. answer \in [kind : {"none", "pending", "granted", "refused"}, auth : Auth]
    BY Constants DEF Init, NoAnswer
  <2>3. crashes \in 0..MaxCrashes /\ logins \in 0..MaxLogins
    BY RefreshAssumption DEF Init, RefreshAssumption
  <2>4. QED
    BY Constants, <2>1, <2>2, <2>3 DEF Init, TypeOK
<1>2. QED
  BY <1>1, TypeNext, PTL DEF Spec

-------------------------------------------------------------------------------
(* NoParallelExchange, inductively: while an exchange of a killed worker is *)
(* younger than MaxAge, the lock of that worker is still there, as old as   *)
(* the exchange, so nobody who reads it goes past it.                       *)
Expired == \A x \in abandoned : x.killed => x.age > MaxAge

LockGuards ==
  \A x \in abandoned : x.killed => x.age > MaxAge \/ (lock.held /\ lock.age = x.age)

LockInv ==
  /\ LockGuards
  /\ pc \in {"unlocked", "locking", "sent", "stored"} => Expired
  /\ pc \in {"locking", "sent", "stored"} => lock.held
  /\ answer.kind # "none" => pc = "sent"

LEMMA LockNext == TypeOK /\ LockInv /\ [Next]_vars => LockInv'
<1> SUFFICES ASSUME TypeOK, LockInv, [Next]_vars
             PROVE  LockInv'
  OBVIOUS
<1> USE DEF authVars, refreshVars, backendVars, popupVars
<1>0. MaxAge \in Nat /\ lock.age \in Nat /\ (\A x \in abandoned : x.age \in Nat)
  BY RefreshAssumption DEF RefreshAssumption, TypeOK, Ages
<1>1. ASSUME UNCHANGED <<lock, answer>>, abandoned' \subseteq abandoned,
             pc' = pc \/ (answer.kind = "none" /\ pc' \in {"idle", "reading", "polling", "sleeping"})
      PROVE  LockInv'
  BY <1>1 DEF LockInv, LockGuards, Expired
<1>2. CASE \E c \in Callers : Call(c)
  BY <1>1, <1>2 DEF Call, LockInv
<1>3. CASE WaitForHolder \/ Polled \/ Wake \/ StorageRejects
  BY <1>1, <1>3 DEF WaitForHolder, Polled, Wake, StorageRejects, Settle, LockInv
<1>4. CASE Released
  BY <1>1, <1>4 DEF Released, Settle, LockInv
<1>5. CASE StealLock
  <2>1. lock.age > MaxAge
    BY <1>0, <1>5 DEF StealLock, LockIsFresh
  <2>2. Expired
    BY <1>0, <2>1 DEF LockInv, LockGuards, Expired
  <2>3. QED
    BY <1>5, <2>2 DEF StealLock, LockInv, LockGuards, Expired, NoLock
<1>6. CASE TakeLock
  <2>1. Expired
    BY <1>6 DEF TakeLock, LockInv, LockGuards, Expired
  <2>2. UNCHANGED <<answer, abandoned>> /\ answer.kind = "none"
    BY <1>6 DEF TakeLock, LockInv
  <2>3. pc' = "idle" \/ (pc' = "locking" /\ lock'.held)
    BY <1>6 DEF TakeLock, Settle
  <2>4. QED
    BY <2>1, <2>2, <2>3 DEF LockInv, LockGuards, Expired
<1>7. CASE Send
  BY <1>7 DEF Send, LockInv, LockGuards, Expired
<1>8. CASE Receive \/ Release
  BY <1>8 DEF Receive, Release, ClearLock, LockInv, LockGuards, Expired, NoAnswer, NoLock
<1>9. CASE NetworkFails
  <2>1. Expired
    BY <1>9 DEF NetworkFails, LockInv
  <2>2. \A x \in abandoned' : x.killed => x \in abandoned
    BY <1>9 DEF NetworkFails
  <2>3. QED
    BY <1>9, <2>1, <2>2 DEF NetworkFails, LockInv, LockGuards, Expired, NoAnswer
<1>10. CASE Serve
  <2>1. pc = "sent" /\ UNCHANGED <<pc, lock, abandoned>>
    BY <1>10 DEF Serve, LockInv
  <2>2. QED
    BY <2>1 DEF LockInv, LockGuards, Expired
<1>11. CASE \E x \in abandoned : ServeAbandoned(x)
  BY <1>1, <1>11 DEF ServeAbandoned
<1>12. CASE BeginLogin \/ StoreLogin \/ LoginFails \/ Logout
  BY <1>1, <1>12 DEF BeginLogin, StoreLogin, LoginFails, Logout
<1>13. CASE Crash
  <2>1. ASSUME NEW x \in abandoned'
        PROVE  x \in abandoned \/ (lock.held /\ lock.age = x.age)
    BY <1>13, <2>1 DEF Crash, LockInv
  <2>2. pc' = "idle" /\ lock' = lock /\ answer'.kind = "none"
    BY <1>13 DEF Crash, NoAnswer
  <2>3. QED
    BY <2>1, <2>2 DEF LockInv, LockGuards
<1>14. CASE Tick
  <2>1. UNCHANGED <<pc, answer>> /\ (lock'.held <=> lock.held)
    BY <1>14 DEF Tick, TypeOK
  <2>2. ASSUME NEW x \in abandoned', x.killed
        PROVE  /\ Expired => x.age > MaxAge
               /\ x.age > MaxAge \/ (lock'.held /\ lock'.age = x.age)
    <3>1. PICK y \in abandoned : x = [y EXCEPT !.age = Older(y.age)]
      BY <1>14, <2>2 DEF Tick
    <3>2. x.age = Older(y.age) /\ y.killed
      BY <2>2, <3>1 DEF TypeOK
    <3>3. y.age > MaxAge => x.age > MaxAge
      BY <3>2, OlderAge, RefreshAssumption DEF TypeOK
    <3>4. lock.held => lock'.age = Older(lock.age)
      BY <1>14 DEF Tick, TypeOK
    <3>5. QED
      BY <2>1, <3>2, <3>3, <3>4 DEF LockInv, LockGuards, Expired
  <2>3. LockGuards' /\ (Expired => Expired')
    BY <2>2 DEF LockGuards, Expired
  <2>4. QED
    BY <2>1, <2>3 DEF LockInv
<1>15. CASE UNCHANGED vars
  BY <1>1, <1>15 DEF vars
<1>16. QED
  BY <1>2, <1>3, <1>4, <1>5, <1>6, <1>7, <1>8, <1>9, <1>10, <1>11, <1>12, <1>13,
     <1>14, <1>15 DEF Next, Refresh

LEMMA LockInvariant == Spec => []LockInv
<1>1. Init => LockInv
  BY DEF Init, LockInv, LockGuards, Expired, NoAnswer, NoLock
<1>2. QED
  BY <1>1, LockNext, RefreshTypeCorrect, PTL DEF Spec

(* However often workers are killed, no two of them exchange refresh tokens *)
(* within MaxAge of one another.                                            *)
THEOREM ExchangesAreSpaced == Spec => []NoParallelExchange
<1>1. LockInv => NoParallelExchange
  BY DEF LockInv, Expired, NoParallelExchange
<1>2. QED
  BY <1>1, LockInvariant, PTL

-------------------------------------------------------------------------------
(* The sessions.  Every token and sign-in in use has been issued, so a new  *)
(* one is nobody else's; a spent token that was not lost is being           *)
(* exchanged; a session the user left survives only where the sign-out met  *)
(* it.                                                                      *)
Known(auth) ==
  /\ auth.refresh \in 0..issued
  /\ auth.fam \in 0..issued
  /\ auth # NoAuth => auth.fam # 0
Good(auth)  == auth.refresh \in spent => auth.refresh \in lost
Stays(auth) == auth.fam \in signedOut => auth.fam \in overlapped

SessionInv ==
  /\ spent \subseteq 1..issued
  /\ signedOut \subseteq 1..issued
  /\ Known(local) /\ Known(session) /\ Known(cred)
  /\ \A x \in abandoned : x.refresh \in 1..issued
  /\ pc \in {"locking", "sent", "stored"} => cred.refresh # 0
  /\ answer.kind # "none" => pc = "sent"
  /\ answer.kind = "granted" =>
       Known(answer.auth) /\ Good(answer.auth) /\ answer.auth.fam = cred.fam
  /\ SpentTokensAreReplaced
  /\ Stays(local) /\ Stays(session)
  /\ pc # "idle" => Stays(cred)

LEMMA SessionInit == Init => SessionInv
<1> SUFFICES ASSUME Init PROVE SessionInv
  OBVIOUS
<1>1. Known(local) /\ Known(session) /\ Known(cred)
  BY DEF Init, Known, NoAuth
<1>2. QED
  BY <1>1 DEF Init, SessionInv, SpentTokensAreReplaced, Stays, NoAnswer

(* Steps that change no session data keep the invariant.                    *)
LEMMA SessionFrame ==
  ASSUME TypeOK, SessionInv,
         UNCHANGED <<authVars, issued, spent, lost, signedOut, overlapped>>,
         pc' # "idle" => \/ pc # "idle" /\ cred' = cred
                         \/ pc = "idle" /\ cred' = StoredAuth,
         cred' \in {cred, StoredAuth},
         pc = "sent" <=> (pc' = "sent" /\ cred' = cred),
         abandoned' \subseteq abandoned,
         pc' \in {"locking", "sent", "stored"} => cred'.refresh # 0,
         UNCHANGED answer
  PROVE  SessionInv'
<1>1. Known(local)' /\ Known(session)' /\ Known(cred)'
  BY DEF SessionInv, Known, authVars, StoredAuth
<1>2. SpentTokensAreReplaced'
  BY DEF SessionInv, SpentTokensAreReplaced, authVars
<1>3. Stays(local)' /\ Stays(session)' /\ (pc' # "idle" => Stays(cred)')
  BY DEF SessionInv, Stays, authVars, StoredAuth
<1>4. answer'.kind # "none" => pc' = "sent" /\ cred' = cred
  BY DEF SessionInv
<1>5. answer'.kind = "granted" =>
        Known(answer.auth)' /\ Good(answer.auth)' /\ answer'.auth.fam = cred'.fam
  BY <1>4 DEF SessionInv, Known, Good
<1>6. QED
  BY <1>1, <1>2, <1>3, <1>4, <1>5 DEF SessionInv

(* A new pair is nobody's: its number is above all that are in use.         *)
LEMMA KnownGrows ==
  ASSUME TypeOK, NEW auth \in Auth, Known(auth), issued' \in {issued, issued + 1}
  PROVE  auth.refresh \in 0..issued' /\ auth.fam \in 0..issued'
BY DEF TypeOK, Known

LEMMA ReceiveSession == TypeOK /\ SessionInv /\ Receive => SessionInv'
<1> SUFFICES ASSUME TypeOK, SessionInv, Receive
             PROVE  SessionInv'
  OBVIOUS
<1> DEFINE new == IF answer.kind = "granted" THEN answer.auth ELSE NoAuth
<1>1. /\ UNCHANGED <<issued, spent, signedOut, overlapped, cred, abandoned>>
      /\ pc = "sent" /\ pc' = "stored" /\ answer'.kind = "none"
      /\ local' \in {local, new} /\ session' \in {session, new}
      /\ IF local' = new /\ session' = new THEN UNCHANGED lost ELSE LoseIfSpent
  BY DEF Receive, Store, RefreshFrame, popupVars, authVars, NoAnswer
<1>2. Known(new) /\ Good(new) /\ Stays(new)
  <2>1. CASE answer.kind = "granted"
    BY <1>1, <2>1 DEF SessionInv, Stays
  <2>2. CASE answer.kind # "granted"
    BY <2>2 DEF SessionInv, Known, Good, Stays, NoAuth, TypeOK
  <2>3. QED
    BY <2>1, <2>2
<1> HIDE DEF new
<1>3. lost \subseteq lost'
  BY <1>1 DEF LoseIfSpent
<1>4. Known(local)' /\ Known(session)' /\ Known(cred)'
  BY <1>1, <1>2 DEF SessionInv, Known
<1>5. Stays(local)' /\ Stays(session)' /\ Stays(cred)'
  BY <1>1, <1>2 DEF SessionInv, Stays
<1>6. SpentTokensAreReplaced'
  <2>1. CASE local' = new /\ session' = new
    BY <1>1, <1>2, <2>1 DEF SpentTokensAreReplaced, Good
  <2>2. CASE ~(local' = new /\ session' = new)
    <3>1. lost' = lost \cup ({cred.refresh} \cap spent)
      BY <1>1, <2>2 DEF LoseIfSpent
    <3>2. \A auth \in {local, session} : auth.refresh \in spent => auth.refresh \in lost'
      BY <3>1 DEF SessionInv, SpentTokensAreReplaced
    <3>3. QED
      BY <1>1, <1>2, <1>3, <3>2 DEF SpentTokensAreReplaced, Good
  <2>3. QED
    BY <2>1, <2>2
<1>7. QED
  BY <1>1, <1>4, <1>5, <1>6 DEF SessionInv

LEMMA ServeSession == TypeOK /\ SessionInv /\ Serve => SessionInv'
<1> SUFFICES ASSUME TypeOK, SessionInv, Serve
             PROVE  SessionInv'
  OBVIOUS
<1>0. /\ UNCHANGED <<local, session, pc, cred, abandoned, signedOut, overlapped>>
      /\ pc = "sent" /\ cred.refresh # 0
      /\ cred.refresh \in 1..issued /\ cred.fam \in 0..issued
      /\ cred.fam # 0 /\ issued \in Nat
      /\ local \in Auth /\ session \in Auth /\ cred \in Auth
  <2>1. UNCHANGED <<local, session, pc, cred, abandoned, signedOut, overlapped>>
    BY DEF Serve, authVars, popupVars
  <2>2. pc = "sent" /\ cred.refresh # 0
    BY DEF Serve, SessionInv
  <2>3. cred # NoAuth
    BY <2>2 DEF NoAuth
  <2>4. QED
    BY <2>1, <2>2, <2>3 DEF SessionInv, Known, TypeOK
<1>1. /\ issued' \in {issued, issued + 1}
      /\ spent' \in {spent, spent \cup {cred.refresh}}
      /\ lost' \in {lost, lost \cup {cred.refresh}}
  BY DEF Serve
<1>2. Known(local)' /\ Known(session)' /\ Known(cred)'
  BY <1>0, <1>1, KnownGrows DEF SessionInv, Known
<1>3. SpentTokensAreReplaced'
  BY <1>0, <1>1 DEF SessionInv, SpentTokensAreReplaced
<1>4. Stays(local)' /\ Stays(session)' /\ Stays(cred)'
  BY <1>0 DEF SessionInv, Stays
<1>5. /\ answer'.kind # "none"
      /\ answer'.kind = "granted" =>
           Known(answer.auth)' /\ Good(answer.auth)' /\ answer'.auth.fam = cred'.fam
  <2>1. CASE answer' = [kind |-> "refused", auth |-> NoAuth]
    BY <2>1
  <2>2. ASSUME NEW refresh \in {cred.refresh, issued + 1},
               cred.refresh \notin spent, issued' = issued + 1, UNCHANGED lost,
               answer' = [kind |-> "granted",
                          auth |-> [fam |-> cred.fam, access |-> issued + 1,
                                    refresh |-> refresh]],
               spent' = IF refresh = cred.refresh THEN spent
                        ELSE spent \cup {cred.refresh}
        PROVE  /\ answer'.kind # "none"
               /\ Known(answer.auth)' /\ Good(answer.auth)' /\ answer'.auth.fam = cred'.fam
    <3>1. answer'.auth.refresh = refresh /\ answer'.auth.fam = cred.fam /\ answer'.kind = "granted"
      BY <2>2
    <3>2. refresh \in 0..issued' /\ cred.fam \in 0..issued'
      BY <1>0, <2>2
    <3>3. refresh \notin spent'
      <4>1. CASE refresh = cred.refresh
        BY <2>2, <4>1
      <4>2. CASE refresh # cred.refresh
        <5>1. refresh \notin spent
          BY <1>0, <2>2, <4>2 DEF SessionInv
        <5>2. QED
          BY <2>2, <4>2, <5>1
      <4>3. QED
        BY <4>1, <4>2
    <3>4. QED
      BY <1>0, <3>1, <3>2, <3>3 DEF Known, Good
  <2>3. QED
    BY <2>1, <2>2 DEF Serve
<1>6. spent' \subseteq 1..issued' /\ signedOut' \subseteq 1..issued'
  BY <1>0, <1>1 DEF SessionInv
<1>7. \A x \in abandoned' : x.refresh \in 1..issued'
  BY <1>0, <1>1 DEF SessionInv, TypeOK
<1>8. QED
  BY <1>0, <1>2, <1>3, <1>4, <1>5, <1>6, <1>7 DEF SessionInv

(* An exchange nobody waits for any more: what it spends is lost.           *)
LEMMA AbandonSession ==
  ASSUME TypeOK, SessionInv, pc # "idle",
         UNCHANGED <<local, session, cred, issued, spent, signedOut, overlapped>>,
         IF pc = "sent" THEN LoseIfSpent ELSE UNCHANGED lost,
         \A x \in abandoned' : x \in abandoned \/ (pc = "sent" /\ x.refresh = cred.refresh),
         pc' \in {"idle", "released"},
         answer' = NoAnswer
  PROVE  SessionInv'
<1>1. Known(local)' /\ Known(session)' /\ Known(cred)'
  BY DEF SessionInv, Known
<1>2. Stays(local)' /\ Stays(session)' /\ Stays(cred)'
  BY DEF SessionInv, Stays
<1>3. SpentTokensAreReplaced'
  <2>1. \A auth \in {local, session} : auth.refresh \in spent => auth.refresh \in lost'
    BY DEF SessionInv, SpentTokensAreReplaced, LoseIfSpent
  <2>2. QED
    BY <2>1 DEF SpentTokensAreReplaced
<1>4. pc = "sent" => cred.refresh \in 1..issued
  BY DEF SessionInv, Known, TypeOK
<1>5. QED
  BY <1>1, <1>2, <1>3, <1>4 DEF SessionInv, NoAnswer

LEMMA LoginSession == TypeOK /\ SessionInv /\ StoreLogin => SessionInv'
<1> SUFFICES ASSUME TypeOK, SessionInv, StoreLogin
             PROVE  SessionInv'
  OBVIOUS
<1>1. /\ UNCHANGED <<session, pc, cred, answer, spent, abandoned, lost, signedOut>>
      /\ issued' = issued + 1 /\ issued \in Nat
      /\ local'.fam = issued + 1 /\ local'.refresh \in {0, issued + 1}
      /\ overlapped \subseteq overlapped'
  BY DEF StoreLogin, TypeOK, refreshVars
<1>2. session \in Auth /\ cred \in Auth /\ answer.auth \in Auth
  BY DEF TypeOK
<1>3. Known(local)' /\ Known(session)' /\ Known(cred)'
  BY <1>1, <1>2, KnownGrows DEF SessionInv, Known
<1>4. answer'.kind = "granted" =>
        Known(answer.auth)' /\ Good(answer.auth)' /\ answer'.auth.fam = cred'.fam
  BY <1>1, <1>2, KnownGrows DEF SessionInv, Known, Good
<1>5. local'.refresh \notin spent /\ local'.fam \notin signedOut
  BY <1>1 DEF SessionInv
<1>6. SpentTokensAreReplaced'
  BY <1>1, <1>5 DEF SessionInv, SpentTokensAreReplaced
<1>7. Stays(local)' /\ Stays(session)' /\ (pc' # "idle" => Stays(cred)')
  BY <1>1, <1>5 DEF SessionInv, Stays
<1>8. /\ spent' \subseteq 1..issued' /\ signedOut' \subseteq 1..issued'
      /\ \A x \in abandoned' : x.refresh \in 1..issued'
  BY <1>1 DEF SessionInv, TypeOK
<1>9. QED
  BY <1>1, <1>3, <1>4, <1>6, <1>7, <1>8 DEF SessionInv

LEMMA LogoutSession == TypeOK /\ SessionInv /\ Logout => SessionInv'
<1> SUFFICES ASSUME TypeOK, SessionInv, Logout
             PROVE  SessionInv'
  OBVIOUS
<1>1. /\ UNCHANGED <<session, pc, cred, answer, issued, spent, abandoned, lost>>
      /\ local # NoAuth /\ local' = NoAuth
      /\ signedOut' = signedOut \cup {local.fam}
      /\ overlapped' = IF session.fam = local.fam \/ (pc # "idle" /\ cred.fam = local.fam)
                       THEN overlapped \cup {local.fam} ELSE overlapped
  BY DEF Logout, refreshVars, backendVars
<1>2. Known(local)' /\ Known(session)' /\ Known(cred)'
  BY <1>1 DEF SessionInv, Known, NoAuth, TypeOK
<1>3. local.fam \in 1..issued /\ 0 \notin signedOut'
  BY <1>1 DEF SessionInv, Known, TypeOK
<1>4. Stays(local)' /\ Stays(session)' /\ (pc' # "idle" => Stays(cred)')
  BY <1>1, <1>3 DEF SessionInv, Stays, NoAuth
<1>5. SpentTokensAreReplaced'
  BY <1>1 DEF SessionInv, SpentTokensAreReplaced, NoAuth
<1>6. answer'.kind = "granted" =>
        Known(answer.auth)' /\ Good(answer.auth)' /\ answer'.auth.fam = cred'.fam
  BY <1>1 DEF SessionInv, Known, Good
<1>7. QED
  BY <1>1, <1>2, <1>3, <1>4, <1>5, <1>6 DEF SessionInv

LEMMA SessionNext == TypeOK /\ SessionInv /\ [Next]_vars => SessionInv'
<1> SUFFICES ASSUME TypeOK, SessionInv, [Next]_vars
             PROVE  SessionInv'
  OBVIOUS
<1> USE DEF authVars, refreshVars, backendVars, popupVars
<1>1. CASE \E c \in Callers : Call(c)
  BY <1>1, SessionFrame DEF Call, SessionInv
<1>2. CASE WaitForHolder \/ Polled \/ Wake \/ StorageRejects \/ Released
  BY <1>2, SessionFrame DEF WaitForHolder, Polled, Wake, StorageRejects, Released, Settle,
     RefreshFrame
<1>3. CASE StealLock \/ TakeLock \/ Release
  BY <1>3, SessionFrame DEF StealLock, TakeLock, Release, Settle, RefreshFrame
<1>4. CASE Send
  <2>1. /\ UNCHANGED <<local, session, cred, issued, spent, lost, abandoned, signedOut,
                       overlapped>>
        /\ pc = "locking" /\ pc' = "sent" /\ answer'.kind = "pending"
    BY <1>4 DEF Send, RefreshFrame
  <2>2. Known(local)' /\ Known(session)' /\ Known(cred)'
    BY <2>1 DEF SessionInv, Known
  <2>3. SpentTokensAreReplaced' /\ Stays(local)' /\ Stays(session)' /\ Stays(cred)'
    BY <2>1 DEF SessionInv, SpentTokensAreReplaced, Stays
  <2>4. QED
    BY <2>1, <2>2, <2>3 DEF SessionInv
<1>5. CASE Receive
  BY <1>5, ReceiveSession
<1>6. CASE NetworkFails
  BY <1>6, AbandonSession DEF NetworkFails, RefreshFrame
<1>7. CASE Crash
  BY <1>7, AbandonSession DEF Crash, SessionInv
<1>8. CASE Serve
  BY <1>8, ServeSession
<1>9. ASSUME NEW x \in abandoned, ServeAbandoned(x)
      PROVE  SessionInv'
  <2>1. /\ UNCHANGED <<local, session, pc, cred, answer, issued, signedOut, overlapped>>
        /\ abandoned' \subseteq abandoned
        /\ \/ UNCHANGED <<spent, lost>>
           \/ spent' = spent \cup {x.refresh} /\ lost' = lost \cup {x.refresh}
    BY <1>9 DEF ServeAbandoned
  <2>2. Known(local)' /\ Known(session)' /\ Known(cred)'
    BY <2>1 DEF SessionInv, Known
  <2>3. SpentTokensAreReplaced'
    BY <2>1 DEF SessionInv, SpentTokensAreReplaced
  <2>4. answer'.kind = "granted" =>
          Known(answer.auth)' /\ Good(answer.auth)' /\ answer'.auth.fam = cred'.fam
    BY <2>1 DEF SessionInv, Known, Good
  <2>5. Stays(local)' /\ Stays(session)' /\ (pc' # "idle" => Stays(cred)')
    BY <2>1 DEF SessionInv, Stays
  <2>6. spent' \subseteq 1..issued'
    BY <2>1 DEF SessionInv
  <2>7. QED
    BY <2>1, <2>2, <2>3, <2>4, <2>5, <2>6 DEF SessionInv
<1>10. CASE BeginLogin \/ LoginFails
  BY <1>10, SessionFrame DEF BeginLogin, LoginFails, SessionInv
<1>11. CASE StoreLogin
  BY <1>11, LoginSession
<1>12. CASE Logout
  BY <1>12, LogoutSession
<1>13. CASE Tick
  <2>1. /\ UNCHANGED <<local, session, pc, cred, answer, issued, spent, lost, signedOut,
                       overlapped>>
        /\ abandoned' = {[x EXCEPT !.age = Older(x.age)] : x \in abandoned}
    BY <1>13 DEF Tick
  <2>2. \A x \in abandoned' : x.refresh \in 1..issued
    BY <2>1 DEF SessionInv, TypeOK
  <2>3. Known(local)' /\ Known(session)' /\ Known(cred)'
    BY <2>1 DEF SessionInv, Known
  <2>4. SpentTokensAreReplaced' /\ Stays(local)' /\ Stays(session)' /\ (pc' # "idle" => Stays(cred)')
    BY <2>1 DEF SessionInv, SpentTokensAreReplaced, Stays
  <2>5. answer'.kind = "granted" =>
          Known(answer.auth)' /\ Good(answer.auth)' /\ answer'.auth.fam = cred'.fam
    BY <2>1 DEF SessionInv, Known, Good
  <2>6. QED
    BY <2>1, <2>2, <2>3, <2>4, <2>5 DEF SessionInv
<1>14. CASE UNCHANGED vars
  BY <1>14, SessionFrame DEF vars, SessionInv
<1>15. QED
  BY <1>1, <1>2, <1>3, <1>4, <1>5, <1>6, <1>7, <1>8, <1>9, <1>10, <1>11, <1>12,
     <1>13, <1>14 DEF Next, Refresh

LEMMA SessionInvariant == Spec => []SessionInv
  BY SessionInit, SessionNext, RefreshTypeCorrect, PTL DEF Spec

(* A stored refresh token is one the backend accepts, unless its successor  *)
(* is on the way or was lost with the answer that carried it.               *)
THEOREM RotationKeepsUp == Spec => []SpentTokensAreReplaced
<1>1. SessionInv => SpentTokensAreReplaced
  BY DEF SessionInv
<1>2. QED
  BY <1>1, SessionInvariant, PTL

(* A session the user left comes back only if a refresh was running on it   *)
(* or had left a copy of it in the session area.                            *)
THEOREM SignOutHolds == Spec => []SignOutSticks
<1>1. SessionInv => SignOutSticks
  BY DEF SessionInv, Stays, SignOutSticks
<1>2. QED
  BY <1>1, SessionInvariant, PTL

-------------------------------------------------------------------------------
(* SessionIsKept: a running refresh works on the session that is stored,    *)
(* unless that one was stored after the refresh had begun.                  *)
OwnSession ==
  pc # "idle" /\ local # NoAuth => local.fam = cred.fam \/ local.fam \in overlapped

LEMMA OwnNext == TypeOK /\ SessionInv /\ OwnSession /\ [Next]_vars => OwnSession'
<1> SUFFICES ASSUME TypeOK, SessionInv, OwnSession, [Next]_vars
             PROVE  OwnSession'
  OBVIOUS
<1> USE DEF authVars, refreshVars, backendVars, popupVars
<1>1. CASE \E c \in Callers : Call(c)
  BY <1>1 DEF Call, OwnSession, StoredAuth
<1>2. CASE WaitForHolder \/ Polled \/ Wake \/ StorageRejects \/ Released
  BY <1>2 DEF WaitForHolder, Polled, Wake, StorageRejects, Released, Settle, RefreshFrame,
     OwnSession
<1>3. CASE StealLock \/ TakeLock \/ Send \/ NetworkFails \/ Release
  BY <1>3 DEF StealLock, TakeLock, Send, NetworkFails, Release, Settle, RefreshFrame,
     OwnSession
<1>4. CASE Receive
  <2>1. /\ pc = "sent" /\ UNCHANGED <<cred, overlapped>>
        /\ local' \in {local, NoAuth} \/ (answer.kind = "granted" /\ local' = answer.auth)
    BY <1>4 DEF Receive, Store, RefreshFrame
  <2>2. QED
    BY <2>1 DEF OwnSession, SessionInv
<1>5. CASE Serve \/ (\E x \in abandoned : ServeAbandoned(x)) \/ BeginLogin
           \/ LoginFails \/ Tick
  BY <1>5 DEF Serve, ServeAbandoned, BeginLogin, LoginFails, Tick, OwnSession
<1>6. CASE StoreLogin
  BY <1>6 DEF StoreLogin, OwnSession
<1>7. CASE Logout
  BY <1>7 DEF Logout, OwnSession
<1>8. CASE Crash
  BY <1>8 DEF Crash, OwnSession
<1>9. CASE UNCHANGED vars
  BY <1>9 DEF vars, OwnSession
<1>10. QED
  BY <1>1, <1>2, <1>3, <1>4, <1>5, <1>6, <1>7, <1>8, <1>9 DEF Next, Refresh

(* Only Receive, StoreLogin and Logout touch the local area.                *)
LEMMA LocalWriters ==
  ASSUME [Next]_vars, local' # local
  PROVE  Receive \/ StoreLogin \/ Logout
<1> USE DEF authVars, refreshVars, backendVars, popupVars
<1>1. CASE \E c \in Callers : Call(c)
  BY <1>1 DEF Call
<1>2. CASE Refresh /\ ~Receive
  BY <1>2 DEF Refresh, WaitForHolder, Polled, Wake, StealLock, TakeLock, StorageRejects, Send,
     NetworkFails, Release, Released
<1>3. CASE Serve \/ (\E x \in abandoned : ServeAbandoned(x)) \/ BeginLogin
           \/ LoginFails \/ Crash \/ Tick
  BY <1>3 DEF Serve, ServeAbandoned, BeginLogin, LoginFails, Crash, Tick
<1>4. CASE UNCHANGED vars
  BY <1>4 DEF vars
<1>5. QED
  BY <1>1, <1>2, <1>3, <1>4 DEF Next, Refresh

(* A session is lost only to the user or to a refused refresh of its own    *)
(* tokens, unless it was stored while a refresh was running.                *)
THEOREM SessionsAreKept == Spec => SessionIsKept
<1> DEFINE Kept ==
      /\ local # NoAuth
      /\ local.fam \notin overlapped \cup signedOut
      /\ local'.fam # local.fam
      => \/ local.fam \in signedOut'
         \/ pending /\ ~pending'
         \/ local' = NoAuth /\ cred.fam = local.fam /\ answer.kind = "refused"
<1>1. Init => OwnSession
  BY DEF Init, OwnSession
<1>2. TypeOK /\ SessionInv /\ OwnSession /\ [Next]_vars => [Kept]_vars
  <2> SUFFICES ASSUME TypeOK, SessionInv, OwnSession, [Next]_vars,
                      local # NoAuth, local.fam \notin overlapped \cup signedOut,
                      local'.fam # local.fam
               PROVE  \/ local.fam \in signedOut'
                      \/ pending /\ ~pending'
                      \/ local' = NoAuth /\ cred.fam = local.fam /\ answer.kind = "refused"
    OBVIOUS
  <2>1. CASE Receive
    <3>1. /\ pc = "sent" /\ answer.kind \in {"granted", "refused"}
          /\ local' = IF answer.kind = "granted" THEN answer.auth ELSE NoAuth
      BY <2>1 DEF Receive, Store, authVars
    <3>2. local.fam = cred.fam
      BY <3>1 DEF OwnSession
    <3>3. QED
      BY <3>1, <3>2 DEF SessionInv
  <2>2. CASE StoreLogin
    BY <2>2 DEF StoreLogin
  <2>3. CASE Logout
    BY <2>3 DEF Logout
  <2>4. QED
    BY <2>1, <2>2, <2>3, LocalWriters
<1>3. QED
  BY <1>1, <1>2, OwnNext, SessionInvariant, RefreshTypeCorrect, PTL DEF Spec, SessionIsKept
===============================================================================
