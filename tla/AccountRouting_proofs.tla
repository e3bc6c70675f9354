------------------------ MODULE AccountRouting_proofs ------------------------
(***************************************************************************)
(* Theorems about AccountRouting, for every number of connections, models  *)
(* and requests and every cooldown table that meets the assumptions.       *)
(***************************************************************************)
EXTENDS AccountRouting, WellFoundedInduction, TLAPS

(* What the loop's control state says of its bookkeeping: before the first *)
(* attempt there is none, between attempts the latest one is excluded, and *)
(* only a real account can be waiting to be marked.                        *)
LoopInv ==
  \A r \in Requests :
    /\ pc[r] = "idle" => conn[r] = Nobody /\ exclude[r] = {}
    /\ pc[r] = "select" => conn[r] \in exclude[r] \cup {Nobody}
    /\ pc[r] = "calling" => conn[r] \in Candidates /\ conn[r] \notin exclude[r]
    /\ pc[r] = "failed" => conn[r] \in Conns /\ conn[r] \notin exclude[r]
    /\ answer[r] # "none" => pc[r] = "done"

(* A connection that does not exist yet has nothing in its row, so the row *)
(* it is created with is clean.                                            *)
UnbornRowIsFresh ==
  \A c \in Conns : life[c] = "unborn" => locks[c] = Unlocked /\ backoff[c] = 0

IInv == TypeOK /\ LoopInv /\ ActiveRowIsClean /\ UnbornRowIsFresh

-----------------------------------------------------------------------------
(* The cooldown rules return a positive time and a level within bounds.    *)
LEMMA CooldownType ==
  ASSUME NEW kind \in FailureKinds, NEW level \in 0 .. MaxLevel
  PROVE  /\ CheckFallbackError(kind, level).cooldown \in Nat \ {0}
         /\ CheckFallbackError(kind, level).level \in 0 .. MaxLevel
<1>1. NextLevel(level) \in 0 .. MaxLevel
  BY CooldownAssumption DEF NextLevel, Lesser
<1>2. ASSUME NEW l \in 0 .. MaxLevel PROVE GetQuotaCooldown(l) \in Nat \ {0}
  <2> DEFINE e == IF l = 0 THEN 0 ELSE l - 1
  <2>1. e \in 0 .. MaxLevel
    BY CooldownAssumption
  <2>2. BackoffBase * 2^e \in Nat \ {0}
    BY <2>1, CooldownAssumption
  <2>3. BackoffMax \in Nat \ {0}
    BY CooldownAssumption
  <2>4. GetQuotaCooldown(l) = Lesser(BackoffBase * 2^e, BackoffMax)
    BY DEF GetQuotaCooldown
  <2> HIDE DEF e
  <2>5. QED
    BY <2>2, <2>3, <2>4 DEF Lesser
<1>3. QED
  <2>1. CASE kind = "backoff"
    BY <1>1, <1>2, <2>1 DEF CheckFallbackError
  <2>2. CASE kind \in {"long", "short", "transient"}
    BY <2>2, CooldownAssumption DEF CheckFallbackError
  <2>3. CASE kind \in {"resetsAt", "monthly"}
    BY <2>3, CooldownAssumption DEF CheckFallbackError, Lesser
  <2>4. QED
    BY <2>1, <2>2, <2>3 DEF FailureKinds

(* Row writes keep the row's type, and an activated row is clean.          *)
LEMMA ActivateRow ==
  ASSUME TypeOK, ActiveRowIsClean, NEW c \in Conns, NEW warn \in BOOLEAN,
         Activate(c, warn)
  PROVE  /\ locks' \in [Conns -> Locks] /\ testStatus' \in [Conns -> Statuses]
         /\ lastError' \in [Conns -> BOOLEAN] /\ backoff' \in [Conns -> 0 .. MaxLevel]
         /\ ActiveRowIsClean'
<1>1. CASE life[c] = "live"
  <2>1. NullAll(locks[c]) \in Locks
    BY DEF TypeOK, NullAll, Locks, LockValue, Absent, Nulled
  <2>2. /\ locks' \in [Conns -> Locks] /\ testStatus' \in [Conns -> Statuses]
        /\ lastError' \in [Conns -> BOOLEAN] /\ backoff' \in [Conns -> 0 .. MaxLevel]
    <3>1. locks' \in [Conns -> Locks] /\ testStatus' \in [Conns -> Statuses]
      BY <1>1, <2>1 DEF Activate, TypeOK, Statuses
    <3>2. lastError' = [lastError EXCEPT ![c] = warn]
      BY <1>1 DEF Activate
    <3>3. lastError' \in [Conns -> BOOLEAN]
      BY <3>2, Zenon DEF TypeOK
    <3>4. backoff' \in [Conns -> 0 .. MaxLevel]
      BY <1>1, CooldownAssumption DEF Activate, TypeOK
    <3>5. QED
      BY <3>1, <3>3, <3>4
  <2>3. ASSUME NEW d \in Conns, testStatus'[d] = "active"
        PROVE  (\A k \in LockKeys : locks'[d][k] \in {Absent, Nulled}) /\ backoff'[d] = 0
    <3>1. CASE d = c
      BY <1>1, <3>1 DEF Activate, TypeOK, NullAll
    <3>2. CASE d # c
      BY <1>1, <2>3, <3>2 DEF Activate, TypeOK, ActiveRowIsClean
    <3>3. QED
      BY <3>1, <3>2
  <2>4. QED
    BY <2>2, <2>3 DEF ActiveRowIsClean
<1>2. CASE life[c] # "live"
  BY <1>2 DEF Activate, TypeOK, ActiveRowIsClean
<1>3. QED
  BY <1>1, <1>2

LEMMA ClearRow ==
  ASSUME TypeOK, ActiveRowIsClean, NEW c \in Candidates, NEW s \in Row,
         NEW m \in Models, ClearAccountError(c, s, m)
  PROVE  /\ locks' \in [Conns -> Locks] /\ testStatus' \in [Conns -> Statuses]
         /\ lastError' \in [Conns -> BOOLEAN] /\ backoff' \in [Conns -> 0 .. MaxLevel]
         /\ ActiveRowIsClean'
<1>1. CASE c = NoAuth \/ NothingToClear(s, m)
  BY <1>1 DEF ClearAccountError, TypeOK, ActiveRowIsClean
<1>2. CASE c # NoAuth /\ RemainingLocks(s, m) = {} /\ Activate(c, FALSE)
  <2>1. c \in Conns
    BY <1>2 DEF Candidates
  <2>2. QED
    BY <1>2, <2>1, ActivateRow
<1>3. CASE /\ c # NoAuth
           /\ locks' = IF life[c] = "live"
                       THEN [locks EXCEPT ![c] = [k \in LockKeys |-> IF k \in KeysToClear(s, m) THEN Nulled ELSE @[k]]]
                       ELSE locks
           /\ UNCHANGED <<testStatus, lastError, backoff>>
  <2>1. c \in Conns
    BY <1>3 DEF Candidates
  <2> DEFINE cleared == [k \in LockKeys |-> IF k \in KeysToClear(s, m) THEN Nulled ELSE locks[c][k]]
  <2>2. cleared \in Locks
    BY <2>1 DEF TypeOK, Locks, LockValue, Nulled
  <2>3. locks' = IF life[c] = "live" THEN [locks EXCEPT ![c] = cleared] ELSE locks
    BY <1>3
  <2>4. \A k \in LockKeys : cleared[k] \in {Nulled, locks[c][k]}
    OBVIOUS
  <2> HIDE DEF cleared
  <2>5. locks' \in [Conns -> Locks]
    BY <2>2, <2>3 DEF TypeOK
  <2>6. \A d \in Conns : \A k \in LockKeys : locks'[d][k] \in {Nulled, locks[d][k]}
    BY <2>1, <2>3, <2>4 DEF TypeOK
  <2>7. QED
    BY <1>3, <2>5, <2>6 DEF TypeOK, ActiveRowIsClean
<1>4. QED
  BY <1>1, <1>2, <1>3 DEF ClearAccountError

LEMMA MarkRow ==
  ASSUME TypeOK, ActiveRowIsClean, NEW c \in Conns, NEW m \in Models,
         NEW f \in [kind : FailureKinds, level : 0 .. MaxLevel],
         MarkAccountUnavailable(c, f, m)
  PROVE  /\ locks' \in [Conns -> Locks] /\ testStatus' \in [Conns -> Statuses]
         /\ lastError' \in [Conns -> BOOLEAN] /\ backoff' \in [Conns -> 0 .. MaxLevel]
         /\ ActiveRowIsClean'
<1> DEFINE rule == CheckFallbackError(f.kind, f.level)
<1>1. rule.cooldown \in Nat \ {0} /\ rule.level \in 0 .. MaxLevel
  BY CooldownType
<1>2. MarkAccountUnavailable(c, f, m) <=>
        IF life[c] = "live"
        THEN /\ locks' = [locks EXCEPT ![c] = BuildModelLockUpdate(@, f.kind, m, now + rule.cooldown)]
             /\ testStatus' = [testStatus EXCEPT ![c] = "unavailable"]
             /\ lastError' = [lastError EXCEPT ![c] = TRUE]
             /\ backoff' = [backoff EXCEPT ![c] = rule.level]
        ELSE UNCHANGED <<locks, testStatus, lastError, backoff>>
  BY DEF MarkAccountUnavailable
<1> HIDE DEF rule
<1>3. now + rule.cooldown \in Int
  BY <1>1 DEF TypeOK
<1>4. BuildModelLockUpdate(locks[c], f.kind, m, now + rule.cooldown) \in Locks
  BY <1>3 DEF TypeOK, BuildModelLockUpdate, Locks, LockValue
<1>5. CASE life[c] = "live"
  <2>1. locks' \in [Conns -> Locks] /\ testStatus' \in [Conns -> Statuses]
    BY <1>2, <1>4, <1>5 DEF TypeOK, Statuses
  <2>2. lastError' = [lastError EXCEPT ![c] = TRUE]
    BY <1>2, <1>5
  <2>3. lastError' \in [Conns -> BOOLEAN]
    BY <2>2, Zenon DEF TypeOK
  <2>4. backoff' \in [Conns -> 0 .. MaxLevel]
    BY <1>1, <1>2, <1>5 DEF TypeOK
  <2>5. ActiveRowIsClean'
    BY <1>2, <1>5 DEF TypeOK, ActiveRowIsClean
  <2>6. QED
    BY <2>1, <2>3, <2>4, <2>5
<1>6. CASE life[c] # "live"
  BY <1>2, <1>6 DEF TypeOK, ActiveRowIsClean
<1>7. QED
  BY <1>5, <1>6

(* No write reaches the row of a connection that is not there: an upstream *)
(* answer that outlives its connection changes nothing.                    *)
LEMMA DeadRowsUntouched ==
  ASSUME TypeOK, NEW c \in Candidates, NEW s, NEW f, NEW m, NEW warn,
         Activate(c, warn) \/ ClearAccountError(c, s, m) \/ MarkAccountUnavailable(c, f, m)
  PROVE  \A d \in Conns : life[d] # "live" => locks'[d] = locks[d] /\ backoff'[d] = backoff[d]
<1> SUFFICES ASSUME NEW d \in Conns, life[d] # "live"
             PROVE  locks'[d] = locks[d] /\ backoff'[d] = backoff[d]
  OBVIOUS
<1>1. ASSUME NEW w, Activate(c, w) PROVE locks'[d] = locks[d] /\ backoff'[d] = backoff[d]
  BY <1>1 DEF Activate, TypeOK
<1>2. CASE ClearAccountError(c, s, m)
  BY <1>1, <1>2 DEF ClearAccountError, TypeOK
<1>3. CASE MarkAccountUnavailable(c, f, m)
  <2>1. /\ \A e : life[c] = "live" /\ locks' = [locks EXCEPT ![c] = e] => locks'[d] = locks[d]
        /\ \A e : life[c] = "live" /\ backoff' = [backoff EXCEPT ![c] = e] => backoff'[d] = backoff[d]
    BY DEF TypeOK
  <2>2. QED
    BY <1>3, <2>1 DEF MarkAccountUnavailable
<1>4. QED
  BY <1>1, <1>2, <1>3

-----------------------------------------------------------------------------
(* The CHOOSEs of the model are defined: a non-empty set of expiries has   *)
(* an earliest one.                                                        *)
LEMMA NatMin ==
  ASSUME NEW T, T \subseteq Nat, T # {}
  PROVE  \E x \in T : \A y \in T : x <= y
<1> DEFINE earlier == OpToRel(<, Nat)
<1>1. PICK x \in T : \A y \in T : <<y, x>> \notin earlier
  BY NatLessThanWellFounded, WFMin
<1>2. \A y \in T : ~ (y < x)
  BY <1>1 DEF OpToRel
<1>3. QED
  BY <1>2

(* The earliest unexpired lock of a connection is one of them.             *)
LEMMA EarliestLock ==
  ASSUME NEW lk \in Locks, NEW t \in Nat, ActiveLockKeys(lk, t) # {}
  PROVE  LET e == GetEarliestModelLockUntil(lk, t) IN
           /\ e \in Nat /\ e > t
           /\ \A k \in ActiveLockKeys(lk, t) : e <= lk[k]
<1> DEFINE expiries == {lk[k] : k \in ActiveLockKeys(lk, t)}
<1>1. \A e \in expiries : e \in Nat /\ e > t
  BY DEF ActiveLockKeys, Unexpired, Locks, LockValue, Nulled
<1>2. expiries # {} /\ expiries \subseteq Nat
  BY <1>1
<1>3. \E e \in expiries : \A f \in expiries : e <= f
  <2> HIDE DEF expiries
  <2>1. QED
    BY <1>2, NatMin
<1>4. \E e \in expiries : \A k \in ActiveLockKeys(lk, t) : e <= lk[k]
  BY <1>3
<1>5. GetEarliestModelLockUntil(lk, t) =
        CHOOSE e \in expiries : \A k \in ActiveLockKeys(lk, t) : e <= lk[k]
  BY DEF GetEarliestModelLockUntil
<1>6. /\ GetEarliestModelLockUntil(lk, t) \in expiries
      /\ \A k \in ActiveLockKeys(lk, t) : GetEarliestModelLockUntil(lk, t) <= lk[k]
  <2> HIDE DEF expiries
  <2>1. QED
    BY <1>4, <1>5
<1>7. QED
  BY <1>1, <1>6

(* The time a rate-limited request is told is in the future, and no later  *)
(* than the lock that keeps each of the locked accounts from it.           *)
LEMMA EarliestRetryBounds ==
  ASSUME TypeOK, NEW r \in Requests, LockedConns(r) # {}
  PROVE  /\ EarliestRetry(r) \in Nat /\ EarliestRetry(r) > now
         /\ \A c \in LockedConns(r) : EarliestRetry(r) <= ApplicableLock(locks[c], model[r])
<1> DEFINE expiries == {GetEarliestModelLockUntil(locks[c], now) : c \in LockedConns(r)}
<1>1. ASSUME NEW c \in LockedConns(r)
      PROVE  LET e == GetEarliestModelLockUntil(locks[c], now) IN
               e \in Nat /\ e > now /\ e <= ApplicableLock(locks[c], model[r])
  <2> DEFINE k == IF locks[c][model[r]] > Nulled THEN model[r] ELSE AllModels
  <2>1. c \in Conns /\ model[r] \in Models /\ locks[c] \in Locks /\ now \in Nat
    BY DEF LockedConns, ActiveConns, TypeOK
  <2>2. k \in LockKeys /\ locks[c][k] = ApplicableLock(locks[c], model[r])
    BY <2>1 DEF LockKeys, ApplicableLock
  <2>3. k \in ActiveLockKeys(locks[c], now)
    BY <2>2 DEF LockedConns, Locked, IsModelLockActive, ActiveLockKeys
  <2> HIDE DEF k
  <2>4. QED
    BY <2>1, <2>2, <2>3, EarliestLock
<1>2. expiries # {} /\ expiries \subseteq Nat
  BY <1>1
<1>3. \E e \in expiries : \A f \in expiries : e <= f
  <2> HIDE DEF expiries
  <2>1. QED
    BY <1>2, NatMin
<1>4. EarliestRetry(r) = CHOOSE e \in expiries : \A f \in expiries : e <= f
  BY DEF EarliestRetry
<1>5. EarliestRetry(r) \in expiries /\ \A f \in expiries : EarliestRetry(r) <= f
  <2> HIDE DEF expiries
  <2>1. QED
    BY <1>3, <1>4
<1>6. ASSUME NEW c \in LockedConns(r)
      PROVE  EarliestRetry(r) <= ApplicableLock(locks[c], model[r])
  <2>1. EarliestRetry(r) <= GetEarliestModelLockUntil(locks[c], now)
    BY <1>5
  <2>2. ApplicableLock(locks[c], model[r]) \in Int
    BY DEF LockedConns, ActiveConns, TypeOK, ApplicableLock, Locks, LockValue, LockKeys
  <2>3. EarliestRetry(r) \in Nat
    BY <1>2, <1>5
  <2>4. QED
    BY <1>1, <2>1, <2>2, <2>3
<1>7. QED
  BY <1>1, <1>5, <1>6

-----------------------------------------------------------------------------
(* The inductive invariant                                                 *)

LEMMA InitIInv == Init => IInv
<1> SUFFICES ASSUME Init PROVE IInv
  OBVIOUS
<1>1. Unlocked \in Locks
  BY DEF Unlocked, Locks, LockValue, Absent
<1>2. NoRow \in Row /\ NoFailure \in [kind : FailureKinds, level : 0 .. MaxLevel]
  BY <1>1, CooldownAssumption DEF NoRow, Row, Statuses, NoFailure, FailureKinds
<1>3. TypeOK
  <2>1. isActive \in [Conns -> BOOLEAN] /\ lastError \in [Conns -> BOOLEAN]
    BY Zenon DEF Init
  <2>2. backoff \in [Conns -> 0 .. MaxLevel] /\ locks \in [Conns -> Locks]
    BY <1>1, CooldownAssumption DEF Init
  <2>3. QED
    BY <1>2, <2>1, <2>2 DEF Init, TypeOK, Statuses, Answers, Nobody, Nulled
<1>4. LoopInv /\ ActiveRowIsClean /\ UnbornRowIsFresh
  BY DEF Init, LoopInv, ActiveRowIsClean, UnbornRowIsFresh
<1>5. QED
  BY <1>3, <1>4 DEF IInv

LEMMA ChooseIInv ==
  ASSUME IInv, NEW r \in Requests, Arrive(r) \/ Choose(r)
  PROVE  IInv'
<1> USE DEF IInv
<1>1. CASE Arrive(r)
  BY <1>1 DEF Arrive, TypeOK, LoopInv, ActiveRowIsClean, UnbornRowIsFresh, rowVars
<1>2. CASE SelectVirtual(r)
  <2>1. NoAuth \in Candidates /\ NoAuth \notin exclude[r]
    BY RoutingAssumption DEF NoAuth, Candidates, TypeOK
  <2>2. QED
    BY <1>2, <2>1 DEF SelectVirtual, TypeOK, LoopInv, ActiveRowIsClean, UnbornRowIsFresh, rowVars
<1>3. ASSUME NEW c \in Conns, Select(r, c) PROVE IInv'
  <2>1. RowOf(c) \in Row
    <3>1. lastError[c] \in BOOLEAN
      BY Zenon DEF TypeOK
    <3>2. QED
      BY <3>1 DEF RowOf, Row, TypeOK
  <2>2. c \in Candidates /\ c \notin exclude[r]
    BY <1>3 DEF Select, Eligible, Available, Candidates
  <2>3. QED
    BY <1>3, <2>1, <2>2 DEF Select, TypeOK, LoopInv, ActiveRowIsClean, UnbornRowIsFresh, rowVars
<1>4. CASE RefuseRateLimited(r)
  <2>1. EarliestRetry(r) \in Int
    BY <1>4, EarliestRetryBounds DEF RefuseRateLimited
  <2>2. QED
    BY <1>4, <2>1 DEF RefuseRateLimited, Finish, TypeOK, LoopInv, ActiveRowIsClean, UnbornRowIsFresh, rowVars, Answers
<1>5. CASE RefuseUnlocked(r)
  BY <1>5 DEF RefuseUnlocked, Finish, TypeOK, LoopInv, ActiveRowIsClean, UnbornRowIsFresh, rowVars, Answers
<1>6. QED
  BY <1>1, <1>2, <1>3, <1>4, <1>5 DEF Choose

LEMMA UpstreamIInv ==
  ASSUME IInv, NEW r \in Requests, UpstreamReturns(r) \/ Mark(r)
  PROVE  IInv'
<1> USE DEF IInv
<1>1. NoRow \in Row
  BY DEF NoRow, Row, Statuses, Unlocked, Locks, LockValue, Absent
<1>2. model[r] \in Models /\ snap[r] \in Row
  BY DEF TypeOK
<1>3. CASE Succeed(r)
  <2>1. conn[r] \in Candidates
    BY <1>3 DEF Succeed, LoopInv
  <2>2. ClearAccountError(conn[r], snap[r], model[r])
    BY <1>3 DEF Succeed
  <2>3. /\ locks' \in [Conns -> Locks] /\ testStatus' \in [Conns -> Statuses]
        /\ lastError' \in [Conns -> BOOLEAN] /\ backoff' \in [Conns -> 0 .. MaxLevel]
        /\ ActiveRowIsClean'
    BY <1>2, <2>1, <2>2, ClearRow
  <2>4. TypeOK' /\ LoopInv'
    BY <1>1, <1>3, <2>3 DEF Succeed, Finish, TypeOK, LoopInv, Answers
  <2>5. UnbornRowIsFresh'
    BY <1>3, <2>1, <2>2, DeadRowsUntouched DEF Succeed, UnbornRowIsFresh
  <2>6. QED
    BY <2>3, <2>4, <2>5
<1>4. ASSUME NEW kind \in Failures, Fail(r, kind) PROVE IInv'
  <2>1. conn[r] \in Conns
    BY <1>4 DEF Fail, LoopInv, Candidates
  <2>2. [kind |-> kind, level |-> IF life[conn[r]] = "live" THEN backoff[conn[r]] ELSE 0]
          \in [kind : FailureKinds, level : 0 .. MaxLevel]
    <3>1. kind \in FailureKinds
      BY RoutingAssumption
    <3>2. QED
      BY <2>1, <3>1, CooldownAssumption DEF TypeOK
  <2>3. QED
    BY <1>1, <1>4, <2>1, <2>2 DEF Fail, ReadFailure, TypeOK, LoopInv, ActiveRowIsClean, UnbornRowIsFresh, rowVars
<1>5. CASE Blocked(r)
  <2>1. conn[r] \in Conns /\ conn[r] \in Candidates
    BY <1>5 DEF Blocked, LoopInv, Candidates
  <2>2. ClearAccountError(conn[r], snap[r], model[r])
    BY <1>5 DEF Blocked
  <2>3. /\ locks' \in [Conns -> Locks] /\ testStatus' \in [Conns -> Statuses]
        /\ lastError' \in [Conns -> BOOLEAN] /\ backoff' \in [Conns -> 0 .. MaxLevel]
        /\ ActiveRowIsClean'
    BY <1>2, <2>1, <2>2, ClearRow
  <2>4. [kind |-> "transient", level |-> IF life[conn[r]] = "live" THEN backoff'[conn[r]] ELSE 0]
          \in [kind : FailureKinds, level : 0 .. MaxLevel]
    BY <2>1, <2>3, CooldownAssumption DEF FailureKinds
  <2>5. TypeOK' /\ LoopInv'
    BY <1>1, <1>5, <2>1, <2>3, <2>4 DEF Blocked, TypeOK, LoopInv
  <2>6. UnbornRowIsFresh'
    BY <1>5, <2>1, <2>2, DeadRowsUntouched DEF Blocked, UnbornRowIsFresh
  <2>7. QED
    BY <2>3, <2>5, <2>6
<1>6. CASE FailVirtual(r)
  BY <1>6 DEF FailVirtual, Finish, TypeOK, LoopInv, ActiveRowIsClean, UnbornRowIsFresh, rowVars, Answers
<1>7. CASE Mark(r)
  <2>1. conn[r] \in Conns /\ failure[r] \in [kind : FailureKinds, level : 0 .. MaxLevel]
    BY <1>7 DEF Mark, LoopInv, TypeOK
  <2>2. MarkAccountUnavailable(conn[r], failure[r], model[r])
    BY <1>7 DEF Mark
  <2>3. /\ locks' \in [Conns -> Locks] /\ testStatus' \in [Conns -> Statuses]
        /\ lastError' \in [Conns -> BOOLEAN] /\ backoff' \in [Conns -> 0 .. MaxLevel]
        /\ ActiveRowIsClean'
    BY <1>2, <2>1, <2>2, MarkRow
  <2>4. NoFailure \in [kind : FailureKinds, level : 0 .. MaxLevel]
    BY CooldownAssumption DEF NoFailure, FailureKinds
  <2>5. TypeOK' /\ LoopInv'
    BY <1>7, <2>1, <2>3, <2>4 DEF Mark, ExcludeFailed, TypeOK, LoopInv
  <2>6. conn[r] \in Candidates
    BY <2>1 DEF Candidates
  <2>7. UnbornRowIsFresh'
    BY <1>7, <2>2, <2>6, DeadRowsUntouched DEF Mark, UnbornRowIsFresh
  <2>8. QED
    BY <2>3, <2>5, <2>7
<1>8. QED
  BY <1>3, <1>4, <1>5, <1>6, <1>7 DEF UpstreamReturns

LEMMA UserIInv ==
  ASSUME IInv, NEW c \in Conns, User(c)
  PROVE  IInv'
<1> USE DEF IInv
<1>1. edits' \in Nat
  BY DEF User, TypeOK
<1>2. UNCHANGED <<now, reqVars>> => LoopInv'
  BY DEF LoopInv, reqVars
<1>3. ASSUME NEW status \in {"unknown", "active"}, Create(c, status) PROVE IInv'
  <2>1. locks[c] = Unlocked /\ backoff[c] = 0
    BY <1>3 DEF Create, UnbornRowIsFresh
  <2>2. QED
    BY <1>1, <1>2, <1>3, <2>1 DEF Unlocked, Create, TypeOK, ActiveRowIsClean, UnbornRowIsFresh, reqVars, Statuses
<1>4. ASSUME NEW warn \in BOOLEAN, Activate(c, warn), UNCHANGED <<now, life, isActive, reqVars>>
      PROVE  IInv'
  <2>1. /\ locks' \in [Conns -> Locks] /\ testStatus' \in [Conns -> Statuses]
        /\ lastError' \in [Conns -> BOOLEAN] /\ backoff' \in [Conns -> 0 .. MaxLevel]
        /\ ActiveRowIsClean'
    BY <1>4, ActivateRow
  <2>2. c \in Candidates
    BY DEF Candidates
  <2>3. UnbornRowIsFresh'
    BY <1>4, <2>2, DeadRowsUntouched DEF UnbornRowIsFresh
  <2>4. QED
    BY <1>1, <1>2, <1>4, <2>1, <2>3 DEF TypeOK, reqVars
<1>5. CASE ReenterKey(c)
  <2>1. isActive' = [isActive EXCEPT ![c] = TRUE]
    BY <1>5 DEF ReenterKey
  <2>2. isActive' \in [Conns -> BOOLEAN]
    BY <2>1, Zenon DEF TypeOK
  <2>3. QED
    BY <1>1, <1>2, <1>5, <2>2 DEF ReenterKey, TypeOK, ActiveRowIsClean, UnbornRowIsFresh, reqVars, Statuses
<1>6. CASE SetConnectionActive(c)
  <2>1. isActive' = [isActive EXCEPT ![c] = ~ isActive[c]]
    BY <1>6 DEF SetConnectionActive
  <2>2. isActive' \in [Conns -> BOOLEAN]
    BY <2>1, Zenon DEF TypeOK
  <2>3. QED
    BY <1>1, <1>2, <1>6, <2>2 DEF SetConnectionActive, TypeOK, ActiveRowIsClean, UnbornRowIsFresh, reqVars
<1>7. CASE RemoveConnection(c)
  BY <1>1, <1>2, <1>7 DEF RemoveConnection, TypeOK, ActiveRowIsClean, UnbornRowIsFresh, reqVars
<1>8. CASE TestFailed(c)
  <2>1. lastError' = [lastError EXCEPT ![c] = TRUE]
    BY <1>8 DEF TestFailed
  <2>2. lastError' \in [Conns -> BOOLEAN]
    BY <2>1, Zenon DEF TypeOK
  <2>3. QED
    BY <1>1, <1>2, <1>8, <2>2 DEF TestFailed, TypeOK, ActiveRowIsClean, UnbornRowIsFresh, reqVars, Statuses
<1>9. QED
  BY <1>3, <1>4, <1>5, <1>6, <1>7, <1>8 DEF User, Relogin, TestPassed

LEMMA StepIInv == IInv /\ [Next]_vars => IInv'
<1> SUFFICES ASSUME IInv, [Next]_vars PROVE IInv'
  OBVIOUS
<1>1. ASSUME NEW r \in Requests, Arrive(r) \/ Choose(r) \/ UpstreamReturns(r) \/ Mark(r)
      PROVE  IInv'
  BY <1>1, ChooseIInv, UpstreamIInv
<1>2. ASSUME NEW c \in Conns, User(c) PROVE IInv'
  BY <1>2, UserIInv
<1>3. CASE Tick
  BY <1>3 DEF Tick, IInv, TypeOK, LoopInv, ActiveRowIsClean, UnbornRowIsFresh, rowVars, reqVars
<1>4. CASE UNCHANGED vars
  BY <1>4 DEF vars, IInv, TypeOK, LoopInv, ActiveRowIsClean, UnbornRowIsFresh, rowVars, reqVars
<1>5. QED
  BY <1>1, <1>2, <1>3, <1>4 DEF Next

-----------------------------------------------------------------------------
(* Only its own steps move a request or answer it.                         *)
LEMMA OwnStep ==
  ASSUME TypeOK, Next, NEW r \in Requests, pc'[r] # pc[r] \/ answer'[r] # answer[r]
  PROVE  Arrive(r) \/ Choose(r) \/ UpstreamReturns(r) \/ Mark(r)
<1>1. ASSUME NEW q \in Requests, q # r, Arrive(q) \/ Choose(q) \/ UpstreamReturns(q) \/ Mark(q)
      PROVE  pc'[r] = pc[r] /\ answer'[r] = answer[r]
  <2>1. CASE Arrive(q) \/ Mark(q)
    BY <1>1, <2>1 DEF Arrive, Mark, TypeOK
  <2>2. CASE Choose(q)
    BY <1>1, <2>2 DEF Choose, SelectVirtual, Select, RefuseRateLimited, RefuseUnlocked, Finish, TypeOK
  <2>3. CASE UpstreamReturns(q)
    BY <1>1, <2>3 DEF UpstreamReturns, Succeed, Fail, Blocked, FailVirtual, Finish, TypeOK
  <2>4. QED
    BY <1>1, <2>1, <2>2, <2>3
<1>2. ASSUME NEW c \in Conns, User(c) PROVE pc'[r] = pc[r] /\ answer'[r] = answer[r]
  BY <1>2 DEF User, Create, Relogin, ReenterKey, SetConnectionActive, RemoveConnection,
     TestPassed, TestFailed, reqVars
<1>3. Tick => pc'[r] = pc[r] /\ answer'[r] = answer[r]
  BY DEF Tick, reqVars
<1>4. QED
  BY <1>1, <1>2, <1>3 DEF Next

-----------------------------------------------------------------------------
(* Theorems                                                                *)

THEOREM SpecIInv == Spec => []IInv
<1>1. QED
  BY InitIInv, StepIInv, PTL DEF Spec

(* Every variable keeps its type: levels stay within the backoff ladder    *)
(* and no request ever holds an account that is not one of the provider's. *)
THEOREM SpecTypeOK == Spec => []TypeOK
<1>1. IInv => TypeOK
  BY DEF IInv
<1>2. QED
  BY <1>1, SpecIInv, PTL

(* An account shown as active carries no lock and no backoff, whatever the *)
(* interleaving of requests, tests, logins and edits.                      *)
THEOREM SpecActiveRowIsClean == Spec => []ActiveRowIsClean
<1>1. IInv => ActiveRowIsClean
  BY DEF IInv
<1>2. QED
  BY <1>1, SpecIInv, PTL

(* No request ever goes back to an account that failed it.                 *)
THEOREM SpecNeverBackToFailed == Spec => []NeverBackToFailed
<1>1. IInv => NeverBackToFailed
  BY DEF IInv, LoopInv, NeverBackToFailed
<1>2. QED
  BY <1>1, SpecIInv, PTL

(* A rate-limited answer names a moment that is still to come and is not   *)
(* later than any lock that stands in the request's way.                   *)
THEOREM SpecRetryAfterIsUseful == Spec => RetryAfterIsUseful
<1> DEFINE Useful(r) ==
      pc[r] = "select" /\ answer'[r] = "rateLimited" =>
        /\ retryAfter'[r] > now
        /\ \A c \in LockedConns(r) : retryAfter'[r] <= ApplicableLock(locks[c], model[r])
<1>1. IInv /\ [Next]_vars => [\A r \in Requests : Useful(r)]_vars
  <2> SUFFICES ASSUME IInv, Next, NEW r \in Requests, pc[r] = "select", answer'[r] = "rateLimited"
               PROVE  /\ retryAfter'[r] > now
                      /\ \A c \in LockedConns(r) : retryAfter'[r] <= ApplicableLock(locks[c], model[r])
    OBVIOUS
  <2>1. answer[r] # "rateLimited"
    BY DEF IInv, LoopInv
  <2>2. RefuseRateLimited(r)
    <3>1. Arrive(r) \/ Choose(r) \/ UpstreamReturns(r) \/ Mark(r)
      BY <2>1, OwnStep DEF IInv
    <3>2. answer'[r] # answer[r]
      BY <2>1
    <3>3. QED
      BY <3>1, <3>2 DEF IInv, TypeOK, Arrive, Choose, SelectVirtual, Select, RefuseUnlocked, Finish,
         UpstreamReturns, Succeed, Fail, Blocked, FailVirtual, Mark
  <2>3. retryAfter'[r] = EarliestRetry(r) /\ LockedConns(r) # {}
    BY <2>2 DEF RefuseRateLimited, IInv, TypeOK
  <2>4. QED
    BY <2>3, EarliestRetryBounds DEF IInv
<1>2. QED
  BY <1>1, SpecIInv, PTL DEF Spec, RetryAfterIsUseful

(* "No credentials" means the provider has no enabled connection at all.   *)
THEOREM SpecNoCredentialsMeansNone == Spec => NoCredentialsMeansNone
<1>1. IInv /\ [Next]_vars =>
        [\A r \in Requests : pc[r] = "select" /\ answer'[r] = "noCredentials" => ActiveConns = {}]_vars
  <2> SUFFICES ASSUME IInv, Next, NEW r \in Requests, pc[r] = "select", answer'[r] = "noCredentials"
               PROVE  ActiveConns = {}
    OBVIOUS
  <2>1. answer'[r] # answer[r]
    BY DEF IInv, LoopInv
  <2>2. Arrive(r) \/ Choose(r) \/ UpstreamReturns(r) \/ Mark(r)
    BY <2>1, OwnStep DEF IInv
  <2>3. RefuseUnlocked(r)
    BY <2>1, <2>2 DEF IInv, TypeOK, Arrive, Choose, SelectVirtual, Select, RefuseRateLimited, Finish,
       UpstreamReturns, Succeed, Fail, Blocked, FailVirtual, Mark
  <2>4. exclude[r] = {} /\ Available(r) = {} /\ LockedConns(r) = {}
    <3>1. answer'[r] = IF exclude[r] = {} THEN "noCredentials" ELSE "exhausted"
      BY <2>3 DEF RefuseUnlocked, Finish, IInv, TypeOK
    <3>2. QED
      BY <2>3, <3>1 DEF RefuseUnlocked
  <2>5. QED
    BY <2>4 DEF Available, LockedConns
<1>2. QED
  BY <1>1, SpecIInv, PTL DEF Spec, NoCredentialsMeansNone

(* A success leaves alone the running locks of other models that its       *)
(* connection carried when it was selected.                                *)
THEOREM SpecSuccessKeepsLocksItSaw == Spec => SuccessKeepsLocksItSaw
<1> DEFINE Keeps(r) ==
      \A k \in LockKeys \ {model[r], AllModels} :
        /\ pc[r] = "calling" /\ pc'[r] = "done" /\ answer'[r] = "served"
        /\ conn[r] \in Conns
        /\ snap[r].locks[k] > now /\ life[conn[r]] = "live"
        => locks'[conn[r]][k] = locks[conn[r]][k]
<1>1. IInv /\ [Next]_vars => [\A r \in Requests : Keeps(r)]_vars
  <2> SUFFICES ASSUME IInv, Next, NEW r \in Requests, NEW k \in LockKeys \ {model[r], AllModels},
                      pc[r] = "calling", pc'[r] = "done", answer'[r] = "served", conn[r] \in Conns,
                      snap[r].locks[k] > now, life[conn[r]] = "live"
               PROVE  locks'[conn[r]][k] = locks[conn[r]][k]
    OBVIOUS
  <2>1. Succeed(r)
    <3>1. Arrive(r) \/ Choose(r) \/ UpstreamReturns(r) \/ Mark(r)
      BY OwnStep DEF IInv
    <3>2. QED
      BY <3>1 DEF IInv, TypeOK, Arrive, Choose, SelectVirtual, Select, RefuseRateLimited,
         RefuseUnlocked, Finish, UpstreamReturns, Fail, Blocked, FailVirtual, Mark
  <2>2. Unexpired(snap[r].locks[k], now) /\ k \in ActiveLockKeys(snap[r].locks, now)
    BY DEF Unexpired, ActiveLockKeys, Nulled, IInv, TypeOK, Row, Locks, LockValue
  <2>3. k \notin KeysToClear(snap[r], model[r]) /\ RemainingLocks(snap[r], model[r]) # {}
    BY <2>2 DEF KeysToClear, RemainingLocks
  <2>4. ClearAccountError(conn[r], snap[r], model[r])
    BY <2>1 DEF Succeed
  <2>5. QED
    <3>1. CASE UNCHANGED locks
      BY <3>1
    <3>2. CASE locks' = [locks EXCEPT ![conn[r]] =
                 [j \in LockKeys |-> IF j \in KeysToClear(snap[r], model[r]) THEN Nulled ELSE locks[conn[r]][j]]]
      BY <2>3, <3>2 DEF IInv, TypeOK
    <3>3. QED
      BY <2>3, <2>4, <3>1, <3>2 DEF ClearAccountError
<1>2. QED
  BY <1>1, SpecIInv, PTL DEF Spec, SuccessKeepsLocksItSaw

(* A running lock ends early only by an answer that came back through its  *)
(* connection, or by a test or login that leaves the row active: requests  *)
(* write the row of their own connection and no other.                     *)
THEOREM SpecLocksReleasedForCause == Spec => LocksReleasedForCause
<1> DEFINE Caused(c) ==
      (\E k \in LockKeys : Released(c, k)) =>
        \/ \E r \in Requests : conn[r] = c /\ pc'[r] # pc[r]
        \/ testStatus'[c] = "active" /\ UNCHANGED reqVars
<1>1. IInv /\ [Next]_vars => [\A c \in Conns : Caused(c)]_vars
  <2> SUFFICES ASSUME IInv, Next, NEW c \in Conns, NEW k \in LockKeys, Released(c, k)
               PROVE  \/ \E r \in Requests : conn[r] = c /\ pc'[r] # pc[r]
                      \/ testStatus'[c] = "active" /\ UNCHANGED reqVars
    OBVIOUS
  <2>1. locks'[c][k] # locks[c][k] /\ TypeOK
    BY DEF Released, IInv, TypeOK, Locks, LockValue
  <2>2. ASSUME NEW r \in Requests, Arrive(r) \/ Choose(r) \/ UpstreamReturns(r) \/ Mark(r)
        PROVE  conn[r] = c /\ pc'[r] # pc[r]
    <3>1. CASE Succeed(r) \/ Blocked(r) \/ Mark(r)
      <4>1. \A d \in Conns : d # conn[r] => locks'[d] = locks[d]
        BY <2>1, <3>1 DEF Succeed, Blocked, Mark, ClearAccountError, Activate, MarkAccountUnavailable, TypeOK
      <4>2. pc'[r] # pc[r]
        BY <2>1, <3>1 DEF Succeed, Blocked, Mark, Finish, TypeOK
      <4>3. QED
        BY <2>1, <4>1, <4>2
    <3>2. CASE ~ (Succeed(r) \/ Blocked(r) \/ Mark(r))
      <4>1. UNCHANGED locks
        BY <2>2, <3>2 DEF Arrive, Choose, SelectVirtual, Select, RefuseRateLimited, RefuseUnlocked,
           UpstreamReturns, Fail, FailVirtual, rowVars
      <4>2. QED
        BY <2>1, <4>1
    <3>3. QED
      BY <3>1, <3>2
  <2>3. ASSUME NEW d \in Conns, User(d) PROVE testStatus'[c] = "active" /\ UNCHANGED reqVars
    <3>1. UNCHANGED reqVars /\ \/ UNCHANGED locks
                               \/ Relogin(d)
                               \/ \E warn \in BOOLEAN : TestPassed(d, warn)
      BY <2>3 DEF User, Create, Relogin, ReenterKey, SetConnectionActive, RemoveConnection, TestPassed, TestFailed
    <3>2. CASE Relogin(d) \/ \E warn \in BOOLEAN : TestPassed(d, warn)
      <4>1. /\ \A e \in Conns : e # d => locks'[e] = locks[e]
            /\ testStatus'[d] = "active"
        BY <2>1, <3>2 DEF Relogin, TestPassed, Activate, TypeOK
      <4>2. QED
        BY <2>1, <3>1, <4>1
    <3>3. QED
      BY <2>1, <3>1, <3>2
  <2>4. ~ Tick
    BY <2>1 DEF Tick, rowVars
  <2>5. QED
    BY <2>2, <2>3, <2>4 DEF Next
<1>2. QED
  BY <1>1, SpecIInv, PTL DEF Spec, LocksReleasedForCause

-----------------------------------------------------------------------------
(* Refinement: the loop implements FallbackLoop                            *)

LEMMA InitFallback == Init => Fallback!Init
<1> SUFFICES ASSUME Init PROVE Fallback!Init
  OBVIOUS
<1>1. \A r \in Requests : exclude[r] \cup ({conn[r]} \ {Nobody}) = {}
  BY DEF Init
<1>2. QED
  BY <1>1 DEF Init, Fallback!Init

(* Selecting is the abstract attempt: the candidate is neither excluded    *)
(* nor the one tried last, which LoopInv says is excluded by then.         *)
LEMMA SelectFallback ==
  ASSUME IInv, NEW r \in Requests, NEW c \in Candidates \ exclude[r],
         pc[r] = "select", conn' = [conn EXCEPT ![r] = c], pc' = [pc EXCEPT ![r] = "calling"],
         UNCHANGED <<exclude, answer>>
  PROVE  Fallback!Attempt(r, c)
<1> USE DEF IInv
<1> DEFINE tried(q) == exclude[q] \cup ({conn[q]} \ {Nobody})
<1>1. c # Nobody
  BY RoutingAssumption DEF Candidates, NoAuth, Nobody
<1>2. tried(r) = exclude[r] /\ tried(r)' = exclude[r] \cup {c}
  BY <1>1 DEF LoopInv, TypeOK
<1>3. \A q \in Requests : q # r => tried(q)' = tried(q)
  BY DEF TypeOK
<1>4. [q \in Requests |-> tried(q)]' = [[q \in Requests |-> tried(q)] EXCEPT ![r] = @ \cup {c}]
  <2> HIDE DEF tried
  <2>1. \A q \in Requests : tried(q)' = IF q = r THEN tried(r) \cup {c} ELSE tried(q)
    BY <1>2, <1>3
  <2>2. QED
    BY <2>1
<1>5. answer[r] # "served"
  BY DEF LoopInv
<1>6. \A q \in Requests : (pc'[q] = "done") = (pc[q] = "done")
  BY DEF TypeOK
<1>7. \A q \in Requests : answer[q] = "served" => conn'[q] = conn[q]
  BY <1>5 DEF TypeOK
<1>8. QED
  BY <1>2, <1>4, <1>6, <1>7 DEF Fallback!Attempt

(* Nothing the abstract loop sees moves unless a request's own step says so*)
LEMMA QuietFallback ==
  ASSUME UNCHANGED <<exclude, conn, answer>>,
         \A q \in Requests : (pc'[q] = "done") = (pc[q] = "done")
  PROVE  UNCHANGED Fallback!vars
BY DEF Fallback!vars

LEMMA FinishFallback ==
  ASSUME IInv, NEW r \in Requests, NEW a \in Answers \ {"none"}, pc[r] # "done", Finish(r, a),
         UNCHANGED <<exclude, conn>>,
         a = "served" => pc[r] = "calling"
  PROVE  IF a = "served" THEN Fallback!Serve(r) ELSE Fallback!Refuse(r)
<1> USE DEF IInv
<1>1. \A q \in Requests : /\ pc'[q] = IF q = r THEN "done" ELSE pc[q]
                          /\ answer'[q] = IF q = r THEN a ELSE answer[q]
  BY DEF Finish, TypeOK
<1>2. answer[r] # "served"
  BY DEF LoopInv
<1>3. CASE a # "served"
  BY <1>1, <1>2, <1>3 DEF Fallback!Refuse
<1>4. CASE a = "served"
  <2>1. conn[r] \in exclude[r] \cup ({conn[r]} \ {Nobody})
    BY <1>4, RoutingAssumption DEF LoopInv, Candidates, NoAuth, Nobody
  <2>2. QED
    BY <1>1, <1>2, <1>4, <2>1 DEF Fallback!Serve
<1>5. QED
  BY <1>3, <1>4

LEMMA StepFallback == IInv /\ [Next]_vars => [Fallback!Next]_Fallback!vars
<1> SUFFICES ASSUME IInv, [Next]_vars PROVE [Fallback!Next]_Fallback!vars
  OBVIOUS
<1> USE DEF IInv
<1>1. ASSUME NEW r \in Requests, Arrive(r) PROVE UNCHANGED Fallback!vars
  BY <1>1, QuietFallback DEF Arrive, TypeOK
<1>2. ASSUME NEW r \in Requests, SelectVirtual(r) PROVE Fallback!Next
  <2>1. NoAuth \in Candidates \ exclude[r]
    BY RoutingAssumption DEF NoAuth, Candidates, TypeOK
  <2>2. Fallback!Attempt(r, NoAuth)
    BY <1>2, <2>1, SelectFallback DEF SelectVirtual
  <2>3. QED
    BY <2>1, <2>2 DEF Fallback!Next
<1>3. ASSUME NEW r \in Requests, NEW c \in Conns, Select(r, c) PROVE Fallback!Next
  <2>1. c \in Candidates \ exclude[r]
    BY <1>3 DEF Select, Eligible, Available, Candidates
  <2>2. Fallback!Attempt(r, c)
    BY <1>3, <2>1, SelectFallback DEF Select
  <2>3. QED
    BY <2>1, <2>2 DEF Fallback!Next
<1>4. ASSUME NEW r \in Requests, RefuseRateLimited(r) \/ RefuseUnlocked(r) \/ FailVirtual(r)
      PROVE  Fallback!Next
  <2>1. PICK a \in {"rateLimited", "noCredentials", "exhausted", "upstream"} :
          pc[r] # "done" /\ Finish(r, a) /\ UNCHANGED <<exclude, conn>>
    BY <1>4 DEF RefuseRateLimited, RefuseUnlocked, FailVirtual
  <2>2. Fallback!Refuse(r)
    BY <2>1, FinishFallback DEF Answers
  <2>3. QED
    BY <2>2 DEF Fallback!Next
<1>5. ASSUME NEW r \in Requests, Succeed(r) PROVE Fallback!Next
  <2>1. pc[r] = "calling" /\ Finish(r, "served") /\ UNCHANGED <<exclude, conn>>
    BY <1>5 DEF Succeed
  <2>2. Fallback!Serve(r)
    BY <2>1, FinishFallback DEF Answers
  <2>3. QED
    BY <2>2 DEF Fallback!Next
<1>6. ASSUME NEW r \in Requests, Blocked(r) \/ \E kind \in Failures : Fail(r, kind)
      PROVE  UNCHANGED Fallback!vars
  BY <1>6, QuietFallback DEF Blocked, Fail, TypeOK
<1>7. ASSUME NEW r \in Requests, Mark(r) PROVE UNCHANGED Fallback!vars
  <2>1. conn[r] \in Conns /\ conn[r] # Nobody
    BY <1>7, RoutingAssumption DEF Mark, LoopInv, Nobody
  <2>2. \A q \in Requests : exclude'[q] \cup ({conn'[q]} \ {Nobody}) = exclude[q] \cup ({conn[q]} \ {Nobody})
    BY <1>7, <2>1 DEF Mark, ExcludeFailed, TypeOK
  <2>3. \A q \in Requests : (pc'[q] = "done") = (pc[q] = "done")
    BY <1>7 DEF Mark, TypeOK
  <2>4. QED
    BY <1>7, <2>2, <2>3 DEF Mark, Fallback!vars
<1>8. ASSUME NEW c \in Conns, User(c) PROVE UNCHANGED Fallback!vars
  BY <1>8, QuietFallback DEF User, Create, Relogin, ReenterKey, SetConnectionActive,
     RemoveConnection, TestPassed, TestFailed, reqVars
<1>9. CASE Tick \/ UNCHANGED vars
  BY <1>9, QuietFallback DEF Tick, vars, reqVars
<1>10. QED
  BY <1>1, <1>2, <1>3, <1>4, <1>5, <1>6, <1>7, <1>8, <1>9 DEF Next, Choose, UpstreamReturns

(* The account loop, with all its bookkeeping, is a fallback loop: it      *)
(* tries an account at most once and a success comes from the latest.      *)
THEOREM SpecImplementsFallback == Spec => ImplementsFallback
<1>1. QED
  BY InitFallback, StepFallback, SpecIInv, PTL DEF Spec, ImplementsFallback, Fallback!Spec

=============================================================================
