--------------------------- MODULE AccountFallback ---------------------------
(***************************************************************************)
(* The cooldown rules of 9router/open-sse/services/accountFallback.js and  *)
(* config/errorConfig.js: which upstream failure locks what, for how long, *)
(* and how a lock is read back.  Pure operators, no state.                 *)
(*                                                                         *)
(* A connection carries one flat field per model, "modelLock_<model>", and *)
(* one for the whole account, "modelLock___all".  A field is Absent until  *)
(* it is first written, an expiry time when it is set, and Nulled once it  *)
(* has been cleared: clearing writes null and keeps the key, and           *)
(* clearAccountError tells the two apart.                                  *)
(***************************************************************************)
EXTENDS Integers, FiniteSets

CONSTANTS
  Models,        \* models of the provider under consideration
  AllModels,     \* the key "__all" of an account-wide lock
  BackoffBase,   \* BACKOFF_CONFIG.base
  BackoffMax,    \* BACKOFF_CONFIG.max
  MaxLevel,      \* BACKOFF_CONFIG.maxLevel
  Short,         \* COOLDOWN.short
  Transient,     \* TRANSIENT_COOLDOWN_MS
  Long,          \* COOLDOWN.long
  ResetCap,      \* MAX_RATE_LIMIT_COOLDOWN_MS
  ProviderReset, \* the resets-in time a provider states in its error
  NextMonth      \* the distance to the next UTC month

ASSUME ModelsAssumption == AllModels \notin Models /\ IsFiniteSet(Models)
ASSUME CooldownAssumption ==
  /\ {Short, Transient, Long, ResetCap, ProviderReset, NextMonth, BackoffMax}
       \subseteq Nat \ {0}
  /\ MaxLevel \in Nat \ {0}
  /\ \A l \in 0 .. MaxLevel : BackoffBase * 2^l \in Nat \ {0}

LockKeys == Models \cup {AllModels}

Absent == -1
Nulled == 0
LockValue == Int

Lesser(a, b) == IF a < b THEN a ELSE b

(* new Date(expiry).getTime() > Date.now(): false for Absent and Nulled.   *)
Unexpired(expiry, t) == expiry > Nulled /\ expiry > t

(* `connection[key] || connection[MODEL_LOCK_ALL]`: the account-wide field *)
(* is looked at only when the model's own field is empty, even if that     *)
(* field has expired.                                                      *)
ApplicableLock(locks, m) == IF locks[m] > Nulled THEN locks[m] ELSE locks[AllModels]
IsModelLockActive(locks, m, t) == Unexpired(ApplicableLock(locks, m), t)

ActiveLockKeys(locks, t) == {k \in LockKeys : Unexpired(locks[k], t)}
(* Mutant: a lock that is set counts even when it has expired.             *)
GetEarliestModelLockUntilSet(locks, t) ==
  LET set == {k \in LockKeys : locks[k] > Nulled} IN
  IF set = {} THEN Nulled
  ELSE CHOOSE e \in {locks[k] : k \in set} : \A k \in set : e <= locks[k]

(* The earliest of ALL unexpired locks, whatever model they belong to.     *)
GetEarliestModelLockUntil(locks, t) ==
  IF ActiveLockKeys(locks, t) = {} THEN Nulled
  ELSE CHOOSE e \in {locks[k] : k \in ActiveLockKeys(locks, t)} :
         \A k \in ActiveLockKeys(locks, t) : e <= locks[k]

(***************************************************************************)
(* Failure kinds.  ERROR_RULES is a first-match list; the kinds name its   *)
(* outcomes: "backoff" (429 and the rate-limit texts), "long" (401 402 403 *)
(* 404, missing credentials, malformed request), "short" (request not      *)
(* allowed), "transient" (no rule matched), "resetsAt" (the provider said  *)
(* when it resets) and "monthly" (GitHub's premium quota).                 *)
(***************************************************************************)
FailureKinds == {"backoff", "long", "short", "transient", "resetsAt", "monthly"}

GetQuotaCooldown(level) ==
  Lesser(BackoffBase * 2^(IF level = 0 THEN 0 ELSE level - 1), BackoffMax)

NextLevel(level) == Lesser(level + 1, MaxLevel)

(* The cooldown and the level markAccountUnavailable stores.  A rule       *)
(* without backoff leaves the level alone (newBackoffLevel ?? backoffLevel)*)
CheckFallbackError(kind, level) ==
  CASE kind = "backoff"   -> [cooldown |-> GetQuotaCooldown(NextLevel(level)), level |-> NextLevel(level)]
    [] kind = "long"      -> [cooldown |-> Long, level |-> level]
    [] kind = "short"     -> [cooldown |-> Short, level |-> level]
    [] kind = "transient" -> [cooldown |-> Transient, level |-> level]
    [] kind = "resetsAt"  -> [cooldown |-> Lesser(ProviderReset, ResetCap), level |-> 0]
    [] kind = "monthly"   -> [cooldown |-> NextMonth, level |-> 0]

LockedKey(kind, m) == IF kind = "monthly" THEN AllModels ELSE m
BuildModelLockUpdate(locks, kind, m, until) == [locks EXCEPT ![LockedKey(kind, m)] = until]

=============================================================================
