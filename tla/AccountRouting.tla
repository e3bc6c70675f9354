--------------------------- MODULE AccountRouting ---------------------------
(***************************************************************************)
(* The account loop of a chat request (9router/src/sse/handlers/chat.js)   *)
(* over the connections of one provider, with the selection and health     *)
(* bookkeeping of sse/services/auth.js and the row operations of           *)
(* lib/db/repos/connectionsRepo.js.                                        *)
(*                                                                         *)
(* Requests run concurrently and interleave at their awaits: a request     *)
(* selects a connection and keeps a SNAPSHOT of its row, waits for the     *)
(* upstream, and only then writes the row, from the snapshot if it         *)
(* succeeded and from a level read just before if it failed.  Rows are     *)
(* merged field by field in one transaction, so each write is atomic; what *)
(* is not atomic is everything between the read and the write.             *)
(*                                                                         *)
(* Connections are numbered in priority order.  Ids are UUIDs: a deleted   *)
(* connection never comes back, a new one is a new id.                     *)
(***************************************************************************)
EXTENDS AccountFallback

CONSTANTS
  Conns,       \* connection ids, in priority order
  Requests,    \* client requests
  FreeModels,  \* the models of a provider that needs no credentials
  RoundRobin,  \* fallbackStrategy: TRUE round-robin, FALSE fill-first
  Failures,    \* the failure kinds the upstream may answer with
  MaxNow,      \* bound on the clock
  MaxEdits     \* bound on the number of user operations

ASSUME RoutingAssumption ==
  /\ Conns \subseteq Nat \ {0} /\ IsFiniteSet(Conns)
  /\ FreeModels \subseteq Models
  /\ RoundRobin \in BOOLEAN
  /\ Failures \subseteq FailureKinds
  /\ MaxNow \in Nat /\ MaxEdits \in Nat

NoAuth == 0    \* the virtual connection "noauth"
Nobody == -1

VARIABLES
  now,         \* Date.now()
  edits,       \* user operations so far
  (* the rows of providerConnections *)
  life,        \* "unborn", "live" or "deleted"
  isActive,    \* the enabled flag
  locks,       \* the modelLock_* fields
  testStatus,  \* "unknown", "active", "unavailable" or "error"
  lastError,   \* whether lastError is set
  backoff,     \* backoffLevel
  (* one handleSingleModelChat per request *)
  pc,          \* "idle", "select", "calling", "failed" or "done"
  model,       \* the requested model
  exclude,     \* excludeConnectionIds
  conn,        \* credentials.connectionId of the latest attempt
  snap,        \* credentials._connection, the row as it was selected
  failure,     \* what the upstream answered, and the backoff level read since
  answer,      \* what the client was told
  retryAfter   \* the time a rate-limited answer tells the client to wait for

rowVars == <<life, isActive, locks, testStatus, lastError, backoff>>
reqVars == <<pc, model, exclude, conn, snap, failure, answer, retryAfter>>
vars == <<now, edits, rowVars, reqVars>>

Candidates == Conns \cup {NoAuth}
Statuses == {"unknown", "active", "unavailable", "error"}
Answers == {"none", "served", "upstream", "rateLimited", "noCredentials", "exhausted"}
Locks == [LockKeys -> LockValue]
Unlocked == [k \in LockKeys |-> Absent]
Row == [locks : Locks, testStatus : Statuses, lastError : BOOLEAN]
NoRow == [locks |-> Unlocked, testStatus |-> "unknown", lastError |-> FALSE]
NoFailure == [kind |-> "transient", level |-> 0]

TypeOK ==
  /\ now \in Nat /\ edits \in Nat
  /\ life \in [Conns -> {"unborn", "live", "deleted"}]
  /\ isActive \in [Conns -> BOOLEAN]
  /\ locks \in [Conns -> Locks]
  /\ testStatus \in [Conns -> Statuses]
  /\ lastError \in [Conns -> BOOLEAN]
  /\ backoff \in [Conns -> 0 .. MaxLevel]
  /\ pc \in [Requests -> {"idle", "select", "calling", "failed", "done"}]
  /\ model \in [Requests -> Models]
  /\ exclude \in [Requests -> SUBSET Conns]
  /\ conn \in [Requests -> Candidates \cup {Nobody}]
  /\ snap \in [Requests -> Row]
  /\ failure \in [Requests -> [kind : FailureKinds, level : 0 .. MaxLevel]]
  /\ answer \in [Requests -> Answers]
  /\ retryAfter \in [Requests -> Int]

Init ==
  /\ now = 0 /\ edits = 0
  /\ life \in [Conns -> {"unborn", "live"}]
  /\ isActive = [c \in Conns |-> TRUE]
  /\ locks = [c \in Conns |-> Unlocked]
  /\ testStatus = [c \in Conns |-> "unknown"]
  /\ lastError = [c \in Conns |-> FALSE]
  /\ backoff = [c \in Conns |-> 0]
  /\ pc = [r \in Requests |-> "idle"]
  /\ model \in [Requests -> Models]
  /\ exclude = [r \in Requests |-> {}]
  /\ conn = [r \in Requests |-> Nobody]
  /\ snap = [r \in Requests |-> NoRow]
  /\ failure = [r \in Requests |-> NoFailure]
  /\ answer = [r \in Requests |-> "none"]
  /\ retryAfter = [r \in Requests |-> Nulled]

-----------------------------------------------------------------------------
(* Row operations                                                          *)

RowOf(c) == [locks |-> locks[c], testStatus |-> testStatus[c], lastError |-> lastError[c]]

(* modelLock_* fields that exist are set to null.                          *)
NullAll(lk) == [k \in LockKeys |-> IF lk[k] = Absent THEN Absent ELSE Nulled]

(* Mutant: activation writes the status but not the row's locks and level. *)
ActivateStatusOnly(c, warn) ==
  IF life[c] = "live"
  THEN /\ testStatus' = [testStatus EXCEPT ![c] = "active"]
       /\ lastError' = [lastError EXCEPT ![c] = warn]
       /\ UNCHANGED <<locks, backoff>>
  ELSE UNCHANGED <<testStatus, lastError, locks, backoff>>

(* updateProviderConnection with testStatus "active": whatever else the    *)
(* patch says, resetHealthStateOnActivation nulls every lock the ROW holds *)
(* and the backoff level.  A row that is gone is not written.              *)
Activate(c, warn) ==
  IF life[c] = "live"
  THEN /\ testStatus' = [testStatus EXCEPT ![c] = "active"]
       /\ lastError' = [lastError EXCEPT ![c] = warn]
       /\ locks' = [locks EXCEPT ![c] = NullAll(@)]
       /\ backoff' = [backoff EXCEPT ![c] = 0]
  ELSE UNCHANGED <<testStatus, lastError, locks, backoff>>

(* clearAccountError: which keys to clear, and whether anything remains    *)
(* locked, is decided on the snapshot; the write goes to the row.          *)
KeysToClear(s, m) ==
  {k \in LockKeys : /\ s.locks[k] # Absent
                    /\ \/ k \in {m, AllModels}
                       \/ s.locks[k] > Nulled /\ ~ Unexpired(s.locks[k], now)}
(* Mutant: every success resets the row, whatever is still locked.         *)
RemainingLocksNone(s, m) == {}
RemainingLocks(s, m) == ActiveLockKeys(s.locks, now) \ KeysToClear(s, m)
NothingToClear(s, m) ==
  KeysToClear(s, m) = {} /\ s.testStatus # "unavailable" /\ ~ s.lastError

ClearAccountError(c, s, m) ==
  \/ /\ c = NoAuth \/ NothingToClear(s, m)
     /\ UNCHANGED <<testStatus, lastError, locks, backoff>>
  \/ /\ c # NoAuth /\ ~ NothingToClear(s, m)
     /\ RemainingLocks(s, m) = {}
     /\ Activate(c, FALSE)
  \/ /\ c # NoAuth /\ ~ NothingToClear(s, m)
     /\ RemainingLocks(s, m) # {}
     /\ locks' = IF life[c] = "live"
                 THEN [locks EXCEPT ![c] = [k \in LockKeys |-> IF k \in KeysToClear(s, m) THEN Nulled ELSE @[k]]]
                 ELSE locks
     /\ UNCHANGED <<testStatus, lastError, backoff>>

(* markAccountUnavailable, from the level it has just read to its write.   *)
MarkAccountUnavailable(c, f, m) ==
  LET rule == CheckFallbackError(f.kind, f.level) IN
  IF life[c] = "live"
  THEN /\ locks' = [locks EXCEPT ![c] = BuildModelLockUpdate(@, f.kind, m, now + rule.cooldown)]
       /\ testStatus' = [testStatus EXCEPT ![c] = "unavailable"]
       /\ lastError' = [lastError EXCEPT ![c] = TRUE]
       /\ backoff' = [backoff EXCEPT ![c] = rule.level]
  ELSE UNCHANGED <<locks, testStatus, lastError, backoff>>

-----------------------------------------------------------------------------
(* getProviderCredentials                                                  *)

ActiveConns == {c \in Conns : life[c] = "live" /\ isActive[c]}
Locked(c, m) == IsModelLockActive(locks[c], m, now)
Available(r) == {c \in ActiveConns : c \notin exclude[r] /\ ~ Locked(c, model[r])}
LockedConns(r) == {c \in ActiveConns : Locked(c, model[r])}

(* fill-first takes the head of the priority order; which available        *)
(* account round-robin takes is the subject of AccountSelection.           *)
Eligible(r) ==
  IF RoundRobin THEN Available(r)
  ELSE {c \in Available(r) : \A d \in Available(r) : c <= d}

EarliestRetry(r) ==
  LET expiries == {GetEarliestModelLockUntil(locks[c], now) : c \in LockedConns(r)}
  IN CHOOSE e \in expiries : \A f \in expiries : e <= f

Arrive(r) ==
  /\ pc[r] = "idle"
  /\ pc' = [pc EXCEPT ![r] = "select"]
  /\ UNCHANGED <<now, edits, rowVars, model, exclude, conn, snap, failure, answer, retryAfter>>

SelectVirtual(r) ==
  /\ pc[r] = "select" /\ model[r] \in FreeModels
  /\ conn' = [conn EXCEPT ![r] = NoAuth]
  /\ pc' = [pc EXCEPT ![r] = "calling"]
  /\ UNCHANGED <<now, edits, rowVars, model, exclude, snap, failure, answer, retryAfter>>

Select(r, c) ==
  /\ pc[r] = "select" /\ model[r] \notin FreeModels
  /\ c \in Eligible(r)
  /\ conn' = [conn EXCEPT ![r] = c]
  /\ snap' = [snap EXCEPT ![r] = RowOf(c)]
  /\ pc' = [pc EXCEPT ![r] = "calling"]
  /\ UNCHANGED <<now, edits, rowVars, model, exclude, failure, answer, retryAfter>>

Finish(r, a) ==
  /\ pc' = [pc EXCEPT ![r] = "done"]
  /\ answer' = [answer EXCEPT ![r] = a]

(* No account is left.  Some are locked: 503 with the earliest expiry.     *)
RefuseRateLimited(r) ==
  /\ pc[r] = "select" /\ model[r] \notin FreeModels
  /\ Available(r) = {} /\ LockedConns(r) # {}
  /\ retryAfter' = [retryAfter EXCEPT ![r] = EarliestRetry(r)]
  /\ Finish(r, "rateLimited")
  /\ UNCHANGED <<now, edits, rowVars, model, exclude, conn, snap, failure>>

(* None is locked: 404 before the first attempt, the last upstream error   *)
(* after it.                                                               *)
RefuseUnlocked(r) ==
  /\ pc[r] = "select" /\ model[r] \notin FreeModels
  /\ Available(r) = {} /\ LockedConns(r) = {}
  /\ Finish(r, IF exclude[r] = {} THEN "noCredentials" ELSE "exhausted")
  /\ UNCHANGED <<now, edits, rowVars, model, exclude, conn, snap, failure, retryAfter>>

-----------------------------------------------------------------------------
(* The upstream's answer, and what the loop does with it                   *)

Succeed(r) ==
  /\ pc[r] = "calling"
  /\ ClearAccountError(conn[r], snap[r], model[r])
  /\ snap' = [snap EXCEPT ![r] = NoRow]
  /\ Finish(r, "served")
  /\ UNCHANGED <<now, edits, life, isActive, model, exclude, conn, failure, retryAfter>>

(* The failed result of connection c, and markAccountUnavailable's read of *)
(* the row's backoff level.                                                *)
ReadFailure(r, kind) ==
  LET c == conn[r] IN
  failure' = [failure EXCEPT ![r] =
    [kind |-> kind, level |-> IF life[c] = "live" THEN backoff[c] ELSE 0]]

Fail(r, kind) ==
  /\ pc[r] = "calling" /\ conn[r] # NoAuth
  /\ ReadFailure(r, kind)
  /\ snap' = [snap EXCEPT ![r] = NoRow]
  /\ pc' = [pc EXCEPT ![r] = "failed"]
  /\ UNCHANGED <<now, edits, rowVars, model, exclude, conn, answer, retryAfter>>

(* A 2xx whose body is a web page: handleStreamingResponse reports success *)
(* first and then returns a failure without a status.                      *)
Blocked(r) ==
  /\ pc[r] = "calling" /\ conn[r] # NoAuth
  /\ ClearAccountError(conn[r], snap[r], model[r])
  /\ failure' = [failure EXCEPT ![r] =
       [kind |-> "transient", level |-> IF life[conn[r]] = "live" THEN backoff'[conn[r]] ELSE 0]]
  /\ snap' = [snap EXCEPT ![r] = NoRow]
  /\ pc' = [pc EXCEPT ![r] = "failed"]
  /\ UNCHANGED <<now, edits, life, isActive, model, exclude, conn, answer, retryAfter>>

(* The virtual account has no fallback: its error goes to the client.      *)
FailVirtual(r) ==
  /\ pc[r] = "calling" /\ conn[r] = NoAuth
  /\ Finish(r, "upstream")
  /\ UNCHANGED <<now, edits, rowVars, model, exclude, conn, snap, failure, retryAfter>>

(* Mutant: the exclude set is forgotten.                                   *)
ExcludeFailedNot(r) == UNCHANGED exclude
ExcludeFailed(r) == exclude' = [exclude EXCEPT ![r] = @ \cup {conn[r]}]

Mark(r) ==
  /\ pc[r] = "failed"
  /\ MarkAccountUnavailable(conn[r], failure[r], model[r])
  /\ ExcludeFailed(r)
  /\ failure' = [failure EXCEPT ![r] = NoFailure]
  /\ pc' = [pc EXCEPT ![r] = "select"]
  /\ UNCHANGED <<now, edits, life, isActive, model, conn, snap, answer, retryAfter>>

-----------------------------------------------------------------------------
(* The user's side: services/providers.js                                  *)

(* createApiKeyConnection, completeOAuth, pollOAuth with a new identity.   *)
Create(c, status) ==
  /\ life[c] = "unborn"
  /\ life' = [life EXCEPT ![c] = "live"]
  /\ testStatus' = [testStatus EXCEPT ![c] = status]
  /\ UNCHANGED <<now, isActive, locks, lastError, backoff, reqVars>>

(* The same operations when createProviderConnection finds the row: a new  *)
(* login activates it, a re-entered API key only merges over it.           *)
Relogin(c) ==
  /\ life[c] = "live"
  /\ Activate(c, FALSE)
  /\ UNCHANGED <<now, life, isActive, reqVars>>

ReenterKey(c) ==
  /\ life[c] = "live"
  /\ testStatus' = [testStatus EXCEPT ![c] = "unknown"]
  /\ isActive' = [isActive EXCEPT ![c] = TRUE]
  /\ UNCHANGED <<now, life, locks, lastError, backoff, reqVars>>

(* Mutant: toggling a connection also forgets its locks.                   *)
SetConnectionActiveResets(c) ==
  /\ life[c] = "live"
  /\ isActive' = [isActive EXCEPT ![c] = ~ @]
  /\ locks' = [locks EXCEPT ![c] = NullAll(@)]
  /\ UNCHANGED <<now, life, testStatus, lastError, backoff, reqVars>>

SetConnectionActive(c) ==
  /\ life[c] = "live"
  /\ isActive' = [isActive EXCEPT ![c] = ~ @]
  /\ UNCHANGED <<now, life, locks, testStatus, lastError, backoff, reqVars>>

RemoveConnection(c) ==
  /\ life[c] = "live"
  /\ life' = [life EXCEPT ![c] = "deleted"]
  /\ UNCHANGED <<now, isActive, locks, testStatus, lastError, backoff, reqVars>>

(* testSingleConnection's write.  A soft success keeps a warning.          *)
TestPassed(c, warn) ==
  /\ life[c] = "live"
  /\ Activate(c, warn)
  /\ UNCHANGED <<now, life, isActive, reqVars>>

TestFailed(c) ==
  /\ life[c] = "live"
  /\ testStatus' = [testStatus EXCEPT ![c] = "error"]
  /\ lastError' = [lastError EXCEPT ![c] = TRUE]
  /\ UNCHANGED <<now, life, isActive, locks, backoff, reqVars>>

Tick ==
  /\ now < MaxNow
  /\ now' = now + 1
  /\ UNCHANGED <<edits, rowVars, reqVars>>

-----------------------------------------------------------------------------
UpstreamReturns(r) ==
  \/ Succeed(r)
  \/ \E kind \in Failures : Fail(r, kind)
  \/ Blocked(r)
  \/ FailVirtual(r)

Choose(r) ==
  \/ SelectVirtual(r)
  \/ \E c \in Conns : Select(r, c)
  \/ RefuseRateLimited(r)
  \/ RefuseUnlocked(r)

User(c) ==
  /\ edits < MaxEdits /\ edits' = edits + 1
  /\ \/ \E status \in {"unknown", "active"} : Create(c, status)
     \/ Relogin(c)
     \/ ReenterKey(c)
     \/ SetConnectionActive(c)
     \/ RemoveConnection(c)
     \/ \E warn \in BOOLEAN : TestPassed(c, warn)
     \/ TestFailed(c)

Next ==
  \/ \E r \in Requests : Arrive(r) \/ Choose(r) \/ UpstreamReturns(r) \/ Mark(r)
  \/ \E c \in Conns : User(c)
  \/ Tick

Spec == Init /\ [][Next]_vars

-----------------------------------------------------------------------------
(* Properties                                                              *)

(* A row that reads "active" is clean: it holds no lock in any field, not  *)
(* even an expired one, and its backoff starts from zero.  A "healthy" row *)
(* with a leftover lock would be skipped with no visible reason, and one   *)
(* with a leftover level would punish its next 429 as if it were the nth.  *)
ActiveRowIsClean ==
  \A c \in Conns : testStatus[c] = "active" =>
    /\ \A k \in LockKeys : locks[c][k] \in {Absent, Nulled}
    /\ backoff[c] = 0

(* A request in the loop never holds a connection it already gave up on.   *)
(* Cooldowns expire and users reset them while a request waits, so only    *)
(* the exclude set keeps a loop from going round.                          *)
NeverBackToFailed ==
  \A r \in Requests : pc[r] \in {"calling", "failed"} => conn[r] \notin exclude[r]

(* A success says nothing about the OTHER models of the account: a lock    *)
(* that was running when the connection was selected, and still is when    *)
(* the answer arrives, survives it.                                        *)
SuccessKeepsLocksItSaw ==
  [][\A r \in Requests : \A k \in LockKeys \ {model[r], AllModels} :
       /\ pc[r] = "calling" /\ pc'[r] = "done" /\ answer'[r] = "served"
       /\ conn[r] \in Conns
       /\ snap[r].locks[k] > now /\ life[conn[r]] = "live"
       => locks'[conn[r]][k] = locks[conn[r]][k]]_vars

(* A lock ends early only for a cause: an answer that came back through    *)
(* this very connection, or a user's test or login, which leave "active".  *)
Released(c, k) == locks[c][k] > now /\ locks'[c][k] < locks[c][k]
LocksReleasedForCause ==
  [][\A c \in Conns : (\E k \in LockKeys : Released(c, k)) =>
       \/ \E r \in Requests : conn[r] = c /\ pc'[r] # pc[r]
       \/ testStatus'[c] = "active" /\ UNCHANGED reqVars]_vars

(* The client is told to come back at a time in the future, and never      *)
(* later than the moment the first of the locked accounts frees up.        *)
RetryAfterIsUseful ==
  [][\A r \in Requests : pc[r] = "select" /\ answer'[r] = "rateLimited" =>
       /\ retryAfter'[r] > now
       /\ \A c \in LockedConns(r) : retryAfter'[r] <= ApplicableLock(locks[c], model[r])]_vars

(* "No active credentials" is said only when the provider has no enabled   *)
(* connection: accounts that are merely cooling down give a retry time.    *)
NoCredentialsMeansNone ==
  [][\A r \in Requests : pc[r] = "select" /\ answer'[r] = "noCredentials" => ActiveConns = {}]_vars

(* The loop implements the abstract fallback over this provider's accounts.*)
Fallback == INSTANCE FallbackLoop WITH
  tried <- [r \in Requests |-> exclude[r] \cup ({conn[r]} \ {Nobody})],
  latest <- conn,
  verdict <- [r \in Requests |-> IF pc[r] # "done" THEN "open"
                                 ELSE IF answer[r] = "served" THEN "served" ELSE "refused"],
  winner <- [r \in Requests |-> IF answer[r] = "served" THEN conn[r] ELSE Nobody]
ImplementsFallback == Fallback!Spec

(* Comments the code does not live up to; each has a run of its own.       *)

=============================================================================
