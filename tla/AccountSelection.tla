-------------------------- MODULE AccountSelection --------------------------
(***************************************************************************)
(* Round-robin selection of an account under the selection mutex, from     *)
(* 9router/src/sse/services/auth.js (getProviderCredentials).              *)
(*                                                                         *)
(* The mutex is a chain of promises: a call remembers the promise it finds *)
(* in selectionMutex, leaves its own in its place, waits for the one it    *)
(* found and resolves its own in a finally.  Inside, the call awaits four  *)
(* times: it reads the rows, then the settings, then writes lastUsedAt and *)
(* consecutiveUseCount from the rows it READ, then resolves the proxy.     *)
(* AccountRouting leaves open which available account round-robin takes;   *)
(* here the locks are reduced to "available or not" and the rotation is    *)
(* the subject.  preferredConnectionId is passed by no caller.             *)
(***************************************************************************)
EXTENDS Integers, FiniteSets

CONSTANTS
  Conns,        \* the provider's connections, numbered in priority order
  Requests,     \* client requests
  StickyLimit,  \* stickyRoundRobinLimit
  SameMs,       \* whether two selections may fall into one millisecond
  MaxCalls,     \* bound on the number of selections
  MaxEdits      \* bound on the accounts' availability changes

ASSUME SelectionAssumption ==
  /\ Conns \subseteq Nat \ {0} /\ IsFiniteSet(Conns)
  /\ StickyLimit \in Nat \ {0}
  /\ SameMs \in BOOLEAN
  /\ MaxCalls \in Nat /\ MaxEdits \in Nat

Resolved == 0   \* the promise selectionMutex starts with
Nobody == 0

VARIABLES
  (* the rows *)
  available,   \* enabled and not locked
  lastUsed,    \* lastUsedAt, 0 when never used
  useCount,    \* consecutiveUseCount
  (* the module-level state of auth.js *)
  now,         \* Date.now()
  calls,       \* calls of getProviderCredentials so far; call n owns promise n
  mutex,       \* selectionMutex: the promise the next call will wait for
  resolved,    \* the promises that are resolved
  (* one getProviderCredentials per request *)
  pc,          \* "idle", "queued", "reading", "settings", "writing", "proxy", "calling"
  promise,     \* the promise this call owns
  waitsFor,    \* currentMutex: the promise it waits for
  exclude,     \* excludeConnectionIds of the request's loop
  seen,        \* the rows as read: the set of available ones, and their usage
  pick,        \* the connection chosen
  (* history *)
  passedOver,  \* turns of others since its own that an account was a candidate for
  edits        \* availability changes so far

rowVars == <<available, lastUsed, useCount>>
callVars == <<pc, promise, waitsFor, exclude, seen, pick>>
vars == <<rowVars, now, calls, mutex, resolved, callVars, passedOver, edits>>

InMutex == {"reading", "settings", "writing", "proxy"}
Nothing == [conns |-> {}, lastUsed |-> [c \in Conns |-> 0], useCount |-> [c \in Conns |-> 0]]
NoPick == [conn |-> Nobody, at |-> 0, count |-> 0]

TypeOK ==
  /\ available \in [Conns -> BOOLEAN]
  /\ lastUsed \in [Conns -> Nat] /\ useCount \in [Conns -> Nat]
  /\ now \in Nat \ {0} /\ calls \in Nat /\ edits \in Nat
  /\ mutex \in Nat /\ resolved \in SUBSET Nat
  /\ pc \in [Requests -> InMutex \cup {"idle", "queued", "calling"}]
  /\ promise \in [Requests -> Nat] /\ waitsFor \in [Requests -> Nat]
  /\ exclude \in [Requests -> SUBSET Conns]
  /\ seen \in [Requests -> [conns : SUBSET Conns, lastUsed : [Conns -> Nat], useCount : [Conns -> Nat]]]
  /\ pick \in [Requests -> [conn : Conns \cup {Nobody}, at : Nat, count : Nat]]
  /\ passedOver \in [Conns -> Nat]

Init ==
  /\ available = [c \in Conns |-> TRUE]
  /\ lastUsed = [c \in Conns |-> 0] /\ useCount = [c \in Conns |-> 0]
  /\ now = 1 /\ calls = 0 /\ edits = 0
  /\ mutex = Resolved /\ resolved = {Resolved}
  /\ pc = [r \in Requests |-> "idle"]
  /\ promise = [r \in Requests |-> Resolved]
  /\ waitsFor = [r \in Requests |-> Resolved]
  /\ exclude = [r \in Requests |-> {}]
  /\ seen = [r \in Requests |-> Nothing]
  /\ pick = [r \in Requests |-> NoPick]
  /\ passedOver = [c \in Conns |-> 0]

-----------------------------------------------------------------------------
(* The rotation, on the rows as read                                       *)

(* [...].sort(...)[0] of the two sorts: rows that were never used come     *)
(* last by recency and first by age; ties keep the priority order.         *)
MostRecent(s) ==
  CHOOSE c \in s.conns : \A d \in s.conns :
    s.lastUsed[c] > s.lastUsed[d] \/ (s.lastUsed[c] = s.lastUsed[d] /\ c <= d)
LeastRecent(s) ==
  CHOOSE c \in s.conns : \A d \in s.conns :
    s.lastUsed[c] < s.lastUsed[d] \/ (s.lastUsed[c] = s.lastUsed[d] /\ c <= d)

Sticks(s, c) == s.lastUsed[c] > 0 /\ s.useCount[c] < StickyLimit

(* Mutant: the rotation takes the head of the priority order instead.      *)
RotateToFirst(s, t) ==
  IF Sticks(s, MostRecent(s))
  THEN [conn |-> MostRecent(s), at |-> t, count |-> s.useCount[MostRecent(s)] + 1]
  ELSE [conn |-> CHOOSE c \in s.conns : \A d \in s.conns : c <= d, at |-> t, count |-> 1]

Rotate(s, t) ==
  IF Sticks(s, MostRecent(s))
  THEN [conn |-> MostRecent(s), at |-> t, count |-> s.useCount[MostRecent(s)] + 1]
  ELSE [conn |-> LeastRecent(s), at |-> t, count |-> 1]

-----------------------------------------------------------------------------
(* getProviderCredentials                                                  *)

(* Mutant: the call forgets to leave its promise for the next one.         *)
EnqueueUnseen(r) ==
  /\ waitsFor' = [waitsFor EXCEPT ![r] = mutex]
  /\ promise' = [promise EXCEPT ![r] = calls + 1]
  /\ UNCHANGED mutex

Enqueue(r) ==
  /\ waitsFor' = [waitsFor EXCEPT ![r] = mutex]
  /\ promise' = [promise EXCEPT ![r] = calls + 1]
  /\ mutex' = calls + 1

(* A new request, or the account loop coming round after a failure.        *)
Call(r) ==
  /\ pc[r] = "idle" /\ calls < MaxCalls
  /\ Enqueue(r)
  /\ calls' = calls + 1
  /\ pc' = [pc EXCEPT ![r] = "queued"]
  /\ UNCHANGED <<rowVars, now, resolved, exclude, seen, pick, passedOver, edits>>

Acquire(r) ==
  /\ pc[r] = "queued" /\ waitsFor[r] \in resolved
  /\ pc' = [pc EXCEPT ![r] = "reading"]
  /\ UNCHANGED <<rowVars, now, calls, mutex, resolved, promise, waitsFor, exclude, seen, pick, passedOver, edits>>

Candidates(r) == {c \in Conns : available[c] /\ c \notin exclude[r]}

Read(r) ==
  /\ pc[r] = "reading" /\ Candidates(r) # {}
  /\ seen' = [seen EXCEPT ![r] = [conns |-> Candidates(r), lastUsed |-> lastUsed, useCount |-> useCount]]
  /\ pc' = [pc EXCEPT ![r] = "settings"]
  /\ UNCHANGED <<rowVars, now, calls, mutex, resolved, promise, waitsFor, exclude, pick, passedOver, edits>>

(* The finally.                                                            *)
Release(r) == resolved' = resolved \cup {promise[r]}

(* No account left: the loop ends and with it the request.                 *)
ReadNone(r) ==
  /\ pc[r] = "reading" /\ Candidates(r) = {}
  /\ Release(r)
  /\ exclude' = [exclude EXCEPT ![r] = {}]
  /\ pc' = [pc EXCEPT ![r] = "idle"]
  /\ UNCHANGED <<rowVars, now, calls, mutex, promise, waitsFor, seen, pick, passedOver, edits>>

Instants == IF SameMs THEN {now, now + 1} ELSE {now + 1}

Decide(r) ==
  /\ pc[r] = "settings"
  /\ \E t \in Instants :
       /\ now' = t
       /\ pick' = [pick EXCEPT ![r] = Rotate(seen[r], t)]
  /\ pc' = [pc EXCEPT ![r] = "writing"]
  /\ UNCHANGED <<rowVars, calls, mutex, resolved, promise, waitsFor, exclude, seen, passedOver, edits>>

(* The usage fields of the chosen row, and the history of turns: a turn    *)
(* begins where the rotation moves on, with a count of one.                *)
Write(r) ==
  LET c == pick[r].conn IN
  /\ pc[r] = "writing"
  /\ lastUsed' = [lastUsed EXCEPT ![c] = pick[r].at]
  /\ useCount' = [useCount EXCEPT ![c] = pick[r].count]
  /\ passedOver' = [d \in Conns |-> IF d = c THEN 0
                                    ELSE IF d \in seen[r].conns /\ pick[r].count = 1 THEN passedOver[d] + 1
                                    ELSE passedOver[d]]
  /\ seen' = [seen EXCEPT ![r] = Nothing]
  /\ pc' = [pc EXCEPT ![r] = "proxy"]
  /\ UNCHANGED <<available, now, calls, mutex, resolved, promise, waitsFor, exclude, pick, edits>>

Return(r) ==
  /\ pc[r] = "proxy"
  /\ Release(r)
  /\ pc' = [pc EXCEPT ![r] = "calling"]
  /\ UNCHANGED <<rowVars, now, calls, mutex, promise, waitsFor, exclude, seen, pick, passedOver, edits>>

(* Mutant: the finally is a plain statement that an exception skips.       *)
ThrowUnreleased(r) ==
  /\ pc[r] \in InMutex
  /\ seen' = [seen EXCEPT ![r] = Nothing]
  /\ pick' = [pick EXCEPT ![r] = NoPick]
  /\ exclude' = [exclude EXCEPT ![r] = {}]
  /\ pc' = [pc EXCEPT ![r] = "idle"]
  /\ UNCHANGED <<rowVars, now, calls, mutex, resolved, promise, waitsFor, passedOver, edits>>

(* Any of the awaited database calls may reject.                           *)
Throw(r) ==
  /\ pc[r] \in InMutex
  /\ Release(r)
  /\ seen' = [seen EXCEPT ![r] = Nothing]
  /\ pick' = [pick EXCEPT ![r] = NoPick]
  /\ exclude' = [exclude EXCEPT ![r] = {}]
  /\ pc' = [pc EXCEPT ![r] = "idle"]
  /\ UNCHANGED <<rowVars, now, calls, mutex, promise, waitsFor, passedOver, edits>>

-----------------------------------------------------------------------------
(* The upstream's answer                                                   *)

Succeed(r) ==
  /\ pc[r] = "calling"
  /\ exclude' = [exclude EXCEPT ![r] = {}]
  /\ pick' = [pick EXCEPT ![r] = NoPick]
  /\ pc' = [pc EXCEPT ![r] = "idle"]
  /\ UNCHANGED <<rowVars, now, calls, mutex, resolved, promise, waitsFor, seen, passedOver, edits>>

(* markAccountUnavailable locks the account and the loop goes round.       *)
Fail(r) ==
  LET c == pick[r].conn IN
  /\ pc[r] = "calling"
  /\ exclude' = [exclude EXCEPT ![r] = @ \cup {c}]
  /\ available' = [available EXCEPT ![c] = FALSE]
  /\ pick' = [pick EXCEPT ![r] = NoPick]
  /\ pc' = [pc EXCEPT ![r] = "idle"]
  /\ UNCHANGED <<lastUsed, useCount, now, calls, mutex, resolved, promise, waitsFor, seen, passedOver, edits>>

(* A lock expires or is set, the user disables or enables the account.     *)
ChangeAvailability(c) ==
  /\ edits < MaxEdits /\ edits' = edits + 1
  /\ available' = [available EXCEPT ![c] = ~ @]
  /\ UNCHANGED <<lastUsed, useCount, now, calls, mutex, resolved, callVars, passedOver>>

-----------------------------------------------------------------------------
Select(r) ==
  \/ Acquire(r)
  \/ Read(r)
  \/ ReadNone(r)
  \/ Decide(r)
  \/ Write(r)
  \/ Return(r)

Next ==
  \/ \E r \in Requests : Call(r) \/ Select(r) \/ Throw(r) \/ Succeed(r) \/ Fail(r)
  \/ \E c \in Conns : ChangeAvailability(c)

(* Every await inside the mutex is on the local database, whose driver is  *)
(* synchronous behind a promise: the event loop resumes the call.  Nothing *)
(* is assumed of the upstream or of the user.                              *)
Fairness == \A r \in Requests : WF_vars(Select(r))
Spec == Init /\ [][Next]_vars /\ Fairness

-----------------------------------------------------------------------------
(* Properties                                                              *)

(* auth.js: the mutex is there "to prevent race conditions during account  *)
(* selection": two calls are never inside at once.                         *)
OneSelectsAtATime ==
  \A q, r \in Requests : pc[q] \in InMutex /\ pc[r] \in InMutex => q = r

(* What the mutex is for: between reading the rows and writing them back,  *)
(* no other selection has moved the usage fields, so no turn is lost.      *)
UsageReadIsCurrent ==
  \A r \in Requests : pc[r] \in {"settings", "writing"} =>
    seen[r].lastUsed = lastUsed /\ seen[r].useCount = useCount

(* No turn of an account is longer than StickyLimit uses.                  *)
StickyBound == \A c \in Conns : useCount[c] <= StickyLimit

(* Fair rotation: between two turns of an account every other one begins   *)
(* at most one turn that it could have had, whatever is locked, unlocked   *)
(* or excluded meanwhile.  (How long a turn lasts is another matter: a     *)
(* request that has excluded the account may begin one without it, and     *)
(* others then stick to that.)                                             *)
NoAccountStarves == \A c \in Conns : passedOver[c] <= Cardinality(Conns) - 1

(* Nobody waits for the mutex for ever: a call gets an account, or an end, *)
(* although calls before it may throw.                                     *)
EveryCallReturns == \A r \in Requests : pc[r] = "queued" ~> pc[r] \in {"calling", "idle"}

=============================================================================
