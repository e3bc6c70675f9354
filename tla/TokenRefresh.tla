---------------------------- MODULE TokenRefresh ----------------------------
(***************************************************************************)
(* OAuth refresh of one account by concurrent chat requests, for the       *)
(* providers whose executor hands its refresh to the credential manager    *)
(* (codex, grok-cli) and whose refresh token is rotated at each use:       *)
(*   open-sse/services/oauthCredentialManager.js  the lock per connection  *)
(*   open-sse/services/tokenRefresh/dedup.js      the results kept 10 s    *)
(*   open-sse/services/tokenRefresh.js            refreshWithRetry         *)
(*   src/sse/services/tokenRefresh.js             checkAndRefreshToken     *)
(*   open-sse/handlers/chatCore.js                the retry after 401/403  *)
(*                                                                         *)
(* Token n is the n-th access and refresh token pair of the account.  The  *)
(* lookup of the lock and of the kept results is one action: only resolved *)
(* promises are awaited between them, so no answer from the network can    *)
(* arrive there.  One tick is one second.                                  *)
(***************************************************************************)
EXTENDS Integers, FiniteSets

CONSTANTS
  Chats,        \* chat requests that use the account
  MaxTokens,    \* bound on the tokens the provider issues
  DedupTtl,     \* REFRESH_RESULT_TTL_MS, in ticks
  MaxAttempts   \* maxRetries of refreshWithRetry

ASSUME RefreshAssumption ==
  /\ MaxTokens \in Nat \ {0}
  /\ DedupTtl \in Nat \ {0}
  /\ MaxAttempts \in Nat \ {0}

Tokens == 1..MaxTokens
NoRefresh == 0          \* no entry in refreshLocks; no token
Failed == 0             \* a refresh that answered null
Dead == MaxTokens + 1   \* { error: "unrecoverable_refresh_error" }
Outcomes == 0..MaxTokens + 1

VARIABLES
  row,       \* the token pair in the account's row
  live,      \* external: the newest pair issued, the only one still good for a refresh
  lock,      \* refreshLocks: the token whose refresh is under way
  ttl,       \* refreshDedupCache: ticks a token's kept result is still valid
  kept,      \* refreshDedupCache: that result, Failed once it is out of date
  stage,     \* where each request is
  phase,     \* "proactive" in checkAndRefreshToken, "reactive" in chatCore
  tok,       \* credentials of the request
  attempt,   \* attempts refreshWithRetry has finished
  delay,     \* ticks until its timer fires
  got,       \* the result its refresh call returned
  (* history *)
  refused,   \* the token the upstream answered 401 or 403 to
  missed,    \* the token it got and could not write into the row
  spentAge   \* ticks since the provider consumed a token, DedupTtl if longer or never

chatVars == <<stage, phase, tok, attempt, delay, got, refused, missed>>
tokenVars == <<row, live, lock, ttl, kept, chatVars, spentAge>>

Stages == {"idle", "selected", "asking", "waiting", "got", "sleeping", "calling", "retrying"}

TokenTypeOK ==
  /\ row \in Tokens /\ live \in Tokens
  /\ lock \in {NoRefresh} \cup Tokens
  /\ ttl \in [Tokens -> 0..DedupTtl] /\ kept \in [Tokens -> Outcomes]
  /\ stage \in [Chats -> Stages]
  /\ phase \in [Chats -> {"proactive", "reactive"}]
  /\ tok \in [Chats -> Tokens]
  /\ attempt \in [Chats -> 0..MaxAttempts - 1]
  /\ delay \in [Chats -> 0..MaxAttempts]
  /\ got \in [Chats -> Outcomes]
  /\ refused \in [Chats -> {NoRefresh} \cup Tokens]
  /\ missed \in [Chats -> {NoRefresh} \cup Tokens]
  /\ spentAge \in [Tokens -> 0..DedupTtl]

TokenInit ==
  /\ row = 1 /\ live = 1
  /\ lock = NoRefresh
  /\ ttl = [t \in Tokens |-> 0] /\ kept = [t \in Tokens |-> Failed]
  /\ stage = [r \in Chats |-> "idle"] /\ phase = [r \in Chats |-> "proactive"]
  /\ tok = [r \in Chats |-> 1]
  /\ attempt = [r \in Chats |-> 0] /\ delay = [r \in Chats |-> 0]
  /\ got = [r \in Chats |-> Failed]
  /\ refused = [r \in Chats |-> NoRefresh] /\ missed = [r \in Chats |-> NoRefresh]
  /\ spentAge = [t \in Tokens |-> DedupTtl]

-----------------------------------------------------------------------------
(* getProviderCredentials hands out a copy of the row. *)
SelectAccount(r) ==
  /\ stage[r] = "idle"
  /\ stage' = [stage EXCEPT ![r] = "selected"]
  /\ tok' = [tok EXCEPT ![r] = row]
  /\ UNCHANGED <<row, live, lock, ttl, kept, phase, attempt, delay, got, refused, missed, spentAge>>

(* The request ends, and its local variables with it. *)
Finish(r) ==
  /\ stage' = [stage EXCEPT ![r] = "idle"]
  /\ phase' = [phase EXCEPT ![r] = "proactive"]
  /\ tok' = [tok EXCEPT ![r] = 1]
  /\ attempt' = [attempt EXCEPT ![r] = 0]
  /\ got' = [got EXCEPT ![r] = Failed]
  /\ refused' = [refused EXCEPT ![r] = NoRefresh]
  /\ missed' = [missed EXCEPT ![r] = NoRefresh]
  /\ UNCHANGED <<row, live, lock, ttl, kept, delay, spentAge>>

(* shouldRefreshCredentials is false: the access token is far enough from  *)
(* its expiry.  How far it is, is left open.                               *)
NotDue(r) ==
  /\ stage[r] = "selected"
  /\ stage' = [stage EXCEPT ![r] = "calling"]
  /\ UNCHANGED <<row, live, lock, ttl, kept, phase, tok, attempt, delay, got, refused, missed, spentAge>>

-----------------------------------------------------------------------------
(* refreshProviderCredentials: join the refresh of this connection that is *)
(* under way, or reuse the result kept for this token, or ask the provider *)

Asks(r) == stage[r] \in {"selected", "asking"}

(* Mutant: a kept result is dropped one tick early. *)
FreshTooShort(t) == ttl[t] > 1

Fresh(t) == ttl[t] > 0

JoinRefresh(r) ==
  /\ Asks(r) /\ lock # NoRefresh
  /\ stage' = [stage EXCEPT ![r] = "waiting"]
  /\ UNCHANGED <<row, live, lock, ttl, kept, phase, tok, attempt, delay, got, refused, missed, spentAge>>

ReuseResult(r) ==
  /\ Asks(r) /\ lock = NoRefresh /\ Fresh(tok[r])
  /\ stage' = [stage EXCEPT ![r] = "got"]
  /\ got' = [got EXCEPT ![r] = kept[tok[r]]]
  /\ UNCHANGED <<row, live, lock, ttl, kept, phase, tok, attempt, delay, refused, missed, spentAge>>

SendRefresh(r) ==
  /\ Asks(r) /\ lock = NoRefresh /\ ~Fresh(tok[r])
  /\ stage' = [stage EXCEPT ![r] = "waiting"]
  /\ lock' = tok[r]
  /\ UNCHANGED <<row, live, ttl, kept, phase, tok, attempt, delay, got, refused, missed, spentAge>>

(* External: the provider rotates the newest token, and refuses the others *)
(* for good.  The answer may be lost, or be an error that changes nothing. *)
Rotates(result) == lock = live /\ live < MaxTokens /\ result \in {live + 1, Failed}
Refuses(result) == lock # live /\ result = Dead
Stumbles(result) == result = Failed

(* The promise settles: the result is kept under the token that was sent,  *)
(* the lock is dropped and every request that waits gets the result.       *)
Settle(result) ==
  /\ lock' = NoRefresh
  /\ ttl' = [ttl EXCEPT ![lock] = DedupTtl]
  /\ kept' = [kept EXCEPT ![lock] = result]
  /\ stage' = [r \in Chats |-> IF stage[r] = "waiting" THEN "got" ELSE stage[r]]
  /\ got' = [r \in Chats |-> IF stage[r] = "waiting" THEN result ELSE got[r]]
  /\ UNCHANGED <<row, phase, tok, attempt, delay, refused, missed>>

ProviderAnswers ==
  /\ lock # NoRefresh
  /\ \E result \in Outcomes :
       /\ Settle(result)
       /\ \/ /\ Rotates(result)
             /\ live' = live + 1
             /\ spentAge' = [spentAge EXCEPT ![lock] = 0]
          \/ /\ Refuses(result) \/ Stumbles(result)
             /\ UNCHANGED <<live, spentAge>>

-----------------------------------------------------------------------------
(* updateProviderCredentials, then the upstream is called with the new     *)
(* token: for the first time, or again after it refused the old one.  A    *)
(* write that fails is caught, and neither caller looks at the result.     *)
Saved(r) == row' = got[r] /\ missed' = [missed EXCEPT ![r] = NoRefresh]
WriteFails(r) == row' = row /\ missed' = [missed EXCEPT ![r] = got[r]]

(* Mutant: the new credentials are saved but not assigned. *)
PersistRowOnly(r) ==
  /\ stage[r] = "got" /\ got[r] \in Tokens
  /\ Saved(r) \/ WriteFails(r)
  /\ stage' = [stage EXCEPT ![r] = IF phase[r] = "proactive" THEN "calling" ELSE "retrying"]
  /\ got' = [got EXCEPT ![r] = Failed]
  /\ UNCHANGED <<live, lock, ttl, kept, phase, tok, attempt, delay, refused, spentAge>>

(* Mutant: after a 401 the new credentials are used but not saved. *)
PersistProactiveOnly(r) ==
  /\ stage[r] = "got" /\ got[r] \in Tokens
  /\ IF phase[r] = "proactive" THEN Saved(r) \/ WriteFails(r) ELSE UNCHANGED <<row, missed>>
  /\ tok' = [tok EXCEPT ![r] = got[r]]
  /\ stage' = [stage EXCEPT ![r] = IF phase[r] = "proactive" THEN "calling" ELSE "retrying"]
  /\ got' = [got EXCEPT ![r] = Failed]
  /\ UNCHANGED <<live, lock, ttl, kept, phase, attempt, delay, refused, spentAge>>

Persist(r) ==
  /\ stage[r] = "got" /\ got[r] \in Tokens
  /\ Saved(r) \/ WriteFails(r)
  /\ tok' = [tok EXCEPT ![r] = got[r]]
  /\ stage' = [stage EXCEPT ![r] = IF phase[r] = "proactive" THEN "calling" ELSE "retrying"]
  /\ got' = [got EXCEPT ![r] = Failed]
  /\ UNCHANGED <<live, lock, ttl, kept, phase, attempt, delay, refused, spentAge>>

(* checkAndRefreshToken without a new token: the old one is used. *)
CarryOn(r) ==
  /\ stage[r] = "got" /\ phase[r] = "proactive" /\ got[r] \notin Tokens
  /\ stage' = [stage EXCEPT ![r] = "calling"]
  /\ got' = [got EXCEPT ![r] = Failed]
  /\ UNCHANGED <<row, live, lock, ttl, kept, phase, tok, attempt, delay, refused, missed, spentAge>>

AttemptsLeft(r) == attempt[r] + 1 < MaxAttempts

(* Mutant: the attempts are not counted. *)
SleepUncounted(r) ==
  /\ stage[r] = "got" /\ phase[r] = "reactive" /\ got[r] = Failed /\ AttemptsLeft(r)
  /\ delay' = [delay EXCEPT ![r] = attempt[r] + 1]
  /\ stage' = [stage EXCEPT ![r] = "sleeping"]
  /\ got' = [got EXCEPT ![r] = Failed]
  /\ UNCHANGED <<row, live, lock, ttl, kept, phase, tok, attempt, refused, missed, spentAge>>

(* refreshWithRetry: the result is falsy and attempts are left. *)
Sleep(r) ==
  /\ stage[r] = "got" /\ phase[r] = "reactive" /\ got[r] = Failed /\ AttemptsLeft(r)
  /\ attempt' = [attempt EXCEPT ![r] = @ + 1]
  /\ delay' = [delay EXCEPT ![r] = attempt[r] + 1]
  /\ stage' = [stage EXCEPT ![r] = "sleeping"]
  /\ got' = [got EXCEPT ![r] = Failed]
  /\ UNCHANGED <<row, live, lock, ttl, kept, phase, tok, refused, missed, spentAge>>

Wake(r) ==
  /\ stage[r] = "sleeping" /\ delay[r] = 0
  /\ stage' = [stage EXCEPT ![r] = "asking"]
  /\ UNCHANGED <<row, live, lock, ttl, kept, phase, tok, attempt, delay, got, refused, missed, spentAge>>

(* No token after the last attempt, or the provider refused for good: the  *)
(* 401 or 403 stands.                                                      *)
GiveUp(r) ==
  /\ stage[r] = "got" /\ phase[r] = "reactive"
  /\ got[r] = Dead \/ (got[r] = Failed /\ ~AttemptsLeft(r))
  /\ Finish(r)

-----------------------------------------------------------------------------
(* External: the upstream answers 401 or 403, or anything else.  The       *)
(* second answer is final.                                                 *)
UpstreamRefuses(r) ==
  /\ stage[r] = "calling"
  /\ stage' = [stage EXCEPT ![r] = "asking"]
  /\ phase' = [phase EXCEPT ![r] = "reactive"]
  /\ refused' = [refused EXCEPT ![r] = tok[r]]
  /\ UNCHANGED <<row, live, lock, ttl, kept, tok, attempt, delay, got, missed, spentAge>>

UpstreamAnswers(r) ==
  /\ stage[r] \in {"calling", "retrying"}
  /\ Finish(r)

Tick ==
  /\ ttl' = [t \in Tokens |-> IF ttl[t] > 0 THEN ttl[t] - 1 ELSE 0]
  /\ delay' = [r \in Chats |-> IF delay[r] > 0 THEN delay[r] - 1 ELSE 0]
  /\ spentAge' = [t \in Tokens |-> IF spentAge[t] < DedupTtl THEN spentAge[t] + 1 ELSE DedupTtl]
  /\ kept' = [t \in Tokens |-> IF ttl[t] > 1 THEN kept[t] ELSE Failed]
  /\ UNCHANGED <<row, live, lock, stage, phase, tok, attempt, got, refused, missed>>

Ask(r) == JoinRefresh(r) \/ ReuseResult(r) \/ SendRefresh(r)
UseResult(r) == Persist(r) \/ CarryOn(r) \/ Sleep(r) \/ GiveUp(r)
Upstream(r) == UpstreamRefuses(r) \/ UpstreamAnswers(r)

TokenNext ==
  \/ \E r \in Chats : SelectAccount(r) \/ NotDue(r) \/ Ask(r) \/ UseResult(r) \/ Wake(r) \/ Upstream(r)
  \/ ProviderAnswers
  \/ Tick

(* Continuations and timers run, calls are answered or time out, and the   *)
(* clock advances; a request need not arrive.                              *)
TokenFairness ==
  /\ \A r \in Chats : /\ WF_tokenVars(NotDue(r) \/ Ask(r))
                      /\ WF_tokenVars(UseResult(r))
                      /\ WF_tokenVars(Wake(r))
                      /\ WF_tokenVars(Upstream(r))
  /\ WF_tokenVars(ProviderAnswers)
  /\ WF_tokenVars(Tick)

TokenSpec == TokenInit /\ [][TokenNext]_tokenVars /\ TokenFairness

-----------------------------------------------------------------------------
(* A refresh token the provider has consumed is not sent to it again       *)
(* within the time its result is kept, whatever stale copies of the row    *)
(* requests still hold: a second use would be refused for good.            *)
NoTokenSpentTwice ==
  [][\A t \in Tokens : (lock # t /\ lock' = t) => spentAge[t] = DedupTtl]_tokenVars

(* After a 401 or 403 the upstream is called again only with a token newer *)
(* than the refused one, also when the refresh was another request's.      *)
RetryUsesANewerToken ==
  \A r \in Chats : stage[r] = "retrying" => tok[r] > refused[r]

(* A request is not left waiting for a refresh, whatever the provider and  *)
(* the other requests do.                                                  *)
EveryRequestFinishes ==
  \A r \in Chats : stage[r] = "selected" ~> stage[r] = "idle"

(* Every request that gets a rotated token, also one that joined another's *)
(* refresh or reused its result, before or after a 401, brings the row to  *)
(* it, unless its own write of it fails (updateProviderCredentials catches *)
(* the error, tokenRefresh.js:203, and the callers go on): a token nobody  *)
(* could save lives on only in requests and 10 s in the kept results.      *)
RotatedTokenIsSaved ==
  \A r \in Chats, t \in Tokens : (stage[r] = "got" /\ got[r] = t) ~> (row = t \/ missed[r] = t)

=============================================================================
