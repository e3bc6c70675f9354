--------------------------- MODULE AntigravityQuota ---------------------------
(***************************************************************************)
(* The quota cache and the strike breaker of one Antigravity account:      *)
(*   9router/src/sse/services/antigravityQuota.js                          *)
(*   9router/src/sse/services/auth.js   the cache as a filter of accounts  *)
(*   9router/src/sse/handlers/chat.js   a 409 or 429, and a success        *)
(*                                                                         *)
(* All of it is kept per connection, so one connection is enough.  Times   *)
(* are what is left of them or what has passed, in units of the refresh    *)
(* interval; a deadline the breaker made up is told from one the quota API *)
(* gave, as the comparison of their milliseconds does.  The locks of an    *)
(* account's row, which end within seconds at first, are AccountRouting's. *)
(***************************************************************************)
EXTENDS Integers, Sequences

CONSTANTS
  Requests,    \* requests the account serves
  Models,
  Interval,    \* MIN_REFRESH_INTERVAL_MS
  Window,      \* STRIKE_WINDOW_MS
  Threshold,   \* STRIKE_THRESHOLD
  Block,       \* STRIKE_BLOCK_MS
  Resets       \* external: the reset times of exhausted quotas, 0 for none

ASSUME QuotaAssumption ==
  /\ Interval \in Nat \ {0} /\ Window \in Nat /\ Threshold \in Nat \ {0}
  /\ Block \in Nat \ {0} /\ Resets \subseteq Nat

VARIABLES
  cache,         \* quotaCache of the connection: a reading per model
  sinceRefresh,  \* the age of lastRefreshAt
  fetching,      \* inflightRefresh has the connection
  strikes,       \* strikeCounts: count, and the age of windowStart
  blocks,        \* strikeBlocks: what is left, 0 when over and not yet deleted
  pc,            \* "idle", "flying", "clearing", "waiting", "judging"
  model,         \* the model of the request
  answer,        \* what the awaited refresh returned: "cache" or "null"
  (* history *)
  recent,        \* the ages of the last refusals since a success or a block, newest first
  sinceCall      \* the age of the last call of the quota API

quota == <<cache, sinceRefresh, fetching>>
breaker == <<strikes, blocks>>
requests == <<pc, model, answer>>
quotaVars == <<quota, breaker, requests, recent, sinceCall>>

NoBlock == -1
NoModel == "none"
Absent == [kind |-> "absent", until |-> 0, ours |-> FALSE]
Left == [kind |-> "left", until |-> 0, ours |-> FALSE]
Exhausted(t) == [kind |-> "none", until |-> t, ours |-> FALSE]
Synthesized(t) == [kind |-> "none", until |-> t, ours |-> TRUE]
Upstream == {Absent, Left} \cup {Exhausted(t) : t \in Resets}

None == [count |-> 0, age |-> 0]

QuotaTypeOK ==
  /\ cache \in [Models -> [kind : {"absent", "left", "none"}, until : Nat, ours : BOOLEAN]]
  /\ sinceRefresh \in 0..Interval /\ sinceCall \in 0..Interval
  /\ fetching \in BOOLEAN
  /\ strikes \in [Models -> [count : 0..Threshold - 1, age : 0..Window + 1]]
  /\ recent \in [Models -> Seq(0..Window + 1)]
  /\ blocks \in [Models -> NoBlock..Block]
  /\ pc \in [Requests -> {"idle", "flying", "clearing", "waiting", "judging"}]
  /\ model \in [Requests -> Models \cup {NoModel}]
  /\ answer \in [Requests -> {"cache", "null"}]

QuotaInit ==
  /\ cache = [m \in Models |-> Absent]
  /\ sinceRefresh = Interval /\ sinceCall = Interval /\ fetching = FALSE
  /\ strikes = [m \in Models |-> None] /\ recent = [m \in Models |-> <<>>]
  /\ blocks = [m \in Models |-> NoBlock]
  /\ pc = [r \in Requests |-> "idle"]
  /\ model = [r \in Requests |-> NoModel]
  /\ answer = [r \in Requests |-> "null"]

Moves(r, from, to) == pc[r] = from /\ pc' = [pc EXCEPT ![r] = to]

Leaves(r, from) ==
  /\ Moves(r, from, "idle")
  /\ model' = [model EXCEPT ![r] = NoModel]
  /\ answer' = [answer EXCEPT ![r] = "null"]

-----------------------------------------------------------------------------
(* A request with this account                                             *)

(* CACHE_BLOCK: the account is skipped for the model. *)
Skipped(m) == cache[m].kind = "none" /\ cache[m].until > 0

Select(r, m) ==
  /\ Moves(r, "idle", "flying")
  /\ ~Skipped(m)
  /\ model' = [model EXCEPT ![r] = m]
  /\ UNCHANGED <<quota, breaker, answer, recent, sinceCall>>

(* Any other failure, which leaves quota and breaker alone. *)
OtherFailure(r) ==
  /\ Leaves(r, "flying")
  /\ UNCHANGED <<quota, breaker, recent, sinceCall>>

(* onRequestSuccess awaits the clearing of the row's locks first. *)
Succeeds(r) ==
  /\ Moves(r, "flying", "clearing")
  /\ UNCHANGED <<quota, breaker, model, answer, recent, sinceCall>>

ClearStrikes(r) ==
  LET m == model[r] IN
  /\ Leaves(r, "clearing")
  /\ strikes' = [strikes EXCEPT ![m] = None]
  /\ blocks' = [blocks EXCEPT ![m] = NoBlock]
  /\ cache' = IF cache[m] = Synthesized(blocks[m]) THEN [cache EXCEPT ![m] = Absent] ELSE cache
  /\ recent' = [recent EXCEPT ![m] = <<>>]
  /\ UNCHANGED <<sinceRefresh, fetching, sinceCall>>

-----------------------------------------------------------------------------
(* A 409 or 429: handleAntigravityQuotaError up to its await               *)

(* A refresh is on its way: its result is this request's too. *)
Join(r) ==
  /\ Moves(r, "flying", "waiting")
  /\ fetching
  /\ UNCHANGED <<quota, breaker, model, answer, recent, sinceCall>>

(* SKIP: the reading of the last refresh is used again. *)
Reuse(r) ==
  /\ Moves(r, "flying", "judging")
  /\ ~fetching /\ sinceRefresh < Interval
  /\ answer' = [answer EXCEPT ![r] = "cache"]
  /\ UNCHANGED <<quota, breaker, model, recent, sinceCall>>

StartRefresh(r) ==
  /\ Moves(r, "flying", "waiting")
  /\ ~fetching /\ sinceRefresh >= Interval
  /\ fetching' = TRUE
  /\ sinceRefresh' = 0 /\ sinceCall' = 0
  /\ UNCHANGED <<cache, breaker, model, answer, recent>>

-----------------------------------------------------------------------------
(* _doRefresh, and what everyone who awaits it gets.  The first of them    *)
(* deletes it before anyone else is resumed.                               *)

(* Mutant: only the request that started the refresh is resumed. *)
DeliverToOne(result) ==
  \E r \in Requests :
    /\ pc[r] = "waiting"
    /\ pc' = [pc EXCEPT ![r] = "judging"]
    /\ answer' = [answer EXCEPT ![r] = result]

Deliver(result) ==
  /\ pc' = [r \in Requests |-> IF pc[r] = "waiting" THEN "judging" ELSE pc[r]]
  /\ answer' = [r \in Requests |-> IF pc[r] = "waiting" THEN result ELSE answer[r]]

(* Mutant: an optimistic reading replaces a block. *)
ApplyNoBlocks(readings) == readings

ApplyActiveStrikeBlocks(readings) ==
  [m \in Models |-> IF blocks[m] > 0 THEN Synthesized(blocks[m]) ELSE readings[m]]

RefreshEnds(readings) ==
  /\ fetching
  /\ fetching' = FALSE
  /\ cache' = ApplyActiveStrikeBlocks(readings)
  /\ blocks' = [m \in Models |-> IF blocks[m] = 0 THEN NoBlock ELSE blocks[m]]
  /\ Deliver("cache")
  /\ UNCHANGED <<sinceRefresh, strikes, model, recent, sinceCall>>

(* Mutant: a failed attempt is not recorded. *)
RefreshFailsUnrecorded ==
  /\ fetching
  /\ fetching' = FALSE
  /\ sinceRefresh' = Interval
  /\ Deliver("null")
  /\ UNCHANGED <<cache, breaker, model, recent, sinceCall>>

(* Refused, broken or timed out: the cache stays. *)
RefreshFails ==
  /\ fetching
  /\ fetching' = FALSE
  /\ Deliver("null")
  /\ UNCHANGED <<cache, sinceRefresh, breaker, model, recent, sinceCall>>

-----------------------------------------------------------------------------
(* handleAntigravityQuotaError after its await                             *)

Reading(r) == IF answer[r] = "cache" THEN cache[model[r]] ELSE Absent

(* Of the refusals since the last success or block, the newest ones. *)
Refused(m) ==
  recent' = [recent EXCEPT ![m] = SubSeq(<<0>> \o @, 1, IF Len(@) < Threshold - 1 THEN Len(@) + 1 ELSE Threshold - 1)]

(* Mutant: the window is not looked at. *)
StrikeAnyTime(m) ==
  IF strikes[m].count > 0 THEN [strikes[m] EXCEPT !.count = @ + 1] ELSE [count |-> 1, age |-> 0]

(* The window starts at the first strike, and anew at one that is too late. *)
Strike(m) ==
  IF strikes[m].count > 0 /\ strikes[m].age <= Window
  THEN [strikes[m] EXCEPT !.count = @ + 1]
  ELSE [count |-> 1, age |-> 0]

(* There is quota left, or no reading. *)
Counted(r) ==
  LET m == model[r] IN
  /\ Leaves(r, "judging")
  /\ Reading(r).kind # "none"
  /\ Strike(m).count < Threshold
  /\ strikes' = [strikes EXCEPT ![m] = Strike(m)]
  /\ Refused(m)
  /\ UNCHANGED <<quota, blocks, sinceCall>>

StrikesOut(r) ==
  LET m == model[r] IN
  /\ Leaves(r, "judging")
  /\ Reading(r).kind # "none"
  /\ Strike(m).count >= Threshold
  /\ strikes' = [strikes EXCEPT ![m] = None]
  /\ cache' = [cache EXCEPT ![m] = Synthesized(Block)]
  /\ blocks' = [blocks EXCEPT ![m] = Block]
  /\ recent' = [recent EXCEPT ![m] = <<>>]
  /\ UNCHANGED <<sinceRefresh, fetching, sinceCall>>

(* The quota is used up: its reset time is the answer, unless it has none  *)
(* or the time has passed.                                                 *)
UsedUp(r) ==
  LET m == model[r] IN
  /\ Leaves(r, "judging")
  /\ Reading(r).kind = "none"
  /\ strikes' = [strikes EXCEPT ![m] = None]
  /\ IF Reading(r).until > 0 THEN recent' = [recent EXCEPT ![m] = <<>>] ELSE Refused(m)
  /\ UNCHANGED <<quota, blocks, sinceCall>>

-----------------------------------------------------------------------------
Down(n) == IF n > 0 THEN n - 1 ELSE n
Older(n, bound) == IF n < bound THEN n + 1 ELSE n

(* A request that is resumed goes on before any time passes. *)
Tick ==
  /\ \A r \in Requests : pc[r] # "judging"
  /\ cache' = [m \in Models |-> [cache[m] EXCEPT !.until = Down(@)]]
  /\ blocks' = [m \in Models |-> Down(blocks[m])]
  /\ sinceRefresh' = Older(sinceRefresh, Interval) /\ sinceCall' = Older(sinceCall, Interval)
  /\ strikes' = [m \in Models |->
                   IF strikes[m] = None THEN None ELSE [strikes[m] EXCEPT !.age = Older(@, Window + 1)]]
  /\ recent' = [m \in Models |-> [i \in DOMAIN recent[m] |-> Older(recent[m][i], Window + 1)]]
  /\ UNCHANGED <<fetching, requests>>

Refresh == RefreshFails \/ \E readings \in [Models -> Upstream] : RefreshEnds(readings)

JudgeRefusal(r) == Counted(r) \/ StrikesOut(r) \/ UsedUp(r)

Request(r) ==
  \/ \E m \in Models : Select(r, m)
  \/ OtherFailure(r) \/ Succeeds(r) \/ ClearStrikes(r)
  \/ Join(r) \/ Reuse(r) \/ StartRefresh(r)
  \/ JudgeRefusal(r)

QuotaNext == Refresh \/ Tick \/ \E r \in Requests : Request(r)

(* The calls of the quota API time out; a resumed request goes on. *)
QuotaFairness == WF_quotaVars(Refresh) /\ \A r \in Requests : WF_quotaVars(JudgeRefusal(r))

QuotaSpec == QuotaInit /\ [][QuotaNext]_quotaVars /\ QuotaFairness

-----------------------------------------------------------------------------
(* As long as the breaker blocks a model, the cache that selection reads   *)
(* says so, whatever refresh comes in between; and what the breaker wrote  *)
(* there is gone with the block.                                           *)
BlockIsInTheCache ==
  \A m \in Models :
    LET made == cache[m].ours /\ cache[m].until > 0
    IN (blocks[m] > 0 <=> made) /\ (made => cache[m].until = blocks[m])

(* The breaker blocks a model only at the last of Threshold refusals       *)
(* within one window, with no success and no block among them.             *)
BlockIsEarned ==
  [][\A m \in Models : blocks[m] < blocks'[m] =>
       Len(recent[m]) = Threshold - 1 /\ \A i \in DOMAIN recent[m] : recent[m][i] <= Window]_quotaVars

(* A burst of refusals asks the quota API once, and again no sooner than   *)
(* an interval later, whether the calls succeed or not.                    *)
OneCallPerInterval ==
  [][~fetching /\ fetching' => sinceCall = Interval]_quotaVars

(* Whoever waits for a refresh, its own or another request's, gets its     *)
(* verdict.                                                                *)
EveryRefusalIsJudged ==
  \A r \in Requests : pc[r] = "waiting" ~> pc[r] = "idle"

(* antigravityQuota.js:145-146: "count every 429 whose quota reading is    *)
(* either optimistic (remaining > 0) or unavailable".  Strikes are gone    *)
(* only with a success, a block, their window, or a reading that tells     *)
(* until when the quota is used up.                                        *)
StrikesAreKept ==
  [][\A m \in Models : strikes'[m].count < strikes[m].count =>
       \/ \E r \in Requests : pc[r] = "clearing" /\ pc'[r] = "idle"
       \/ blocks'[m] = Block
       \/ strikes[m].age > Window
       \/ Skipped(m)]_quotaVars

=============================================================================
