# OptiAI: TLA+ models of the router

OptiAI is a local gateway between coding tools or its own chat page and the
accounts a user has with AI providers.  Its core, taken from 9Router, decides
which account of which provider serves a request, what happens when one fails,
how OAuth tokens are kept fresh, how a stream ends, and what is recorded.  All
of it runs in one Node process: no two pieces of code run at once, but every
`await` lets any other request, timer or user action in between.  Most of what
can go wrong here goes wrong between the read before an await and the write
after it.

Paths below are relative to `src/backend/9router/` unless they begin with
`backend/` or `frontend/`.

## 1. Inventory

| Part | State | Operations | Talks to |
|---|---|---|---|
| **Account loop** `src/sse/handlers/chat.js`, `src/sse/services/auth.js`, `open-sse/services/accountFallback.js` | per request: exclude set, snapshot of the chosen row, last error | select an account, call it, mark it unavailable, clear its error, answer 2xx / 503 with a retry time / 404 / the upstream's error | connection rows, token refresh, chat core |
| **Connection rows** `src/lib/db/repos/connectionsRepo.js`, `backend/services/providers.js` | one row per account: `isActive`, `testStatus`, `backoffLevel`, `modelLock_*`, tokens, usage fields | create, merge (re-login, re-entered key), update in one transaction, toggle, delete, test | database adapter |
| **Account selection** `auth.js` | `selectionMutex` (a chain of promises), `lastUsedAt`, `consecutiveUseCount` | enter, read rows, read settings, decide, write usage, leave | connection rows |
| **Token refresh** `open-sse/services/oauthCredentialManager.js`, `open-sse/services/tokenRefresh*`, `src/sse/services/tokenRefresh.js` | lock per connection, results kept 10 s | refresh before a call, refresh after 401/403, retry, save | provider's token endpoint, connection rows |
| **Stream lifecycle** `open-sse/handlers/chatCore.js`, `open-sse/utils/streamHandler.js`, `stream.js` | per request: stream controller, stall watchdog, abort timer; shared: pending counter | start, chunk, finish, error, cancel, stall | executors, usage records |
| **Combo routing** `open-sse/services/combo.js`, `capacityAdapter.js` | rotation per combo, per request the ordered models | take a turn, reorder, try the models, wait out a transient failure, answer | account loop, once per model |
| **Fusion** `combo.js` | a panel of answers, grace and hard timers | ask in parallel, collect, judge | account loop |
| **Request details** `src/lib/db/repos/requestDetailsRepo.js` | write buffer, flush timer, `isFlushing` | save, flush, drain, flush at shutdown | database adapter |
| **Database file** `src/lib/db/adapters/*`, `driver.js`, `backend/server/index.js` | native file or sql.js memory, dirty flag, save timer | commit, delayed save, signal, exit, restart | file system |
| **Prompt trace and gateway** `backend/api/index.js`, `backend/services/{trace,gateway,chatLog}.js` | a trace row per prompt, `closed` flag, collector | begin, observe, complete; copy a response | all of the above |
| **Antigravity quota** `src/sse/services/antigravityQuota.js` | quota cache, strikes, blocks | refresh, strike, block, clear | account loop |
| **Usage records** `src/lib/db/repos/usageRepo.js` | history, daily totals, pending counters, ring of recent requests | save, count, expire, analytics | stream lifecycle |
| **Kiro's integrity gate** `open-sse/executors/kiro.js` | per attempt: text, reasoning, buffered tool calls, stop reason | read an answer to its end, judge it, release it, ask once more | Kiro, chat core |
| **Translators** `open-sse/translator/`, `open-sse/utils/kiroSessionReplay.js` | per stream: one state object for both hops; shared: the start of each Kiro session | request into the provider's format, answer chunk by chunk into the client's, flush at the end | chat core, streams |
| Other executors, request savers, registry | none worth the name | conversion of requests and answers | providers |
| OAuth logins, connection tests, models, model tests, keys, skills, export, optimizer, pricing, network | rows and files, single statements | forms and queries | database, file system |
| **Frontend** `frontend/src` | React state, local storage, one `AbortController` per thread | send, stop, edit | API |

How a request flows: the API opens a trace row and hands the request to
`handleChat`.  If the model is the name of a combo, `handleComboChat` orders its
models and calls `handleSingleModelChat` for each; otherwise that is called
once.  It loops over the provider's accounts; for each it selects a row under
the selection mutex, refreshes the token if it is about to expire, and calls
`handleChatCore`, which calls an executor, refreshes and retries after a 401 or
403, and opens a stream whose end, whatever its cause, releases the pending
counter and saves usage and a detail.  Its callback clears the account's error
state; a failure marks the account and the loop goes on.

What makes each part correct, and hard:

- *Account loop*: two requests work on one row from snapshots taken at
  different times while cooldowns expire and the user edits.  A lock must not
  vanish without a cause, an account must not be tried twice, and the client must
  be told the truth about why it was refused.
- *Selection*: read, await, write, protected by a hand-made mutex that has to
  survive exceptions.  No turn may be lost, no account passed over for ever.
- *Token refresh*: refresh tokens are used up by their first use.  Requests with
  stale copies must not spend one twice, nobody may wait for ever, and the new
  token must be saved.
- *Streams*: four ends race; the counter must drop exactly once.
- *Combos*: three permutations of a list that others edit, with a rotation that
  outlives the edits; under fusion, a panel whose slow and hung models must
  neither hold up the request nor be cut off early.
- *Trace*: the client, the end of the answer and an error race to close one row,
  while the completion awaits the store; frames are cut by chunk boundaries.
- *Antigravity quota*: refreshes, successes and blocks of several requests write
  one cache and one counter of strikes, each from what it saw before an await.
- *Kiro's gate*: stop reasons, tool pieces and text come in any order and are
  judged once, at the end; a damaged answer is asked for again, once.
- *Translators*: a conversation whose calls were interrupted, partly answered or
  rewritten must still be one its provider accepts; a stream that may be cut
  anywhere must be a well-formed one for the client, with nothing mixed up.
- *Details and file*: two stages of buffering before data is on disk, batches
  that fail, signals and crashes.

`PROJECT.json` lists every component with its status and the hazards at their
lines.  Lesser ones, not listed there: `ensureLocalKey` may create two keys
(`backend/services/cli.js:166`), a rejected first initialisation is kept until a
restart (`backend/services/store.js:86`), a model test that ends after its provider
was removed inserts verdicts again (`backend/services/modelTests.js:35`), the pending counter is zeroed 60 s after
the last start although streams may run for longer (`usageRepo.js:174`), and the
sql.js file is overwritten in place (`sqljsAdapter.js:26`).

## 2. Modules

| Module | Models | Composes |
|---|---|---|
| `AccountFallback` | pure operators: lock fields, cooldowns by kind of failure, backoff levels (`accountFallback.js`, `errorConfig.js`) | |
| `AccountRouting` | the account loop over connection rows, with the user's actions | extends `AccountFallback`; implements `FallbackLoop` |
| `FallbackLoop` | abstract: what a fallback loop promises its caller | |
| `AccountSelection` | selection under the promise mutex, round robin | |
| `AntigravityQuota` | quota cache, throttled refresh, strikes and the breaker | |
| `TokenRefresh` | OAuth refresh shared by concurrent requests | |
| `StreamLifecycle` | the end of a request and the pending counter | |
| `RequestDetails` | write buffer, database file, process end and restart | |
| `PromptTrace` | the trace row and the bridge to the client | |
| `KiroIntegrity` | the gate of the Kiro executor and its repair attempt | |
| `ComboRouting` | combo order, rotation, fallback over models | |
| `FusionPanel` | the panel, its timers, the judge | |
| `Combos` | `handleChat`: the strategy of a combo | extends `ComboRouting` and `FusionPanel` |
| `RequestTranslators` | pure operators: requests from each client format to each provider format | |
| `ResponseTranslators` | pure operators: streamed answers, chunk by chunk | |
| `RequestTranslation` | a conversation and the requests that carry it | extends `RequestTranslators` |
| `StreamTranslation` | an answer on its way, from a provider to a reader | extends `ResponseTranslators` |
| `Exchange` | `handleChatCore` as far as it translates: what was read goes into the next request | extends both |
| `*_proofs` | theorems with proofs | extend the module of that name; `Accounts_proofs` those of the account a request gets, `AccountSelection` and `TokenRefresh`; `Providers_proofs` those of one provider, `KiroIntegrity` and `AntigravityQuota`; `RequestEnds_proofs` those of how a request ends, `StreamLifecycle` and `PromptTrace`; `Combos_proofs` also speaks of `ComboRouting` and `FusionPanel`, `Exchange_proofs` of `StreamTranslation` and the translators under it; `ExchangeContents_proofs` extends `Exchange_proofs` |
| `MC_*` | constants for TLC | extend the module of that name |

The modules meet at narrow places, and each treats what another one models as a
choice.  `AccountRouting` leaves open which available account a round robin
takes; `AccountSelection` reduces the locks to "available or not" and says which.
`AntigravityQuota` is one more filter in front of that choice.  `AccountRouting`
sees an upstream that serves or fails; `TokenRefresh`, `KiroIntegrity` and
`StreamLifecycle` are what happens inside that call, and `Exchange` is what it
carries.  `Combos` sees a model that answers or fails, which is what
`AccountRouting` says of its loop.  `PromptTrace` is around all of it and sees an
answer that comes in frames.

### How they correspond to the code

An action is the code between two awaits, with all it changes.  A request's
place is its `pc` (`stage` in `TokenRefresh`, or `phase`, where a stream has no line
of its own); local
variables that live across an await are variables of the module indexed by
request.  Rows are written by transactions, so one write is one step.  Time is a
small counter (`now`, or timers that count down); constants that are durations in
the code are ordered like them.  Variables commented "history" exist only so that
properties can speak of the past.

- **AccountRouting**: `Choose` is `getProviderCredentials` as the loop sees it,
  with the three ways out (account, all locked, none); `UpstreamReturns` is a 2xx
  with `clearAccountError` from the snapshot, or a failure; `Mark` is
  `markAccountUnavailable`, whose backoff level was read before an await.  The
  `User` actions are login, re-login, re-entered key, toggle, removal and the
  outcomes of a connection test.  Every write of `testStatus = "active"` goes
  through `Activate`, as in `resetHealthStateOnActivation`, which nulls every lock
  *the row holds at that moment*.
- **AccountSelection**: promises are numbered; `mutex` is the newest, `waitsFor`
  the one found on entry, `resolved` those released.  `Throw` is an exception at
  any of the awaits inside, with the `finally`.
- **AntigravityQuota**: `cache`, `strikes` and `blocks` are the maps of the file;
  `fetching` is the refresh in flight that others `Join`; `Judge` is
  `handleAntigravityQuotaError` after its await, with its three verdicts.  A
  reading the breaker made up is told from one of the quota API by `ours`.
- **TokenRefresh**: token *n* is the *n*-th pair the account had.  `row` is the
  saved one, `tok[r]` the one a request holds, `live` the newest the provider
  issued.  `lock` and `kept` are the two layers of sharing.  `Persist` is the write
  of a new pair (`updateProviderCredentials`), which is `Saved` or `WriteFails`: the
  error is caught (`tokenRefresh.js:203`), the result ignored, and the request goes
  on with a pair the row lacks, which `missed` remembers.
- **StreamLifecycle**: `phase`, `disconnected` and `released` follow the stream
  controller; `stallIn` and the abort timer are timers in ticks.
- **RequestDetails**: `buffer`, `draining`, `flushIn`, `isFlushing` are the
  repository's variables; `mem` is the database as the process sees it, `disk` the
  file, `saveIn` the delayed save of sql.js.
- **PromptTrace**: `pc` is the handler, `completing` the calls of `complete` that
  are waiting, `carry` a partial line in the collector.  A frame is the number of
  its usage; `Copy` reads a chunk, whose end may be anywhere.
- **KiroIntegrity**: each kind of event is an action on the buffers of
  `transformEventStreamToSSE`; `CleanVerdict` is the judgement at the end of the
  stream, objection by objection in the code's order; `Recover` releases, fails
  or asks again.
- **ComboRouting**, **FusionPanel**, **Combos**: `Start` is the synchronous stretch
  from the reading of the combo to the first model's call; `Called` is one
  model's answer; `WaitEnds` the timer of a transient failure.  `Settle` is the
  end of one panel call, `Close` the end of the collection, `Read` one await of
  the loop over the bodies, during which stragglers still settle.
- **RequestTranslators**, **RequestTranslation**: a message is a role and a
  sequence of blocks (words, the use of a tool, its result), the same in every
  format except for how blocks are dealt out to messages.  Every operator is one
  function of the translators, and `TranslateRequest` composes them as
  `translateRequest` does, with the direct route to Kiro.  `Sends` is one request;
  what the user, the model and the client do to the conversation in between is
  external, and so free: calls may be answered in part, out of order or not at
  all, turns may repeat, and the beginning may be dropped or rewritten.
- **ResponseTranslators**, **StreamTranslation**: `st` is the one state object of
  both hops, with the fields they share; `Translate` is one chunk through both,
  `Flush` the call with null at the end.  Each provider is a small machine that
  may say what its format allows; the client is a reader that checks framing.
- **Exchange**: a request opens a stream, and what the client has read of it is
  what its next request says, so that the two directions are seen together.

## 3. Runs

| Run | Instance | Shows |
|---|---|---|
| `account_routing` | 2 requests, 2 accounts, two ordinary models and a free one, failures with backoff and until next month, `MaxNow` 2, one user edit, symmetry over requests and models; about 930,000 states | a row that reads active is clean; a success keeps other models' locks that it saw; locks end early only for a cause; retry times are useful; the loop implements `FallbackLoop` |
| `account_selection` | 2 requests, 3 accounts, limit 2, 6 calls, 1 change of availability; about 870,000 states | the usage written back is current; no account starves; every call gets through, although calls throw |
| `antigravity_quota` | 3 requests, 1 model, 3 strikes, interval 1, window 2, block 3 | a block is in the cache as long as it holds and not longer; it is earned; the quota API is asked once per interval; every refusal is judged |
| `token_refresh` | 2 requests, 3 tokens, results kept 2 ticks, 2 attempts | no refresh token is spent twice while its result is kept; a retry uses a newer token; every request finishes; whoever gets a rotated token saves it, unless its own write fails |
| `stream_lifecycle` | 2 requests, stall 2, pending 1, abort 1 tick, 2 chunks | one release per request, the counter never exceeds what is live, every request ends |
| `request_details` | 2 requests, batch 2, table of 1, flush 2, save 1 tick, 1 foreign write; about 277,000 states | no detail vanishes without a cause; an answer reaches the disk |
| `prompt_trace` | 1 prompt, up to 3 frames, as events or as one body | a row is closed once, says how the request ended, has the last usage, and is closed unless the process or the store fails |
| `kiro_integrity` | 2 tool calls, up to 4 events in each of 2 attempts; about 1,030,000 states | refusals stay private; usable turns are kept; a cut answer says so; every request ends |
| `combo_routing` | 2 requests, lists `ab`, `a`, `aba`, a pool of one model, limit 2, one edit; panels of up to 3, quorum 2, grace 1, hard timeout 3 | no model is dropped, capable ones go first, the rotation is fair, every request is answered; what a panel answered in time is used, stragglers get their grace, a hung model holds nobody up |
| `translation` | 15 pairs of formats, 5 turns, 2 calls per answer of which one is unusable to Kiro, one rewriting; 11 streamed pairs with 5 pieces; about 655,000 states | every request is well formed and has all that was said; every stream is well framed, unmixed and ended |

Each property is also checked to fail when one definition is replaced by a
plausible mistake (`mutants` in `PROJECT.json`); the mistakes are in the modules,
marked "Mutant".

Why these bounds are enough.  *Requests*: each hazard here is a pair, one that
reads and one that writes in between; two requests give every such pair, and
`account_selection` needs no third because a third in the queue only waits.  Three
are used where three strikes trip a breaker.  *Accounts and models*: two accounts
make a fallback, three make a rotation that can skip one; two models and a free
one are the cases of the lock keys; the breaker's state is per model and
connection, so one model is enough there.  *Time*: `MaxNow` 2 lets a short cooldown
expire while a long one runs; a lock "until next month" outlives the run.  *User
edits*: the properties compare a state with the one a request has read, so one
edit in between is the case.  *Tokens*: three make a stale copy, a current one and
a future one.  *Batches*: of two, so that one save fills none, one or the second of
a batch; the table holds one record, so that retention happens.  *Lists*: one has
a model twice, one is shorter than the rotation's index; the pool makes a list
that is longer for some requests.  *Panels*: three models with a quorum of two
leave one straggler.  *Chunks*: a stream that has sent one, several or none; an
upstream that sends for ever keeps its request open, in the model and in the
code.  *Frames*: the last may be whole, cut, or follow one that was cut.  *Kiro's
events*: a complete call takes two, so four make a call, a damaged piece and a
stop reason, or two stop reasons around text.  *Turns*: five are a question, calls,
results, an answer and another question, whose beginning may then be dropped; a
second request within them meets the start of a session.  *Pieces*: five are two
interleaved calls with two pieces each and text.  *Slots*: indexes up to 4 hold two
calls with the text before and between them, each in a block of its own.

Deadlock is checked where the system cannot stop (`antigravity_quota`,
`token_refresh`, `stream_lifecycle` and `request_details`, whose clock runs on, and
`combo_routing`, whose requests come again).  The others come to rest: the account
runs at their bounds on calls, edits and time, `kiro_integrity` and `prompt_trace`
when their one request is over, `translation` when all has been said; their
configurations say so.

Two bounds of the runs could hide something and are named: `MaxCalls` ends a
selection run after six turns, in which each of three accounts has had its two
(section 5 has the theorem for any number);
and `MaxOther` bounds the writes of other repositories, because a write that
restarts the save timer for ever keeps sql.js from saving (section 7).

### Findings

Each is a run of its own with one property, which TLC finds violated.

| Run | What a comment says | What the code does |
|---|---|---|
| `breaker_disarmed` | "count every 429 whose quota reading is either optimistic (remaining > 0) or unavailable" (`antigravityQuota.js:145`) | after a block has ended while the quota API fails, the cache still has the entry the breaker made; a refusal takes it for an exhausted reading and deletes the strikes (`antigravityQuota.js:179`), so that the breaker cannot trip again |
| `kiro_session_start` | the direct route from Claude's format to Kiro's "is lossless" (`translator/index.js:85`) | the first message of a session is frozen and put in the place of the first turn (`kiroSessionReplay.js:85`); a second message sent after the first one's answer was interrupted is part of that turn and never reaches Kiro |

Other places where the code departs from a comment are behaviours of the modules,
which the properties allow for:

- a set but expired model lock hides an account-wide lock (`accountFallback.js:122`;
  "account-wide", `auth.js:245`): `ApplicableLock`;
- a success decides on the row as it was when selected, and writes "active", which
  nulls locks set since (`auth.js:317`; "only if no active locks remain",
  `auth.js:293`): `SuccessKeepsLocksItSaw` speaks only of locks it saw;
- with equal millisecond timestamps a rotation may take the same account again
  (`auth.js:182`; "excluding current if possible", `auth.js:174`): the constant
  `SameMs`;
- retries of a refresh run into the failure that is kept for 10 s
  (`tokenRefresh.js:258`);
- what requests write after the signal is lost when the server exits
  (`sqljsAdapter.js:108`, "Flush on shutdown");
- a combo looks for the retry time of a refusal in a field of the body that no
  response has (`combo.js:319`);
- a fusion with one answer asks its model again (`combo.js:618`; "return it
  directly", `combo.js:535`): `AskAgain`;
- of two stop reasons Kiro's gate keeps the more severe, so an abandoned turn whose
  reason is masked by one of the same severity is judged by the first
  (`executors/kiro.js:170`): `Merge`;
- a call of a tool that a Claude client left unanswered is sent unanswered to a
  provider of Claude's format: the empty result that is inserted for it
  (`concerns/toolCall.js:122`) is dropped as an empty message
  (`formats/claude.js:477`): `Mended` leaves that pair out.

## 4. Fairness

- `AccountRouting` has none and states no liveness: whether a call returns is the
  upstream's affair, and its loop's progress is checked in `AccountSelection`.
- `AccountSelection`: weak fairness of the steps inside the mutex, each of which
  awaits only the local database (its drivers are synchronous behind a promise).
  Nothing is assumed of upstream or user.
- `AntigravityQuota`: a refresh ends, because each of its calls times out after
  10 s, and a resumed request goes on.  No request need arrive or be refused.
- `TokenRefresh`: continuations run, timers fire, the provider answers or the call
  times out, the clock advances.  A request need not arrive, and a write of the row
  need not succeed.
- `StreamLifecycle`: a call gets an answer or times out; timers and the clock run.
  An open stream need not end and a client need not leave: the watchdog alone must
  end the request.
- `RequestDetails`: timers, the clock, and what the drain awaits.  Crashes and
  signals need not happen.
- `PromptTrace`: the handler goes on and the completion's awaits settle, with
  success or not; that an answer ends is what `StreamLifecycle` shows.
- `KiroIntegrity`: Kiro need not send anything: the timeouts of the first chunk and
  of the next one end a silent attempt, that of the connection a silent call.
- `ComboRouting`: a model answers (its own timeouts see to that) and timers fire.
- `FusionPanel`: timers fire, bodies are read, the last call ends by timeouts of
  its own.  A model of the panel need not answer.
- `Exchange` states safety only.

## 5. What is proved

The theorems hold for any number of requests, accounts, tokens, tool calls, frames,
pieces of a stream and any bounds, from the `ASSUME` of each module (bounds are natural numbers,
periods positive).

- **AccountRouting** (`AccountRouting_proofs`): `TypeOK`, `ActiveRowIsClean`,
  `NeverBackToFailed`, `RetryAfterIsUseful`, `NoCredentialsMeansNone`,
  `SuccessKeepsLocksItSaw`, `LocksReleasedForCause`, and the implementation of
  `FallbackLoop`.  The invariant is `TypeOK /\ LoopInv /\ ActiveRowIsClean /\
  UnbornRowIsFresh`: `LoopInv` ties a request's place to its connection and exclude
  set (a connection being called is not excluded; one that has been given up is, by
  the time of the next selection), and `UnbornRowIsFresh` says that a row not yet
  created is as creation finds it, which activation relies on.
  `LocksReleasedForCause` then goes through the actions one by one: most cannot
  touch a lock that still runs, and the others are the causes it names.
  `RetryAfterIsUseful` also needs that a set of naturals has a minimum (`NatMin`).
- **AccountSelection** (`Accounts_proofs`): `TypeOK`, `OneSelectsAtATime`, `UsageReadIsCurrent`,
  `StickyBound`, `NoAccountStarves`.  The invariant adds `ChainInv` -- the resolved
  promises are an initial segment and callers hold distinct promises, each waiting
  for the one before -- from which exclusion follows: two callers inside would both
  have a resolved predecessor and be unresolved themselves.  `RotationInv` bounds the
  timestamps, so that the heads of both sorts exist and are candidates.
  `NoAccountStarves` counts the turns an account could have had that went to others.
  `FairInv` bounds them by the accounts used later than it: one that begins a turn was
  the least recently used, and moves behind.  This theorem assumes `~SameMs`, and
  has to: with two selections in one millisecond the sort by `lastUsedAt` cannot
  tell which account came later, and TLC finds one passed over too often.
- **TokenRefresh** (`Accounts_proofs`): `TokenTypeOK`, `NoTokenSpentTwice`,
  `RetryUsesANewerToken`, also when writes of the row fail.
  `HeldInv` (nobody holds a token that was not issued; a kept result is newer than
  the token it was kept for), `GotInv` and `RefusedInv` carry the second;
  `SpentInv` (the age of a spent token and the rest of its result's time add up)
  the first.
- **StreamLifecycle** (`RequestEnds_proofs`): `TypeOK`, `ReleasedOnce`, `NoStaleAbort`, `UsageSavedOnce`
  from one invariant whose `LifeInv` says what `disconnected`, `released` and
  `saved` are in each phase; and `PendingIsLive`, from `CountInv`, which counts the
  requests that have started and not released.
- **RequestDetails**: `BufferHasAWriter` and `DirtyTracksTheFile`, with the ranges
  of the timers; and, from `DInv`, `TypeOK` and `NothingVanishes`.  A detail is lost
  if its batch is spliced off twice, if a request's placeholder is written over its
  answer, or if the process ends with it.  So `DInv` says that only a flush in
  progress holds a batch, that the saves of a request are in order along the table,
  the batch and the buffer (`OrderInv`), and that what has been saved is waiting, in
  the table or excused (`HeldInv`), or, without a process, in the file or excused
  (`LossInv`).
- **PromptTrace** (`RequestEnds_proofs`): `TypeOK`, `RowIsTrue`, `ClosedOnce`.  The heart of the invariant
  (`TypeOK /\ OneCall /\ Places /\ UsageIsLast /\ CallIsTrue`) is that the `closed` flag admits a single call of `complete`: as long as the flag
  is down no call is waiting and the row is open, and afterwards there is at most
  one, whose status agrees with how the request ended.
- **KiroIntegrity** (`Providers_proofs`): `TypeOK`, `RefusalStaysPrivate`,
  `UsableTurnIsKept`, `TruncationIsTold`, from `TypeOK /\ StopRules /\ ReadRules /\
  JudgedRules`.  The merge keeps a reason at least as severe as every reason
  heard, so a refusal, once named, is the one that is judged; a judged attempt has
  the verdict its buffers call for.
- **AntigravityQuota** (`Providers_proofs`): `QuotaTypeOK`, `BlockIsInTheCache`,
  `BlockIsEarned`, `OneCallPerInterval`.  `BlockRules` says that an entry the breaker
  made is an exhausted one and that a block is backed by the cache for as long as it
  holds, also when a refresh that began before it writes the cache after it.
  `StrikeRules` finds behind every counted strike a refusal no older than the window,
  so that a block, which takes `Threshold` of them, is earned.
- **Combos** (`Combos_proofs`, for any models, lists of at most `MaxPanel`
  places, sticky limit and timeouts): `TypeOK`, `CapableFirst`, `RotationFair`,
  `NoModelDropped`, `InTimeIsUsed`, `StragglersGetTheirGrace`.  An order is made in
  one step and then kept, so `CapableFirst` and `NoModelDropped` come down to what
  partition and rotation do to a list (`OrderFacts`).  `RotationFair` compares how
  often the places of a list have led; `LeadInv` says by how much each may be ahead:
  in the pass that is under way the places between its start and the current one have
  had their limit, the current one as many uses as are counted, and the start what
  it lacked when the list was last edited.  In the fusion, the age of the quorum and
  the rest of the grace add up (`CollectInv`), and a text that came in time stays
  until it has been read (`ReadInv`).
- **Exchange** (`Exchange_proofs`, for any tool calls, any chain of formats among
  those of the code and any length of the answer): `WellFramed`, of one stream
  (`StreamIsWellFramed`) and of all the streams of an exchange
  (`WellFramedThroughout`).  The reader's open items must be the ones the second hop
  believes to have open (but for the message and the reasoning of the Responses API,
  which are `Resumable`: they may get deltas when closed), so `StreamInv` relates the translator's state to the
  reader, by the client's format: `InClaude` (which blocks were opened, each once, and
  which still are open), `InResponses` (the message, the reasoning and the calls that are
  added and not done), `InChat` (what has been named), and `Done` once the finish has
  been put out.  `Speaks` says what the first hop believes of the provider; both hops
  work on one state object, so each has to leave alone the fields the other's relation
  speaks of, and the intermediate chunks must be ones the second hop can use.  A
  stream of the client's own format is passed on, with `Passes` in place of both.
  Every operator of a hop is shown to keep the relation for what it has put out so
  far, which is the shape of most of the lemmas.  `LastSlot` bounds the indexes at
  which calls and blocks are kept and is at least the number of calls, less one;
  nothing else is assumed of it.
- **Exchange**, what the client has read (`ExchangeContents_proofs`, under the same
  assumptions): `NothingMixed` (`NothingIsMixed`, `NothingMixedThroughout`) and
  `FinishReachesClient` (`FinishIsReached`, `FinishReachedThroughout`).  `WellFramed`
  is about what is open, these about what has been said.  So the invariant,
  `ContentInv`, adds to `StreamInv` the account of the answer, `Account(prov, said)`:
  its thinking and text in order, the calls begun, the arguments of each.  While the
  provider speaks, `Conveyed` says that the client has been told that account
  (`ClaudeHas`, `ResponsesHas`, `ChatHas`; towards Claude Messages the arguments may
  still be in the translator's buffer), and once it has finished, that the client has
  all of it and its one end.  `Noted` is what the first hop must remember for that:
  which block is open and of which call, whose arguments it has passed on, whether it
  has finished.  `Thoughtful` is there for the `<think>` tags in text: only the
  thinking of Claude Messages may come between them.  A step of the provider adds to
  the account what one chunk says, or several for the parts of Gemini (`PlainAdds`,
  `UsesAdds`, `GeminiPartsSay`); the first hop makes chunks that say the same; and
  `ClaudeTold`, `ResponsesTold` and `ChatTold`, in `Exchange_proofs`, say operator by
  operator that the second hop tells the client just that.  A stream that is passed
  on carries texts only and never tells of a call (`PassesTexts`), and the end by
  `flush` adds nothing but an end and what was kept back (`FlushIsRight`).

Several of these are about recursive functions on sequences: `Selected` (the code's
`filter`) and `Written` (the loop that writes a batch).  What they compute is shown
for every length by taking the least length for which it would fail (`NatMin`),
which takes the place of the induction rule.  The translators' loops are folds of
the library; `Runs` shows that the rounds of a loop form a function, and `Kept`
that what each round keeps holds after the last, both by the least round at which
they would fail.

Proved and not part of a run: `NeverBackToFailed`, `NoCredentialsMeansNone`,
`OneSelectsAtATime`, `StickyBound`, `NoStaleAbort`, `UsageSavedOnce`,
`BufferHasAWriter`, `DirtyTracksTheFile` and the type invariants of the proved
modules.

Only model-checked:

- all liveness properties, among them `EveryRequestEnds`, `RotatedTokenIsSaved`,
  `AnswerReachesDisk`, `EveryRowIsClosed`, `EveryTurnEnds`,
  `EveryFusionIsAnswered`: out of the prover's reach;
- `RequestIsWellFormed` and `NothingIsLost` of `Exchange`, about whole conversations:
  a request is rewritten from end to end by several folds one after the other, each
  with operators as arguments, and what they do together would take an induction over
  the conversation for each of them.  Their instances in the run are small ones.

## 6. Assumptions of the models

- One process.  The database is not shared with a second one.
- A transaction is atomic, and so is the writing of the sql.js file.
- Between the lookup of the refresh lock and that of the kept results only settled
  promises are awaited, so no answer from the network comes between.
- Observability is on; two details do not carry one timestamp; saves are pushed in
  the order of the calls.  The drain's `import()` goes through the resolver hook,
  so other code runs between its steps.  Signal listeners run in the order of
  registration; a native adapter exits the process at once on SIGTERM.
- A deadline the Antigravity breaker makes up never equals a reset time of the
  quota API to the millisecond.
- The strategy of a combo and the settings of routing stay as they are in a run.
- One stream and one prompt stand for all: streams, traces and fusions of
  different requests share no state.
- The ids of the calls in a conversation are distinct, and its client has one
  session with Kiro.
- What a comment of the code calls impossible is not assumed unless listed here.

## 7. What is not modelled

- **Executors that refresh by themselves** (claude, kiro, cline and others,
  `open-sse/executors/default.js:219`): neither the lock nor the kept results are
  involved, so two requests of one account may spend one refresh token twice.
  `TokenRefresh` is about the others.
- **Steady writes under sql.js**: each statement restarts the save timer, so with
  gaps below 100 ms the file is never written.  The liveness property is checked
  with finitely many foreign writes.
- **A combo inside a combo**, which the code expands without a depth limit.
- **The text and status of refusals of a combo**: a combo without accounts answers
  404 where a comment says 503 (`combo.js:367`), and a plain 503 is not waited for,
  because its cooldown is 30 s (`combo.js:345`).
- **The retry time from Antigravity's cache** (`auth.js:114`).
- **Names and priorities** of connections, the matching of a login to a row.
- **Trace**: a client that leaves before the listener is on the response is not
  noticed, and its row is closed by the end of the answer; a JSON body that ends
  with a newline and the fields besides status and usage are left out.
- **Kiro**: which hosts are tried, the bytes of frames, and the patterns that tell
  an intention or an ellipsis from a result, which are classes in the model.
- **Translation of requests**: images, thinking, system prompts, cache markers,
  declarations and names of tools, prefilled answers, clients of Gemini's and
  Antigravity's formats, and the targets Ollama, Vertex, Cursor and CommandCode;
  native pass-through of a provider's own tool, which does not translate.  What the
  repairs do not mend is in `Mended`: results that answer a part of the calls from
  a client of Chat Completions, and anything from a client of the Responses API,
  except towards Gemini and Kiro.  Calls, a message and outputs in that order in
  the items of the Responses API, which the translation leaves apart
  (`request/openai-responses.js:69`), and ids that are equal are left out.
- **Translation of answers**: ids of calls that arrive in parts, usage, texts that
  carry tags of thinking, custom tools, argument repair; a provider that finishes
  twice, which gives a client of Claude's format two ends; an empty stream, which
  gives a client of the Responses API an end without a beginning.  A stream that
  goes through Chat Completions and is cut before its finish is not closed for the
  client, except towards the Responses API: `FinishReachesClient` says so.  Text
  after a tool call, and thinking after `</think>`, go to a client of the Responses
  API as deltas of an item that is closed (`response/openai-responses.js:212` and
  `:147`): `Resumable` names these two items, and `WellFramed` forbids it of every
  other, the blocks of Claude Messages and the calls of the Responses API.  A
  passed-on stream that breaks after its end is told of a failure as well
  (`streamHandler.js:105`, `UpstreamBreaks`); no text of the repository says what a
  client makes of either.
- **Other executors, request savers, catalogues**: conversions of data.
- **Login flows, skills, export, views**: I/O and queries.
- **Frontend**: the composer is locked while a thread streams, so the operations of
  `useStreams` on one thread do not overlap; two tabs overwrite one key of local
  storage.  The rest is views.

## 8. What could follow

1. A module that composes `AccountRouting`'s loop with the mutex of
   `AccountSelection`, so that locks and rotation are seen together.
2. The retries of the executors' base class, and executors that refresh by
   themselves, next to `TokenRefresh`.
3. `RequestIsWellFormed` and `NothingIsLost` as theorems, translator by translator.

## 9. Running

    tlc -workers 2 -config MC_AccountRouting.cfg MC_AccountRouting.tla
    tlapm AccountRouting_proofs.tla

`PROJECT.json` lists under `runs` which module each `.cfg` is for.
