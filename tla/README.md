# APM: specification and proofs

APM ("Anglais Pour Moi") is a spoken-English tutor: a Flutter application, a
FastAPI backend over PostgreSQL and a small pronunciation service. This directory
specifies the parts of it where requests, devices and time meet, checks them with
TLC and proves what matters most with TLAPS. Paths below are relative to
`backend/app/features/` unless they start elsewhere.

## 1. The system

| Component | State it keeps | Operations | Talks to |
|---|---|---|---|
| Conversation turns (`conversation/`) | `transcripts` (one JSON array per session) | `POST /turn`, `POST /turn/stream` | idempotency, sessions, LLM, TTS |
| Idempotency (`idempotency/`) | `idempotency_keys`: pending or completed claims, also the per-session turn lock | `begin`, `complete`, `release`, `acquire_turn_lock`, `release_turn_lock` | conversation, purge |
| Sessions (`sessions/`) | `sessions`: start, last activity, end, minutes | `start` (with its lazy reaper), `end`, `record_turn_activity` | users row (quota, streak) |
| Quota, streak, tier (`core/quota.py`, `streaks/`, `billing/`) | columns of `users` | `record_usage`, `register_active_day`, `set_tier` | sessions |
| Purge (`purge/`, `main.py`) | none, a lock in Redis | one loop per process, deletes old claims, tokens and events | all three tables |
| Authentication (`auth/`) | `users`, `refresh_tokens` | register, login, refresh with rotation, logout, password change and reset, deactivation | every request |
| Rate limiting (`core/rate_limit.py`, `api/client_ip.py`) | hit counters, in memory or in Redis | `check` | every paid route |
| Debrief (`debrief/`) | `debriefs`, `users.cefr_level`, profile memory | `generate`, `get` | LLM, review, vocabulary, analytics |
| Review (`review/`) | spaced-repetition items | `record_session`, `due` | debrief |
| Analytics (`analytics/`) | append-only events, one activation per learner | `session_completed` | debrief, purge |
| Voice data (`voice_data/`) | everything said by a learner | export, erase | all tables |
| Voice consent (`voice_consent/`) | one row of four permissions | read on first touch, update | uploads, scoring |
| Proof and progress (`proof/`, `progress/`) | none | compare and summarise the debriefs | debriefs |
| Shadowing, minimal pairs (`shadowing/`, `minimal_pairs/`, `pronunciation/`) | none | score and coach a spoken attempt | recogniser, pronunciation service, LLM |
| Missions, vocabulary, onboarding, profile, transfer | one row or list each | create, capture, place | LLM, debrief |
| LLM failover (`core/llm`) | the answer being streamed | `complete`, `stream_complete` | external providers |
| Speech synthesis (`conversation/providers`) | a cache of clips | `synthesize` | external provider |
| Shared clients, lifespan (`main.py`, `core/http_lifecycle.py`, `core/llm/factory.py`) | caches of HTTP and Redis clients, the list to close | build on first use, warm up, close | every external service |
| Database connections (`database.py`) | a pool | check out, release before an external wait | every route |
| Migrations (`backend/migrations`) | the schema and its revision | upgrade, downgrade | all tables |
| Mobile tokens (`mobile/.../core/network`) | two tokens in secure storage, a generation, a mutex | `refresh`, `invalidateAndClear` | auth |
| Mobile offline queue (`mobile/.../core/offline`) | a queue per user, a generation | `enqueue`, `sync`, `cancel` | conversation |
| Mobile conversation loop (`mobile/.../ui/conversation`, `core/audio`, `core/speech`) | microphone, player, stream | talk, play, interrupt | conversation, queue |
| Pronunciation service (`pronunciation-service/`) | an acoustic model, a semaphore | align and score a recording | external model |

What is hard here. The backend runs on several workers and gives its database
connection back during LLM calls, so a turn is a sequence of small transactions
with seconds between them: two turns, a turn and the end of its session, or a turn
and its retry meet in the middle. Clients retry, replay queued turns up to two days
later and disconnect during a stream. Workers die. Locks are rows with a time
limit. Every one of these is in the models below.

## 2. Modules

| Module | What it is |
|---|---|
| `Transcript` | messages, the exchange a turn adds, the cap on a transcript |
| `TurnLog` | abstract specification: what the turn endpoints promise |
| `TurnPipeline` | the two turn routes over the table of claims, down to single statements |
| `TurnPipelineProofs` | theorems about `TurnPipeline`, including that it implements `TurnLog`, and about `ReplyStream` |
| `SessionMetering` | sessions, quota, streak and tier of one learner |
| `SoloMetering` | `SessionMetering` with the memory of whether requests have overlapped |
| `SessionMeteringProofs` | theorems about `SessionMetering` and `SoloMetering` |
| `OfflineReplay` | the application's queue of unsent turns, its replay, and the logins and logouts around it |
| `OfflineReplayProofs` | theorems about `OfflineReplay` |
| `TokenRotation` | the server's refresh tokens: login, rotation, logout, the end of all sessions of an account |
| `DeviceTokens` | the tokens of one device over `TokenRotation`: refresher, mutex, storage, login, logout |
| `DeviceTokensProofs` | theorems about `DeviceTokens` and the server below it |
| `ReviewLedger` | what spaced repetition promises, and its pure rules |
| `Review` | `record_session` by several debriefs at once |
| `Debrief` | the debrief of a session over `Review`: level, memory, events; the placement |
| `VoiceErasure` | the erasure of a learner's data among turns, debriefs, mission compilations and placements in flight |
| `VoiceExport` | the paged export |
| `VoiceConsents` | the consents, their updates, and the uploads they gate |
| `LearnerProofs` | theorems about `Review` and `Debrief`, including that both implement `ReviewLedger`, about `VoiceErasure`, `VoiceConsents`, `VoiceExport` and `Reports` |
| `RateLimit` | both limiters and the client address |
| `Migrations` | the 27 revisions, up and down, over a database in use, and the ORM models |
| `MigrationsProofs` | theorems about `Migrations` |
| `ReplyStream` | a streamed reply: failover, sentences, clips, correction |
| `ConnectionPool` | the connections of the routes that wait for an external service |
| `Reports` | proof and progress over two reads |
| `ProcessLife` | the processes: clients, purge loop, shutdown |
| `Accounts` | the account rows: registration, passwords, resets, deactivation |
| `PlatformProofs` | theorems about `Accounts`, `ProcessLife`, `ConnectionPool` and `RateLimit` |
| `Alignment` | the forced alignment and the scores of the pronunciation service, as operators |
| `Attempts` | a spoken attempt over `Alignment`: transcript, words, scores, coach |
| `AttemptsProofs` | theorems about `Attempts` and `Alignment` |
| `MCTurnPipeline`, `MCSessionMetering`, `MCOfflineReplay`, `MCDeviceTokens`, `MCLearning`, `MCPlatform` | instances for TLC: calendars, owners, samples and symmetry sets |

A few definitions are not part of the specification: each is the code with one
plausible mistake, and each property is known to reject one of them
(`PROJECT.json`, `mutants`).

### TurnPipeline

One session. A request has a program counter; a step is one database statement with
its commit, or one external call. The points of the program counter follow
`conversation/router.py`:

| Points | Code |
|---|---|
| `lookup`, `claim`, `relook` | `IdempotencyService.begin` |
| `lock` | `acquire_turn_lock`, and the release of the key when it is refused |
| `prepare` | `_prepare`: ownership, `ended_at`, base transcript |
| `generate` | LLM and TTS, no connection held |
| `persist`, `persistPartial` | `persist_turn` in a fresh unit of work |
| `unlockComplete`, `completeUnlock`, `complete` | caching the reply and freeing the lock: `/turn` frees the lock first, `/turn/stream` caches first |
| `unlockDrop`, `dropUnlock`, `drop` | the same for releasing the key after a failure |

A row of `idempotency_keys` has `st` (absent, pending, done) and an `age` that says
on which side of `STALE_CLAIM_SECONDS` and `IDEMPOTENCY_KEY_TTL_HOURS` its
`created_at` lies: these two comparisons are all the code makes with it. `by` is a
history field, the table does not record who claimed a row: this is why a release
deletes whatever is there. `Overrun` chooses whether a claim may go stale while its
request still runs. `FALSE` is the assumption written at `STALE_CLAIM_SECONDS`;
`TRUE` is what the code allows.

Every database statement may fail, and each failure goes where the code sends it:
`/turn` swallows a failed release of the lock, `/turn/stream` does not; a failed save
of a full stream is logged and leaves the key pending; a failed save of a partial
one releases the key. `Disconnect` is the cancellation of a stream, which runs only
the `finally`. `Crash` stops a request anywhere.

`Persist` has the three outcomes of `persist_turn`: saved; ended in the meantime, in
which case nothing is saved and the handler does not notice; failed.

### SessionMetering

One learner. From `users.lock` to the commit a request is alone, so that is one
step; what it read before the lock is in its locals. `copy` is the user object the
request loaded when it was authenticated: `users.lock` does not repopulate it, so
`start` and `end` compute with it and `Flush` writes the columns that changed.
`record_turn_activity` runs in a fresh database session and reads the locked row.
Time is in ticks, `DayOf` is the calendar. `MaxSkew` is how far back a replayed
turn's `practiced_at` may lie; 0 means live turns only. The charge of a turn is
computed before the lock (`MeterRead`) and applied after it (`MeterCommit`), like in
the code; that two turns of one session do not do this together is what
`TurnPipeline` proves.

`charged` and `days` are history variables that only the properties read, and so is
`overlapped`, which `SoloMetering` adds.

### OfflineReplay

One device, shared by learners. The state is the secure storage (`queue` per
learner, `token`), the memory of the application (everything else, lost by
`Restart`) and what the server knows of each turn's key (`server`: nothing, running,
saved; this is what `TurnPipeline` shows of it).

| State and actions | Code (`mobile/lib/src`) |
|---|---|
| `chain`, `RunOperation`, `OperationFails` | `SecureOfflineTurnQueue._synchronized`: operations run one at a time in call order and ask for the current learner when they run |
| `sync`: `StartSync`, `SyncNext`, `SyncAnswer`, `StopSync` | `ConnectivityController.syncPending` around `OfflineTurnSync.sync`; `sync.same` is the comparison of generations, `sync.by` whose token the request carries |
| `SyncRefresh` | the retry after a 401 with a refreshed token; the refresh itself is one step |
| `live`, `Speak`, `SpeakAnswer` | `ReplyPlayback.streamReplyAndSpeak` and `recordFailedTurn` |
| `mounted` | turns whose view model has not been invalidated: Riverpod refuses the `ref` of the others |
| `auth`, `scope`: `Login`, `Logout` .. `LogoutDone`, `Restore` | `AuthViewModel` and `AuthRepository`, with the rethrown failure of `/auth/logout` |

The first attempt of a turn is a streamed request. When the server refuses it, the
body of the refusal is a stream as well (Dio's `ResponseType.stream`), so
`_toApiException` finds no JSON and gives it the code `network`: the turn is queued
like one that never left the device. Only an error event inside the stream, a broken
stream or a refused token refresh are not.

`dropped` is a history variable. `SessionsMayEnd` chooses whether a session may end
while its turns are queued.

### TokenRotation and DeviceTokens

`TokenRotation` is the server: the table `refresh_tokens` and the requests in
progress. A request is a few steps, the ones between which others can run: the row
lock of `/auth/refresh` and the commit of the rotation or of the family revocation;
the unlocked read and the update of `/auth/logout`; the start and the commit of a
sweep, the common part of `change_password`, `reset_password` and `set_active`.
`Locked` is the row lock. The `UPDATE` of `revoke_all_for_user` sees the rows of the
moment it starts and waits for the locked ones among them (PostgreSQL, READ
COMMITTED). Time is not kept: whether a row has expired, or was revoked longer ago
than `reuse_grace_seconds`, is a choice where the code compares; this covers every
timing. `purge_expired` deletes only rows that are refused either way.

`DeviceTokens` extends it with one device.

| State and actions | Code (`mobile/lib/src`) |
|---|---|
| `flight`: `Join`, `FlightRead` .. `FlightSaveFails` | `TokenRefresher._performRefresh`; `flight.same` is `_generation == generation`; `callers` are the learners whose calls wait for the memoised future |
| `mutex`, `Running`, `Ask`, `Freed` | `TokenRefresher._exclusive`: sections in order of arrival, a failing one does not block the next |
| `access`, `refresh` | the two keys of `SecureTokenStorage`, written and deleted one after the other, so everything that takes place between the two writes is a state of its own |
| `acct`, `who`: `Login` .. `ClearFails`, `CurrentUser` | `AuthRepository` as `AuthViewModel` drives it |
| `Restart` | the operating system ends the application; storage and server remain |

A login is assumed to start only when no section waits for the storage: a person
types more slowly than that. `left` and `torn` are history variables. `torn` records
a login that was cut off between its two writes: the device then has the access
token of the new learner beside the refresh token of the one before, and the next
refresh signs the earlier learner in. `TokensAreOwn` excludes exactly this case.

### ReviewLedger, Review and Debrief

`ReviewLedger` is the abstract specification of spaced repetition: the schedule of a
learner's error types advances by whole sessions, one after the other. `Review` is
`record_session` with its advisory lock, the instant it takes before it waits for
that lock, the read, the upserts and the commit or rollback. `Debrief` composes it:
`generate` with the in-process lock per session, the connection (and with it the
advisory lock) given back before the LLM, the reload afterwards, the flush that locks
the learner's row, the save with its overwrite and its recovery after a unique
violation, then vocabulary, review and analytics. The placement of
`onboarding/service.py` writes the same learner and is there too. `home` says in which
process a request runs: the in-process lock serialises only those of one process.

### MCPlatform: parts that share no state

The following modules are independent of one another. One run explores them: the
variable `focus` chooses a part and only that part moves, so the state space is the
sum of theirs and not the product.

| Module | State and actions | Code |
|---|---|---|
| `VoiceErasure` | `speech` is what is stored, by kind and by the talk it derives from: a session, the material of a mission or the answers of a placement; `BeginErase`, `EraseNext` one statement each, `EraseCommit`; the requests reduced to what they lock, look up and write: turns with a key (`ClaimKey` before the session is looked up, `ReleaseKey`, `CompleteKey`) or without, debriefs and enrichments, `BeginMission` and `StoreMission`, `BeginPlacement` and `StoreLevel`, each with the LLM between, and `RequestDies`. `late` is history: what requests in flight at a commit had yet to store outside a session | `voice_data/repository.py`, `purge` |
| `VoiceExport` | `FetchPage` in a database session of its own, `SendRow` at the client's pace, rows stored and erased between | `voice_data/repository.py`, `_keyset_pages` |
| `VoiceConsents` | `LoadConsent`, `SaveConsent` per device: the `UPDATE` names the fields that differ from the loaded object | `voice_consent/`, `conversation/stt_router.py` |
| `RateLimit` | `CheckInMemory`, `CheckInRedis`, `CheckInOutage`; keys from `ClientIp` behind two proxies, with headers the caller made up | `core/rate_limit.py`, `api/client_ip.py` |
| `Migrations` | `Upgrade` and `Downgrade` to any revision as one transaction of the scripts' operations; between two commands the application writes sessions, activations, accounts and claims, as far as the schema lets it | `migrations/versions`, `migrations/env.py`, `*/models.py` |
| `ReplyStream` | the chain (`TryProvider` .. `AllFailed`), the tokens of an answer (`Delta`, `StreamEnds`), the consumer (`SendSentence` .. `SaveReply`), the tasks beside it (`Synthesized`, `Corrected`) and their cancellation (`Finally`) | `core/llm/providers/`, `turn_service.py` (`stream_prepared`) |
| `ConnectionPool` | a route is a sequence of what it does with its database session: `use`, `commit`, `release`, `await`, `upload`, `read` (of an object loaded before), fresh units; any step may raise | `database.py` and the routers |
| `Reports` | each report is two queries in READ COMMITTED, with debriefs stored and erased between them | `proof/`, `progress/` |
| `ProcessLife` | `cache`, `single`, `registered`, `clients`; `Ask`, `LookUp`, `Build` in two threads; `TakeLock`, `SkipTick`, `Swept`; `Shutdown`, `CloseNext`, `Exit` | `main.py`, `core/http_lifecycle.py`, `core/llm/factory.py`, the providers' factories, `purge/task.py` |
| `Accounts` | every request loads a row, works, and writes the columns it changed; nothing is locked in between | `auth/service.py`, `auth/repository.py` |
| `Attempts` over `Alignment` | transcript and phoneme scores requested together, either may fail; two matchers of words; the alignment as a trellis with back pointers, Python's index -1 included | `shadowing/`, `minimal_pairs/`, `pronunciation/`, `pronunciation-service/.../ml/gop.py` |

Two abstractions are worth naming. In `Migrations` column types and server defaults
are left out, except that a required column without a default is refused by a table
that has rows; of the rows those are kept that a script rewrites or trips over. In
`Alignment` log-probabilities are integers, and a score is the sum and the number of
frames that the logistic curve then averages.

## 3. What is checked

| Run | Checks | Bounds |
|---|---|---|
| `turn_safety` | `TurnsSerialised`, `ClaimHasOneOwner`, `FreedClaimsHadNoEffect`, `ImplementsTurnLog` | 3 requests, 1 key, cap of 3 messages, symmetric requests |
| `turn_liveness` | `NeverWedged` | 2 requests, 1 key |
| `turn_unsaved` | `ReplayIsCommitted`: violated | 2 requests, 1 key |
| `metering_safety` | `OneActiveSession`, `NoIntervalBilledTwice`, `StreakIsRun`, `QuotaIsExactAlone`, `EndedIsFinal` | 2 requests, 2 sessions, 5 instants, days of 2 ticks |
| `metering_lost` | `EveryChargeKept`: violated | 2 requests, 1 session |
| `offline_safety` | `OnlyOwnTurnsQueued`, `QueuedUntilSettled`, `ReplayInOrder` | 2 learners, 2 turns |
| `offline_drains` | `QueueDrains`, sessions stay open | 1 learner, 1 turn |
| `offline_wedged` | `QueueDrains`, sessions may end: violated | 1 learner, 1 turn |
| `tokens_safety` | `SingleUse`, `LogoutIsFinal`, `TokensAreOwn`, `ClearedForAReason`, `EndedTokensBuyNothing` | 2 learners, 3 tokens, 2 requests, no sweeps |
| `tokens_liveness` | `RefreshEnds` | 1 learner, 2 tokens, 2 requests, sweeps |
| `learning_safety` | `MasteredAfterLadder`, `ComesBackWithinAWeek`, `NoLostAdvance`; `PromotedOnce`, `LevelWithinSessions`, `FirstDebriefStands`, `ActivatedOnce` | 2 requests in 1 or 2 processes, 2 sessions, 3 levels, 1 error type over 12 days |
| `platform_safety` | see below | see below |

`learning_safety` looks at one of two things in a behaviour: the ladder of reviews
over twelve days, or the debriefs of one day. `PromotedOnce` and `FirstDebriefStands`
speak of requests in one process, which is what the in-process lock serialises.

`platform_safety`:

| Property | What it says | Bounds |
|---|---|---|
| `SpeechErased` | a committed erasure leaves nothing derived from what the learner said before it, and of what was in flight only a mission, a level, review items, events and the reply of a key claimed again can follow it: no session, transcript, debrief, sentence, memory or streak | 1 session, 1 mission or placement, 2 requests |
| `ExportComplete` | every row that was there throughout is exported, once and in order | 4 rows, 2 instants, pages of 2 |
| `OnlyAskedForChanges` | a consent changes only as some request asked | 2 devices |
| `LimitHolds` | the limit of a key, the bound on keys, and an outage that opens only what fails open | 3 callers, 2 keys, limit and window of 2 |
| `SchemaIsRevisions` | the schema is its revision's, at head the models'; commands fail only where documented | 27 revisions, `MaxId` = 2 rows per table, `MaxStart` = 2 instants |
| `UpgradeKeepsLearners` | an upgrade drops no session, account or first activation, and closes no session but the superseded | the same |
| `ReplyIsOneAnswer` | a reply is one provider's, cut into sentences wherever the network cut it, saved as heard, in time | 2 providers, 4 texts |
| `VoiceFollowsText` | clips in order, none missing, no task left behind | the same |
| `NoIdleConnection` | no connection held during an external wait or while asking for another, no stray read | 2 requests, pool of 1 |
| `HonestReports` | a proof compares rates, never backwards; the trend is that of the latest sessions, in order; a recurring error has its latest correction | 3 sessions, 4 debriefs, windows of 2 |
| `OrderlyProcesses` | every client built is closed, one sweep per interval, none during shutdown | 2 processes, 2 threads, cache of 1 |
| `CredentialsCurrent` | one account per mailbox with its token, dead resets stay dead, deactivation stands | 1 mailbox, 3 requests, 2 resets |
| `FairVerdicts` | a word said once counts once, both matchers agree, scores belong to the best alignment | phrases of 3 words, with a hyphen or a lone dash among them; probabilities unknown, 0 and 120 percent; 4 frames, 3 symbols |

The type invariants are not part of these runs: those of the modules section 4 lists are
theorems.

Why the bounds are enough. Three requests let one hold the lock, one be refused and
one come after a reclaim. One key is enough for requests with and without a key to
compete for the lock and two for the claim. A cap of three messages is hit by the
second exchange and cuts through the first, an odd number on purpose. Two sessions
let the reaper close one and open the next. Five instants with days of two ticks
contain two midnights; cap 2 and timeout 1 make a capped gap, a stale session and a
session in time all happen. Counters are bounded only by `MaxTime` and by each
request arriving once. Two learners and two turns are what mixing queues and
changing their order need; the second learner only logs in and out. Three tokens are a login, a rotation and a
second login or rotation; two requests are a refresh and the logout, sweep or orphan
it meets. Sweeps are left to the smaller run; the safety run with sweeps on both
accounts also passes (2.5 million states) and takes about five minutes.

In `learning_safety` twelve days are the whole ladder (1 + 3 + 7) and a day more,
two requests are two debriefs of one session or of two, in one process or two, and
three levels let the level move up, down and two apart. In `platform_safety` a page
of 2 is filled twice by 4 rows; a limit of 2 over a table of 2 keys is reached,
evicted and reached again by 3 callers; an erasure
meets any two of a turn, a debrief, a mission and a placement, and one that erases
anything may follow failed ones but not a committed one (the theorem has no such bound); 2 providers are one that fails and one that
answers; a pool of 1 is exhausted by one request that holds on; a cache of 1 evicts
with the second configuration; 3 requests are a registration or change, a reset and
an administrator; 4 frames are the shortest recording in which three phonemes, two of
them equal, can be told apart. The passing runs take every action of their modules.

Deadlock is not checked: when every request has been served and the clock has
stopped the models have nothing left to do, and a device may idle.

Fairness in `turn_liveness`. `WF(Step(r))`: an event loop does not abandon a
runnable handler, and a request whose worker dies takes `Crash` instead.
`WF(Age(k))`: time passes. Nothing is assumed about disconnects, crashes, the end
of the session or the purge, and a step that may fail may fail every time.

Fairness in the `OfflineReplay` runs. Weak fairness of the event loop's own steps
(`SyncNext`, the steps of a logout, `Restore`), of an answer or a timeout for every
request, of a running turn's end on the server, and of `StartSync`: the
connectivity comes back again and again. Strong fairness of the queue's operations
and of a good answer: storage and network may fail any number of times but not every
time. Nothing is assumed about learners, restarts or the end of sessions.

Fairness in `tokens_liveness`. Weak fairness of `FlightStep` and of `AccountStep`:
the event loop serves its callbacks, and an HTTP call is answered or times out.
Nothing is assumed about the server, which may let every request time out.

### What the violations show

* `turn_unsaved`: `/end` arrives while the LLM answers. `record_turn_activity`
  returns early without the commit `persist_turn` counts on. The turn is lost, and
  the retry is answered with the cached reply of a turn that was never saved.
* `metering_lost`: `end` bills on a user object loaded before the row lock and
  overwrites a turn metered in between.
* `offline_wedged`: "Session already ended" is a 409, and the replay reads every 409
  as "still in progress": the queue is blocked behind that turn.

### What the models reach and no run claims

These are behaviours of the specifications that came up while modelling. No property
excludes them.

* A crash, or a failed `complete`, between the commit of a turn and that of its key:
  after 120 s the retry reclaims the key and the turn is saved twice. The same
  happens to a replay that arrives after the purge of its key (24 h against the 48 h
  a replay may be late).
* With `Overrun`, a turn that outlives the stale window loses its lock to the next
  one; both append to the same base. Nothing bounds the length of a turn.
* A replayed turn moves `last_activity_at` back, and the next live turn bills the
  time in between again.
* A logout whose request fails rethrows before the caches are invalidated; the
  authentication stays loading until the application is restarted.
* A 429, or a 401 after a failed refresh, removes a queued turn although it could be
  sent later. A stream that breaks after it started is not queued.
* A replay that the connectivity starts during a logout is not stopped by `cancel()`.
* A refresh whose answer was lost has replaced the token. The device keeps the old
  one (as it must for other failures) and its next refresh is a reuse: refused
  within the grace period, the end of all sessions of the account after it.
* A logout reads its token without the row lock, and the update of a sweep does not
  see a row inserted after it started: a replacement committed while they wait for the
  row stays valid on the server. The device does not keep it (`LogoutIsFinal`). The
  same holds for the reuse of a replaced token: a rotation that has the lock when
  `revoke_all_for_user` starts leaves a live session behind, where
  `auth/service.py:152` says that "neither thief nor victim keeps a session".
  `EndedTokensBuyNothing` says what remains true: once the update is done, none of the
  tokens it covered is exchanged any more.

* Replayed instants go backwards and `register_active_day` (`streaks/logic.py:36`)
  does not expect it: with `MaxSkew > 0` `StreakIsRun` fails.
* Two processes that debrief one session both call the LLM; the second save replaces
  the first one's row and moves the level a second step, where `debrief/service.py:80`
  says the loser returns the winner's row.
* An estimate that is not a level becomes A1 in `analyzer.py:107` before
  `next_cefr_level` sees it, so it moves the learner down; `cefr.py:14` says it leaves
  the level unchanged (`MalformedMovesNobody`).
* `profile.update` of a placement starts with a first touch that commits, and with it
  the level flushed before; a failure after that leaves what `onboarding/service.py:88`
  rules out (`NoHalfPlacement`).
* An erasure promises to leave no voice trace behind (`voice_data/service.py:10`,
  `NoVoiceTrace`), but it holds back only what refers to a session. A mission being
  compiled and a level being placed are stored after an LLM, with no lock and no look
  at the user's data; the enrichment of a saved debrief stores review items and
  events, as a surprise transfer stores its event; and a turn saved before the erasure
  writes its reply under its key if the same key is claimed again in between, which
  `claim` allows before the session is looked up. `SpeechErased` names these rows, and
  admits each only from a request in flight at the commit.
* `persist_turn` upserts the transcript before `record_turn_activity` locks the user,
  and the erasure locks the user before it deletes transcripts: the two can wait for
  each other until PostgreSQL ends one (`NoEraseDeadlock`;
  `voice_data/repository.py:161`).
* The in-memory limiter prunes only the key it checks; at capacity it evicts the key
  inserted first, live or not (the callers in `forgotten`).
* A debrief that waits for the in-process lock holds its connection: with enough
  waiters the pool is empty and the holder cannot get one to save with, until the pool
  times out; `debrief/service.py:79` says the pool is not starved. Uploads are
  received with a connection held.
* A reset token issued while a password change is under way survives it, because the
  column did not differ from the loaded row; two resets with one token may both
  succeed; a login that verified the old password may insert its token after the
  sweep.
* The warm-up of the LLM asks for `max_tokens=1`, which is another configuration and
  another client: the first turn does not reuse the connection it opened
  (`main.py:73`). Dependencies run in threads, so one client may be built twice
  (`http_lifecycle.py:29`); both are closed at shutdown.
* `compare_words` splits what was heard at hyphens and joins the target's words, so a
  hyphenated word is never heard, while `score_words` gives it a full score
  (`scorer.py:4`). `FairVerdicts` compares the two on the others, where they differ only
  on a word given with probability 0: it was heard, and scores like a missed one.
* Equal phonemes in a row need a frame between them. Without it no alignment is legal
  and the back pointers run through Python's index -1: phonemes other than the
  trailing ones (`gop.py:31`) get no frames.

## 4. What is proved

For every value of the constants: any number of requests, keys, sessions, learners,
tokens, rows, processes and providers, every cap, page size, timeout, calendar and
clock bound.

| Module | Theorem | Statement | Assumes |
|---|---|---|---|
| `TurnPipelineProofs` | `TypeCorrect` | `Spec => []TypeOK` | |
| | `ReleaseIsSafe` | `Spec => []FreedClaimsHadNoEffect` | |
| | `Serialisation` | `Spec => []TurnsSerialised` | `~Overrun` |
| | `OneOwner` | `Spec => []ClaimHasOneOwner` | `~Overrun` |
| | `Refinement` | `Spec => ImplementsTurnLog` | `~Overrun` |
| | `ReplyTypeCorrect` | `ReplySpec => []ReplyTypeOK` | |
| | `ReplyStaysOneAnswer` | `ReplySpec => []ReplyIsOneAnswer` | |
| | `VoiceKeepsUp` | `ReplySpec => []VoiceFollowsText` | |
| `SessionMeteringProofs` | `TypeCorrect` | `Spec => []TypeOK` | |
| | `OneActive` | `Spec => []OneActiveSession` | |
| | `EndedFinal` | `Spec => EndedIsFinal` | |
| | `BilledOnce` | `Spec => []NoIntervalBilledTwice` | `MaxSkew = 0` |
| | `StreakExact` | `Spec => []StreakIsRun` | `MaxSkew = 0` |
| | `QuotaExactAlone` | `MeteringSpec => []QuotaIsExactAlone` | `MaxSkew = 0` |
| `DeviceTokensProofs` | `TypeCorrect` | `Spec => []TypeOK` | |
| | `RotationIsSingleUse` | `Spec => []SingleUse` | |
| | `LogoutFinal` | `Spec => []LogoutIsFinal` | |
| | `NoCauselessClear` | `Spec => ClearedForAReason` | |
| | `EndedTokensStayBarren` | `Spec => EndedTokensBuyNothing` | |
| | `TokensStayOwn` | `Spec => []TokensAreOwn` | |
| `OfflineReplayProofs` | `ReplayInvariant`, `ReplayTypeCorrect` | `Spec => []ReplayInv`, `Spec => []TypeOK` | |
| | `QueuesAreOwn` | `Spec => []OnlyOwnTurnsQueued` | |
| | `QueuedTurnsAreKept` | `Spec => []QueuedUntilSettled` | |
| | `ReplayKeepsOrder` | `Spec => []ReplayInOrder` | |
| `LearnerProofs` | `ReviewTypeCorrect`, `DebriefTypeCorrect` | the type invariants | |
| | `MasteryIsEarned` | `ReviewSpec => []MasteredAfterLadder` | |
| | `NothingIsForgotten` | `ReviewSpec => []ComesBackWithinAWeek` | |
| | `SessionsAreAtomic` | `ReviewSpec => NoLostAdvance` | |
| | `ReviewImplementsLedger` | `ReviewSpec => LedgerSpec` | |
| | `LevelMovedOnce` | `DebriefSpec => []PromotedOnce` | |
| | `LevelFollowsPractice` | `DebriefSpec => []LevelWithinSessions` | |
| | `ActivationIsUnique` | `DebriefSpec => []ActivatedOnce` | |
| | `DebriefsStand` | `DebriefSpec => FirstDebriefStands` | |
| | `DebriefsRecordSessions`, `DebriefsKeepLedger` | `DebriefSpec => ReviewSpec`, `DebriefSpec => LedgerSpec` | |
| | `ReportsStayHonest` | `ReportsSpec => HonestReports` | |
| | `ErasureTypeCorrect`, `ConsentTypeCorrect`, `ExportTypeCorrect` | the type invariants | |
| | `ErasureIsComplete` | `ErasureSpec => []SpeechErased` | |
| | `ConsentsChangeAsAsked` | `ConsentSpec => OnlyAskedForChanges` | |
| | `ExportIsComplete` | `ExportSpec => []ExportComplete` | |
| `PlatformProofs` | `AccountsTypeCorrect`, `LifeTypeCorrect`, `PoolTypeCorrect`, `RateTypeCorrect` | the type invariants | |
| | `CredentialsStayCurrent` | `AccountsSpec => []CredentialsCurrent` | |
| | `ProcessesStayOrderly` | `LifeSpec => []OrderlyProcesses` | |
| | `ConnectionsAreGivenBack` | `PoolSpec => []NoIdleConnection` | |
| | `LimitsHold` | `RateSpec => []LimitHolds` | |
| `MigrationsProofs` | `UpgradesKeepLearners` | `MigrationSpec => UpgradeKeepsLearners` | |
| | `SchemaStaysRevisions` | `MigrationSpec => []SchemaIsRevisions` | |
| `AttemptsProofs` | `VerdictsAreFair` | `AttemptsSpec => []FairVerdicts` | |

The assumptions in the table are needed: with `Overrun` two turns of a session
overlap, and replayed turns refute `StreakIsRun`, bill an interval twice and charge a
day that is over. Besides
them a proof uses only the named `ASSUME` of the module it is about. These say that a
bound is a number (positive where the code divides by it, waits for it or counts down
from it), that a value meaning "nobody" is not a request, and that a sample has the
shape its model reads: `DebriefAssumption` that there is a session and that the
sessions with speech are finite in number, `ErasureAssumption` that there is something
said, some of it in sessions, and that the value for nobody is no request, `ReplyAssumption` that an answer is a finite sequence of the kinds of tokens
the splitter tells apart, `RateAssumption` that there is a proxy, that the proxies
form a sequence and that what is no address is not a caller's, `AttemptsAssumption` that
words are sequences of tokens, a probability a number or unknown, and that the frames
of a recording have one alphabet with the blank in it and a whole log-probability for
each of its symbols. `ReportsAssumption`
says that a session with a higher id did not start earlier: `start` gives a session its
`started_at` and inserts it under the lock on the user's row (`sessions/service.py`,
118 to 174), so the starts of a learner are serialised. It takes the server's clock not
to run backwards between two starts of one learner. What `PromotedOnce`, `LevelWithinSessions` and
`FirstDebriefStands` say of one process, and `TokensAreOwn` of logins that were not
cut off between their two writes, is part of the properties.

*TurnPipeline.* `TurnsSerialised` is not inductive: it says nothing about the lock
row. The inductive invariant adds that a request in its critical section is the
claimant of a live lock row (`LockIsHeld`), likewise for keys (`KeyIsHeld`), that a
request before its commit has saved nothing (`NothingSaved`), and that the base of a
request that may still save is the transcript as it is now (`BaseIsCurrent`).
The last one follows from serialisation and turns the save of a remembered base
into `TurnLog`'s append to the current transcript. `FreedClaimsHadNoEffect` needs
only `NothingSaved` and holds even for turns that overrun.

*SessionMetering.* The invariant of `BilledOnce` adds that start, last activity and
the clock are ordered, and that a turn between its read and its lock is the only
one of its session, with a charge that is still the one it would compute now
unless the session has ended, in which case it is dropped. The streak adds that no
active day lies after the last one, nor the last one after a turn in flight.
`QuotaIsExactAlone` needs, as long as no two requests have overlapped (`AloneInv`),
that the quota columns a request has loaded are still those of the row, that no day
after the quota's has been charged, and that the quota's day is not after the instant
a request will bill.

*DeviceTokens.* On the server `SingleUse` needs that a row about to be replaced is
unrevoked and locked by one request only, that rows are updated only if they existed
when the request looked, and that a token not yet generated has no row (`RowsLocked`,
`RowsExist`). On the device `LogoutIsFinal` needs that whoever is between the two
writes of the storage has the mutex (`MutexHeld`), that a logout between its two
deletes has cut off the refresh before it, and that a refresh which saves still has
its generation (`CutOff`). `ClearedForAReason` adds that a refresh whose generation
is unchanged has sent the token that is still stored, because a login starts only
after a logout or a restart has ended every such refresh (`OwnToken`).

`EndedTokensBuyNothing` rests on `RowsLocked` too: between the comparison and the
replacement nobody else can have revoked the row. `TokensAreOwn` needs a second
invariant over the first, `OwnInv`: a rotation is for the account of its token
(`RowsOwned`); a request in flight was made by the refresh or the login that
waits for it, and answers with a token of the same account (`Served`); what is stored,
or about to be, has a row of the account it is stored for (`Stored`); and unless a
login was torn, stored tokens, the learner shown and a refresh that no logout has cut
off are one learner's (`OneLearner`).

*OfflineReplay.* No property of the queue is inductive, because what will be written
is decided when an operation joins the chain and not when it runs. `ReplayInv` says
of the chain that an enqueue in it belongs to the login that still lasts
(`EnqueueInv`), that the purge of a logout stands behind all of them (`PurgeInv`) and
that the replay waits for one operation only (`SyncCallInv`); of the queue that it
holds a turn once (`QueueInv`); of the replay that whatever stands before a turn it
has still to send is settled or comes first in its list (`OrderInv`).

*Review and Debrief.* `LockInv` says that a worker that has the advisory lock computes
with the rows as they are: this makes a commit an advance of the current schedule, and
with it the refinement of `ReviewLedger`. `LadderInv` ties streak and due date of an
item to the days on which it was practised since its last error. A debrief leaves
`Review`'s variables alone except through `Review`'s actions, so `DebriefSpec`
implements `ReviewSpec`, hence the ledger. `PromotedOnce` needs that two requests of a
process do not own one session (`OwnedInv`) and that a drafted session has no row yet
(`DraftInv`); `LevelWithinSessions` needs the same bound for the copies of the level
that requests have loaded (`LevelInv`).

*Voice data.* `SpeechErased` needs that the purge has the user's row from its first
statement on (`EraserInv`), that no request adds a row behind the statement that has
deleted its kind, although the later ones are still to come (`GoneInv`), and that a transcript being written keeps
its session from deletion (`TurnAlone`, `UpsertHolds`): at the commit nothing of
before it is left. `LateInv` follows what comes after: whatever a request past that
commit can still store of a talk it covered is in `late`, which was taken from the
requests in flight then, or, for a reply, when its key was claimed again. For the consents, a request
past its read has a row to update. The export needs that the cursor is the last row
sent, that what is in hand lies after it in order (`CursorInv`), and that a row there
since the beginning is sent, in hand, or after all that was read and then a page
follows (`SeenInv`). The order of the keys, with ties of the instant broken by the
identifier, is lemma `KeyOrder`.

*Accounts.* The rows alone are not enough: a request works on a copy. `CopyAged` says
that since it loaded the row the reset token has stayed, was used up, or is one issued
later; `RowsCurrent` that no row has a dead reset token and that its flag is the one
the administrators set.

*ProcessLife.* `OrderlyProcesses` needs that threads work only while the process runs
(`ThreadsOrderly`); that a cached provider names a client that was built, an open
client is registered and none is closed before the shutdown (`ClientsOrderly`); that
the purge loop is gone before clients are closed (`SweeperOrderly`); and that the lock
expires when the interval since it was taken is over (`LockOrderly`). The recency order
of the cache is by index (`MovedToEnd`), which is what lets its elements be followed.

*ConnectionPool.* `PoolInv` says of what is left of a call, and of what an exception
would leave, that a connection checked out is given back before the next wait and that
nothing is read behind a rollback (`Planned`); and that what the call holds now is given
back before its next wait (`GivesBack`). The first is a fact about each of the fifteen
routes, proved of its steps by index. The connections are a set, so that a step changes
their number by at most one.

*RateLimit.* Of the sliding window `BucketInv` says that the calls granted to a key have
hits of their own in its bucket (`Matched`, an injection); a popped hit is out of the
window, so the calls in it keep theirs, and the bucket's length bounds them. `OrderInv`
says that the order of insertion has each key of the dict once. Of Redis `WindowInv`
says that there is one counter for a key and a window, that it outlives its window, and
that it counts at least what was granted in it; any `Window` seconds lie in two fixed
windows. Lemma `KeyIsCaller` is that the key does not depend on the headers.

*ReplyStream.* `CuttingInv` relates what was yielded to the text read so far, wherever
the network cut it: the sentences join up, they end at the sentence ends of the whole
text up to the last cut, and no further end is in the buffer except at its very end,
where the next token decides. `ReplyIsOneAnswer` then follows
because the cuts of a text are determined by its ends (`SentencesUnique`), which rests
on the ascending sequence of a finite set being unique (`AscendingUnique`). `VoicesInv`
says which clip is pending, that those before it were sent, and that no other is
running; `StageInv` what each stage of the consumer has done.

*Migrations.* `Keeps` says what a run of operations must have kept of the rows at its
beginning; beside what the property asks it says that sessions are only closed and
activations only deleted, without which `CloseExtras` could not be followed by another
operation. There is a lemma for each kind of operation an upgrade uses (`AppliedKeeps`
and those under it), and `RevisionsAreScripts` that the upgrades of the 27 revisions use
no other. Both runs, of a script's operations and of a command's scripts, are recursive
functions; that they exist (`RunExists`, `ChainExists`) and what they keep
(`RunOpsInOrder`, `RunScriptsInOrder`) is shown by set induction: the set of the places
up to which it holds is an initial segment (`UpTo`), since otherwise it would have a
least place missing (`LeastNumber`).

`MigrationInv` says that the schema is the one of the revision (`SchemaOf`), that a
refused upgrade stands below the revision that makes e-mails lower case, with two accounts
whose e-mails it would make one, and a refused downgrade at or above the one that drops the room name,
with sessions stored. `SchemaOf` is written per table, as what each revision has
added to it and taken away, and not with the scripts: that a script leads from one to the
next is what is proved. `Does` describes what an operation does to schema and rows and
when it raises, with a lemma for each kind of operation, and `Leads` what a script does.
For each of the 27 revisions there is a lemma (`Turning_` and its number) that its upgrade
leads from the schema before it to the one after, and its downgrade back to the last
index, which operations may raise, and that nothing else does. A command is a chain of
such scripts (`UpgradeReaches`, `DowngradeReaches`), and one that raises leaves the
database as it was. `SchemaAtIs` says that the schema the property names, the one the
upgrades build from nothing, is `SchemaOf`; `ModelsAreDeclared` that at the head it is
`Metadata`, name by name.

*Reports.* `ReportsInv` adds that a baseline in hand is of a session that is still
stored or was erased, so that the latest session is later than it in either case. The
orders are by rank: in a finite set with a strict total order every place is taken once
(`EveryPlaceIsTaken`), from which `OrderedIs` and `RecurringIs` follow. That a proof which
finds no type worse cannot belong to a session that is worse on the whole is the sum of
the comparisons over the types (`RatesAddUp`), again by set induction, over an
enumeration of the types.

*Attempts and Alignment.* `AttemptInv` says that a verdict is that of the transcript and
the scores those of the recording; the rest is about the operators. The words: what is
left of a form after k words is what there was less how often it came, in either
matcher; the words of a form and its tokens are equally many where no word has a hyphen.
The alignment: a path through the trellis starts in one of its first two cells and goes
on from predecessor to cell. No path is better than the cell it ends in
(`PathsAreBelow`), and the back pointers are a path as good as the end cell
(`BackPointersArePath`). The labels of a path that ends in one of the last two cells
collapse to the phonemes (`PathsAreLabellings`), every labelling that does is that of a
path (`LabellingsArePaths`), and a path ascends, so that the frames of a phoneme are its
span and the spans give the labelling back (`SpansAre`). The recursive functions
(`Trellis`, `Backtracked`, `Collapsed`, `Likelihood`, `Known`, `Spoken` and the two
matchers) exist and carry what their step keeps by `Recursion` and `Carries`, the set
induction of `UpTo` again. A recording too short for its phonemes is excepted by the
property itself: where no labelling is legal there is no best one.

The inductive invariants were checked with TLC on the instances of section 3 before
they were proved.

Only model-checked, and why:

* `NeverWedged`, `QueueDrains`, `RefreshEnds`: liveness under fairness is out of the
  prover's reach.

Every other property of a passing run is a theorem.

## 5. Plan

Done: the turn, metering and token modules, `OfflineReplay`, the learning and the voice
data modules, `Accounts`, `ProcessLife`, `ReplyStream`, `ConnectionPool`, `RateLimit`,
`Migrations`, `Reports`, `Attempts` and `Alignment`, checked and proved.

1. `VoiceLoop`: the mobile conversation loop. Microphone, stream, reply playback,
   push to talk and their cancellation: the microphone and the player are never open
   together, a cancelled turn plays nothing, a turn ends.

## 6. What is not modelled

* The mobile conversation loop, its audio and the screens: planned (`VoiceLoop`),
  respectively rendering without state of its own.
* The clips in the speech cache: a clip is a function of its text and voice, so a hit
  and a miss differ in time only. The life of the cache's client is in `ProcessLife`,
  the order of clips in `ReplyStream`.
* The acoustic model, the phonemizer and the decoding of audio: numerical libraries.
  The gate of the pronunciation service is one semaphore around a worker thread.
* The mapping of errors to HTTP, the limit on request bodies, configuration, logging
  and metrics: they change no state that a property is about.
* The wording of prompts, replies, corrections, missions and tips, and lists that are
  read from one table (session history, vocabulary, missions, the catalogue of pairs).
* Isolation anomalies of PostgreSQL beyond what single statements, row locks and
  foreign keys show: the code runs one statement or one locked section per step. A
  commit whose acknowledgement is lost is not distinguished from one that failed.
