# NoRush: a TLA+ model, checked and proved

NoRush is a deferred gateway to LLM batch APIs. Users enqueue single requests
over HTTP; a worker packs them into batches, submits the batches to a provider,
polls them, ingests the results and delivers each one to a webhook. All state
that must survive is in PostgreSQL; everything else is the memory of one
Node.js worker process, and of one web process, whose loops interleave at every
`await`.

Paths below are relative to `src/packages/core/src/` unless they start with
`src/` or `web/`; `web/` stands for `src/packages/web/src/`.

## 1. Inventory

| Component | State it keeps | Operations | Talks to | Correct if |
| --- | --- | --- | --- | --- |
| Store (`store/postgres.ts`, `migrations/`) | the tables | one or two SQL statements per method | every component | a scrub cut in half is completed |
| In-memory store (`store/memory.ts`) | the same tables as maps | the same interface | tests | it holds and answers what the database would |
| Request queue (`engine/queue.ts`) | counters since the last flush, `flushing`, a timer | `enqueue`, `flush`, `tick`, `stop` | store, batch manager | no waiting request is missing in the counters |
| Batch manager (`engine/batch-manager.ts`) | `flushing` | lifecycle gate, grouping, splitting, write-before-submit; failover over keys | store, provider, key selector | a request is in one place, and paid for as often as its row says |
| Orphan recovery (`engine/orphan-recovery.ts`) | batches being recovered | `recover`, `resubmit`, `markOrphanFailed` | store, provider | a lost submission is repeated, a known one never |
| Status tracker (`engine/status-tracker.ts`, `polling/`) | `ticking`, poll states, listeners | `tick`, `checkBatch`, events | recovery, store, provider, breaker | ended jobs are found in time; batches only move forward |
| Circuit breaker (`engine/circuit-breaker.ts`) | state, consecutive failures | `recordSuccess`, `recordFailure`, `canSubmit` | the tracker reports to it | a cooldown is not cut short |
| Result ingester (`engine/result-ingester.ts`) | none | `ingest` a batch result by result | store, provider | a success has its result |
| Repackager (`engine/repackager.ts`) | none | `repackage` failed and expired requests | store | a success is final, retries stay in their budget |
| Wiring (`norush.ts`, `worker.ts`) | event handlers | `start`, `stop`, `tick` | all of the above | every request settles |
| Delivery worker (`engine/delivery-worker.ts`, `webhooks/`) | `ticking`, callbacks | callbacks, webhook, backoff, giving up | store, webhook targets | delivered means received; every result is decided |
| Retention worker (`engine/retention-worker.ts`) | `sweeping` | scrub by age, by policy, by acknowledgement | store | nothing overdue survives a sweep, nothing waiting for its receipt is scrubbed |
| Rate limiter (`rate-limit/`, `web/routes/api/v1/requests`) | `user_limits` | check, reset, consume, enqueue | store, queue | the quota holds over concurrent calls |
| Provider adapters (`providers/`) | flex: an in-memory result cache | `submitBatch`, `checkStatus`, `fetchResults` | provider APIs | a batch reported as ended has its results |
| Retry and redeliver endpoints (`web/routes/api/v1/requests/[id]`) | none | one UPDATE each, from the web process | store | they race the worker without harm |
| Key vault and rotation (`crypto/`, `cli/rotate-key.ts`, `web/lib/server/api-keys.ts`) | `user_api_keys` | encrypt, rotate, add, delete | store | all keys are under one master key |
| Provider catalog (`web/lib/server/catalog*`) | `provider_catalog` | refresh at the start, hourly and on demand | store, the gate of the flush | rows are what a page said, and in the end what it says |
| Migrations and start (`store/migrate.ts`, `web/lib/server/norush.ts`) | `schema_migrations`, the promise of the first start | migrate under a lock | database | each file runs once, before its release is ready |
| Configuration, pricing, signing, telemetry, authentication, dashboard | - | - | - | not modelled, section 7 |

What is hard here:

* **Snapshots across awaits.** The flush, recovery, polling, repackaging,
  delivery, sweeps, limit checks and key rotation all read rows once and act on
  them after other awaits.
* **Write-before-submit.** A batch is four writes and one provider call. A crash,
  an exception or a slow answer can fall between any two of them, and recovery
  must neither lose a batch nor submit it without bound.
* **Unawaited handlers.** The handlers of ended and expired batches run beside
  the flush and the tick and share their rows.
* **A single chance.** A terminal status is stored before its event is emitted,
  so what the event starts has no second trigger.
* **Windows.** The flush and the delivery tick read the oldest N rows; rows that
  can never leave the window block it.
* **Two of everything.** Two processes migrate, two stores implement one
  interface, several refreshes write one catalog, several calls share one quota.

`PROJECT.json` lists the hazards with their lines, also those that no property
covers.

## 2. The modules

The engine:

| Module | Models | Remarks |
| --- | --- | --- |
| `NorushStore` | the tables the engine uses and the SQL statements on them; what the provider was asked to do | ids are ULIDs, so row order is the order of the ids; `calls` and `jobs` are history |
| `BatchManager` | one flush on the path `createNorush` wires | one action per await; `fpc` says which is pending |
| `OrphanRecovery` | the recovery half of a tick | `tRows` is the snapshot it keeps using |
| `ResultPipeline` | ingestion, expiry and repackaging, one handler per batch | `hRows` holds the retry counts as they were read |
| `StatusTracker` | the polling half of a tick and the events | extends the two above; when a poll is due is left open here and is the subject of `Polling` |
| `Engine` | the worker: flush, tick and handlers interleaved with the API, the catalog, the clock and crashes; the properties | extends all of the above; `ImplementsLifecycle` maps it to the next module |
| `RequestLifecycle` | abstract: what PLAN.md promises of a request | no batches, threads or failures |
| `KeyFailover` | the other path of the flush, with a `KeyResolver`: keys in order of priority, a batch per key | extends `OrphanRecovery`, which runs beside it |
| `PollStrategies`, `CircuitBreaker`, `FlexAdapter` | the presets and their clamp; the breaker as functions of its record; the synchronous adapter and its cache | |
| `Polling` | the tracker as a schedule over these three | time in units of 15 seconds |

The rest of the system:

| Module | Models | Remarks |
| --- | --- | --- |
| `DeliveryWorker` | the delivery tick with the ingester, the clock, the redeliver endpoint and crashes | shares with `Engine` only the results table, which the ingester adds to (`Persist`, `Succeed`) |
| `RetentionWorker` | the sweeps, beside the delivery worker | extends it; an UPDATE is an action, any of them may fail |
| `RequestQueue` | the queue's counters, triggers and flush snapshot | the waiting rows are a set, their order of creation a relation (`older`) |
| `Admission` | concurrent calls of `POST /api/v1/requests` and of the chat: limits, then the queue | extends `RequestQueue` |
| `StoreRows` | the rows both stores keep | a database is a record of tables; `user_api_keys` is not of it, since only one store has it |
| `MemoryStore`, `PostgresStore` | each method of the two stores as a function from database to database, with what it returns | no variables |
| `StoreAgreement` | the callers of the interface, making each call to both stores, and the pages that add and delete keys | the calls on which the stores part end a behaviour |
| `Startup` | migrations and the start of the processes | |
| `KeyRotation` | `rotateKeys` beside the pages that add and delete keys | a blob is the key it was encrypted under |
| `CatalogRefresh` | the refreshes, the parsers, the upserts | a page is the sequence of its lines; a row's key is provider and model, as in the table |
| `Upkeep` | the three together: the web process starts, begins its refreshes, and learns of a new key by a restart | |

`MCEngine`, `MCFailover`, `MCPolling`, `MCDelivery`, `MCAdmission`, `MCStores` and
`MCUpkeep` are the instances for TLC; `MCEngine` and `MCAdmission` also hold the
statements of documents that the code refutes. `EngineProofs` and, on top of it,
`RequestProofs` hold the theorems about the engine; `FailoverProofs`,
`PollingProofs`, `DeliveryProofs` (deliveries and sweeps), `AdmissionProofs`,
`StoreProofs` and `UpkeepProofs` those about the other parts.

How state corresponds: in the engine, `reqStatus`, `reqBatch`, `retryCount` are
columns of `requests`; `batStatus`, `batRef`, `attempts` of `batches`; `aged` says
that `updated_at` is older than the grace period; `result` is the row of `results`
of a request. `batRef[b]` is the provider's id as the set of requests in that job,
so that overwriting one reference by another is visible. Variables with the
prefixes `f`, `k`, `t`, `h`, `w`, `s` and `r` are the local variables of the flush,
the failover flush, a tick, the handlers, the delivery worker, a sweep and a
rotation; a crash resets exactly these. In `Admission`, `call[c]` is the local state
of one HTTP call; in `Polling`, `poll` is the tracker's map `pollStates`, and `job`
the state of a job in OpenAI's own words, which `MapStatus` translates.

A step ends where the code awaits. Two awaits are joined only where nothing the
other threads can change lies between them: the catalog lookups of the flush with
its read (a group is looked up once per flush).

What is abstracted:

* byte sizes: in the engine `Oversized` names the requests that exceed the limit
  alone, and `ChunkLimit` bounds a chunk by count; the queue counts real sizes;
* adapter lookup: `Unserved` names the groups without an adapter; a batch that
  was submitted keeps an adapter;
* the recovery claim set: one tracker runs and `ticking` excludes a second scan;
* usage counters inside the ingester (they arrive at the limits as `Ingest`,
  which may lose an increment, as the code may) and telemetry;
* columns that no query or update reads (`StoreRows` says which are kept;
  `updated_at`, which both stores set on every write, is one), and of catalog rows
  dates and replacements;
* in the two stores: sums of floats are exact, and an amount is a number of quarter
  cents; rows made in the same millisecond are in no order; labels compare as
  numbers, so the collation of the database and `localeCompare` are one; the rows of
  `users` exist; INTEGER and NUMERIC do not overflow;
* callbacks and the webhook of a result are one target of its delivery; one table of
  known prices serves both providers; all rotations share `--old-key`;
* the delivery branch for a result without a request: rows are never deleted;
* `stop()`: its final flush is a flush, and what the process abandons afterwards
  is a `Crash`.

Bounds, all named: `Requests`, `Batches` (ids that may be created), `MaxFaults`,
`MaxCrashes`, `MaxUserRetries`, `MaxRedeliveries`, `MaxLimited`, `MaxTime`,
`MaxTokens`, `MaxOrphans`, `MaxRestarts`, `MaxTrouble`, `MaxLateRows`,
`MaxUpstream`, `MaxAge`, `MaxCount`, `MaxSpend`; one handler per batch at a time in
`ResultPipeline`.

## 3. Environment and fairness

Faults are the ones the code has a place for: a provider call that throws without
or with a job created (`rejected`, `timed_out`), a database call that throws
(`store`), one of a handler (`ingest`), a broken result stream (`stream`), a late
webhook answer (`late`), a failed event log entry (`log`), a rate limit
(`FlushLimited`), a failed check or update of the tracker, a failed statement of a
start, a failed fetch or upsert of a refresh. The provider returns one result per
request of a job, as the adapters do.

`Age` lets the grace period pass for a pending batch. The default is minutes and a
flush holds a batch for one provider call, so a batch in the hands of the flush
stays young, unless `SlowSubmit` is TRUE: then the call may outlast the grace
period and recovery may submit the same batch. PLAN.md (555-558) accepts double
submission in that case, and indeed `PaidOnce`, `AssignmentMatchesStatus`,
`SuccessIsFinal`, `BatchMovesForward`, `KnownJobNotResubmitted` and
`ImplementsLifecycle` are stated, and proved, for `SlowSubmit = FALSE`, which all
runs use. For both values the theorems of section 5 give `TypeOK`,
`InFlightHasRef`, `SubmissionsCounted`, `SubmissionInv`, `SucceededHasResult` and
`WaitingIsInJob`.

Fairness of the engine: the flush, the tick and each handler take their next step
(`WF`), because timers refire (`setInterval` in `queue.start`,
`statusTracker.start`, `deliveryWorker.start`) and awaited calls return; time
passes (`WF` of `Age` and `BecomeDue`). That a poll eventually sees the end of a
provider job is strong fairness (`SF` of `PollSeesEnd`): the poll of a batch is
possible again and again, not continuously, poll intervals are bounded
(`FoundInTime`: the longest interval, plus an interval and a tick for each fault
and a tick for each restart), and providers end every job within a day. Nothing is
assumed of users, faults, crashes or the catalog.

Fairness of `Upkeep`: a process that is down is started by its platform and its
statements return (`WF` of `Start`), the refresh timer fires and its steps end, and
a refresh of the start or the admin that has begun ends. That the web process
stays up and its pages stop changing is no assumption but the premise of
`CatalogCatchesUp`; failed fetches stop because they are bounded.

## 4. What the runs check

Each MC module restricts its instance to the behaviours its questions are about;
the last column says how.

| Run | Instance | Shows | Restricted to |
| --- | --- | --- | --- |
| `engine` | 2 requests, 3 batches, 1 retry, 2 attempts; jobs end, expire or fail | `InFlightHasRef`, `SubmissionsCounted`, `WaitingIsInJob`, `AssignmentMatchesStatus`, `PaidOnce`, `SucceededHasResult`; that successes, batch statuses and known jobs are never taken back; `ImplementsLifecycle`: every step of every thread is a step of `RequestLifecycle` or none; `SubmissionInv`, the inductive invariant | at most one crash or one failing call, at any await (`OneTrouble`) |
| `settles` | 1 request, 4 batches, 1 retry, 1 lost answer and 1 crash | `EveryRequestSettles` | crashes outside the result handlers |
| `engine_limits` | 3 requests of 3 groups, a window of 2, a retirable model, an oversized request, a user's retry | the window still drains, and a user's retry never puts a request in two places | no faults |
| `failover` | 2 requests, 3 keys of which one serves no failover, 1 fault, 1 crash, 2 rate limits | `FlushSubmitsFresh`, `ClosedBatchIsEmpty`, `FailoverLeavesNothing` | the first key is revoked or restored before requests arrive |
| `schedule` | 2 jobs and a Flex batch, 5 strategies of which one is unknown, 1 fault, 2 restarts, 1 orphan, 11 ticks | `FoundInTime`, `CooldownHolds`, `EndedHasResults` | either the Flex batch while the jobs stand still, or the jobs; only the first batch varies over all strategies; the second ends early |
| `delivery` | 2 results of 2 users, 2 attempts, 1 fault, 1 crash, 1 redelivery, 4 policies, 3 days | `DeliveredWasReceived`, `SentWithinBudget`, `DeliveredOnce`, `DeliveredIsFinal`, `EveryResultIsDecided`; `AckWaitsForReceipt`, `SweepLeavesNothingOverdue` | either deliveries with every trouble, or sweeps with one failure or one redelivery |
| `admission` | 2 calls of 1 or 2 items, 1 chat request, 2 settings, 5 windows, 2 periods | `QuotaHolds`, `MinimumThroughput`, `WaitingIsCounted` | either a user with limits, or the queue of a user without |
| `stores` | 2 requests of 2 users, 3 models of 2 providers, 1 batch, 2 keys of one user, costs and limits of a quarter, half and whole cent, 2 points of time | `RowsAgree`, `AnswersAgree`, `ScrubCompletes`, until a call on which the stores are known to part | one of content, limits and catalog; the second request goes the straight way and the second user is not charged, or one event is logged; one key beside requests |
| `upkeep` | 2 processes of two releases, 3 keys, 2 rotations with pages of 1 row, 2 versions of each page, 1 failure and 1 restart each | `MigratedOnce`, `RowsShareAKey`, `ClaudeRowsWerePublished`, `CatalogCatchesUp` | one of starts, refreshes and rotations, which meet only when the web process starts or stops |

Why these bounds are enough: two requests share a batch or not, and may be split
by a partial revert; three batches allow a first submission, a retry and a batch
orphaned in between; one crash or fault at every await covers each gap of the
write-before-submit protocol, and `settles` combines one of each. `MaxRetries` is
1, so a request meets both sides of the budget; in `delivery` two attempts let a
retry, the last attempt and a redelivery meet. In `failover` three keys include
one to try first, one to pass over and one to fail over to. In `schedule` the
clock runs well past twice the longest interval and a tick, and two restarts show
that each of them costs a tick: one alone does not. In `admission` two calls are
enough for one to act on a row the other has made stale. In `upkeep` pages of one
row let other transactions in between any two rows. What the restrictions leave
out are combinations of parts that share no state, or that meet at a step both
restrictions still allow.

The restrictions are conjuncts of the next-state relation and never of a
property. Where liveness is checked, fairness is stated for the restricted
actions (`MCDelivery`, `MCUpkeep`), and no restriction blocks one of them for ever
before its property is decided.

Deadlock is checked for the engine (with `OneTrouble` an idle worker can still
flush and tick) and for deliveries; the other instances do stop, at the end of
their clock or when every call has been made.

Two limits of the liveness checks: `EveryRequestSettles` is checked with crashes
and faults outside the result handlers, because the code does not recover from
those inside (`lost_ingestion`); and `EveryResultIsDecided` with a window that
holds all undelivered results, because otherwise it does not hold (see below).
In `engine_limits` one oversized request is in the window, which still leaves room
for another. Type invariants are properties of a run for the engine and the
delivery worker; those of the other modules are part of the inductive invariants
of section 5.

### Where documents and code disagree

Each of these runs checks one statement of the repository, and TLC refutes it.

| Run | Statement | What happens |
| --- | --- | --- |
| `lost_ingestion` | `norush.ts:236-239`: lost ingestion is triggered again by the next tick | an `ended` batch is not read by `getInFlightBatches`; its requests stay `batched` |
| `retried_success` | PLAN.md:566: the result of a success is ingested | the failed attempt's row is UNIQUE per request, the good result is dropped as a duplicate |
| `expired_tokens` | `rate-limit/limiter.ts:40-43`: on `periodExpired` the caller must reset the period | the endpoint resets it only for users with a request limit; with a token limit alone the counters grow for ever |

Others were met while modelling and have no run:

* Requests of an orphan that used up its attempts become `failed`; PLAN.md:552-553
  says their user can submit them again, but the retry endpoint takes only
  `failed_final`.
* A redelivery asked for while a tick works from an old row is overwritten by that
  tick (`delivery-worker.ts:297`).
* Results that used up their attempts stay in the window of
  `getUndeliveredResults` and hide younger ones, for all of PLAN.md:788.
* A delivery between `createResult` and `updateRequest` tells the target `failed`
  with a good response.
* A failing event log entry turns a delivered result into a failed one
  (`delivery-worker.ts:300` is inside the `try`; it is why `DeliveredIsFinal` speaks
  of runs without faults).
* Requests of a cancelled or failed provider job stay `batched`: those events have
  no handler.
* Nothing asks the breaker: `canSubmit` has no caller, although PLAN.md:690 lets it
  pause submissions and `src/docs/architecture.md:81` polling.
* A Flex batch whose results went with the process is polled for ever:
  `openai-flex.ts:133-136` expects the engine to queue its requests again.
* A batch whose polling strategy is no preset aborts every tick at its place; the
  batches behind it are never polled.
* A sweep by age scrubs results that were not delivered yet, or whose request is
  retried later; what the target then gets is the tombstone.
* `web/lib/server/catalog.ts:17-19` never lets a failed refresh overwrite a good row
  with nulls; the OpenAI source answers a failed fetch, and a page that parses to
  nothing, with its seed, and a page without prices writes none.
* A failed first start of the web process is kept as its engine until the process
  is restarted (`web/lib/server/norush.ts`).
* `interfaces/store.ts:182` has `incrementSpend` increment the cumulative spend by
  `amountUsd`. The column is `NUMERIC(10,2)` (`003_user_limits_spend.sql:6`) and the
  ingester increments per result (`result-ingester.ts:272`), so each cost is rounded to
  cents: one under half a cent is never counted, and the hard limit is not reached by
  such requests. `Admission` counts spend in the units that are stored.
* The two stores part, and `StoreAgreement` makes each of these calls too and ends
  there (`parted`):
  * `createBatch` for a key without a row: `batches.api_key_id` references
    `user_api_keys` (`001_initial_schema.sql:69`), so PostgreSQL refuses what the map
    accepts. The flush falls back to the id of the user (`batch-manager.ts:381`) when
    there is no key, so that flush fails in the program and passes in tests;
  * a batch for the key `findApiKeyId` finds: the map always answers null
    (`memory.ts:104-106`), so its batch names the user where PostgreSQL's names the
    key. No query reads that column. This is the path `createNorush` wires; the one
    that names its key is that of the failover, whose `KeyResolver` nothing wires;
  * `incrementSpend` and `upsertUserLimits` with a fraction of a cent, which the
    database rounds (`003_user_limits_spend.sql:6`, `001_initial_schema.sql:29`);
  * a second result of a request, which only the map takes;
  * `scrubDeliveredContent`, where the map scrubs a request whatever its status and
    only along with its result; and a scrub cut in half, which the map cannot be.
* Keys added while a rotation runs may stay under the old master key.
* A call whose enqueue fails answers 500 although some of its requests are stored,
  with its whole quota consumed; a comment in the endpoint accepts it.

## 5. What is proved

TLAPS proves every invariant and every action property that a passing run checks,
for every value of the constants that satisfies the named assumptions of the
modules (ids and limits are natural numbers, caps are positive): any number of
requests, batches, keys, jobs, results, users, calls, processes, releases,
rotations, faults and crashes. The theorems are about `Spec`; the instances of TLC
only restrict its steps, so what is proved of `Spec` holds in them too. Of the
strengthenings below, `SubmissionInv` and `DeliveryInv` are also properties of a run.

`EngineProofs`, for both values of `SlowSubmit`:

* `TypeCorrect`: `Spec => []TypeOK`. This is more than typing: `retryCount` never
  passes `MaxRetries` although the repackager counts from rows it read earlier, and
  `attempts` never passes `MaxAttempts` although recovery does the same. It is
  inductive because the rows a thread holds are typed by the same bounds.
* `InFlightAlwaysHasRef`: the invariant whose violation `status-tracker.ts` reports
  at run time. `SubmissionsAlwaysCounted`: write-before-submit bounds the
  submissions of a batch.
* `SubmissionHolds`: neither of the last two is inductive; the strengthening is
  `SubmissionInv` (`Engine`, last section). The flush holds a batch that exists and
  its requests (`FlushHolds`); until its attempt is written no snapshot of the
  tracker holds that batch, because it is young (`FlushAlone`) and nothing is known
  of a batch before its row (`Unborn`); the tracker's batch exists (`TickHolds`);
  the attempts in a recovery snapshot are still those of the table
  (`SnapshotCurrent`), which is what makes `RecoverAttempt`'s write from a stale row
  harmless; a reference once read is never cleared (`SnapshotRefs`); and each thread
  about to call the provider has an attempt of its own on the row (`TurnsCounted`).
* `SucceededAlwaysHasResult`: the handler that is about to mark a success holds a
  result that is stored (`ResultInHand`); with it the property is inductive
  (`ResultInv`).

`EngineProofs`, for `SlowSubmit = FALSE`:

* `KnownJobNeverResubmitted` and `BatchesMoveForward`, from one invariant more,
  `OwnerInv`: while the flush holds a batch it is pending, without a reference, and
  in no hands of the tracker, because it stays young (`FlushOwns`); the batches
  recovery holds are pending and without a reference, and the rows polling holds
  are current (`TickOwns`); a batch without a row has no reference (`NoRefYet`). The
  assumption is needed: with a slow call both properties are false.

`RequestProofs`, for both values of `SlowSubmit`:

* `WaitingAlwaysInJob`: when two threads submit the same batch, the second
  reference replaces the first, so the property must say of every reference that is
  ever written that it holds all requests of the batch (`JobHoldsBatch`). That needs
  what is about to be submitted to hold them (`SubmitsAll`), and a batch to be empty
  and unsubmitted until its requests are assigned (`EmptyAtFirst`): `JobInv`.

`RequestProofs`, for `SlowSubmit = FALSE`, on top of `OwnerInv`:

* `AssignmentAlwaysMatches`: every thread writes from rows it has read earlier, so
  the strengthening (`RequestInv`) says of each thread what its rows are still good
  for. A request that was taken is in a batch that exists (`Placed`); nothing was
  decided of the requests of a batch that is not over, and the job of a batch in
  flight is exactly the batch (`OpenBatches`); the flush holds queued requests or
  exactly those of its batch (`FlushHand`); recovery holds all requests of its batch,
  and fails only those that still wait (`TickHand`); a handler has the requests it
  has not come to yet to itself (`HandlerHands`).
* `PaidAlwaysOnce`: `PaidInv` counts per request, by what became of it and by who
  holds it: jobs it is in against retries, faults and crashes.
* `LifecycleImplemented`: `Spec => ImplementsLifecycle`. Every step of every thread
  is shown to be a step of `RequestLifecycle` or to leave its phases alone: most
  steps change no phase; a write of a handler or of recovery is matched by what
  `RequestInv` says of the row it replaces.
* `SuccessStaysFinal`: an action property from the same invariant.

`FailoverProofs`:

* `FlushAlwaysSubmitsFresh`, `ClosedBatchAlwaysEmpty`, `FailoverNeverLeavesAny`, from
  `FailoverInv`: the flush has its batch to itself (`FlushHand`), its chunk is queued
  or in that batch and in no job before the provider accepts it (`ChunkPlaced`), the
  orphans of a scan stay as its snapshot shows them (`TickHand`), and until
  something fails the only pending batch is the flush's (`Clean`). `Rows` says what
  the tables alone show.

`PollingProofs`:

* `AlwaysFoundInTime`, from `ScheduleInv`: of each ended job not found yet, the time
  from its end to its last poll is bounded by what faults and restarts have cost so
  far (`Cost`), and the time since its end by one longest interval more, and a tick
  while its turn is to come (`OnTime`). That holds for every strategy, because the
  clamp bounds every interval by `MaxInterval`.
* `EndedAlwaysHasResults`: a batch in the Flex adapter's cache has all of its results
  (`FlexInv`). `CooldownAlwaysHolds`: from the type of the breaker's record
  (`BreakerInv`), whatever successes and failures are reported.

`DeliveryProofs`:

* `DeliveryTypeCorrect`: among others `delivery_attempts` never passes its cap.
  Here typing is not inductive alone: the count is written from a snapshot, so
  `SnapshotAbove` (the snapshot shows at least what the table shows, and less than
  the cap) is needed, and `DeliveryTypeOK /\ DeliveryInv` are proved together;
  `DeliveryHolds` is the second half.
* `DeliveredAlwaysReceived`: `markDelivered` only follows a taken delivery
  (`MarkAfterDelivery`). `DeliveredStaysDelivered` is an action property.
* `SentAlwaysWithinBudget` and `DeliveredAtMostOnce`: calls of a target are bounded by
  the cap plus crashes and faults, and so are the deliveries it took by one plus
  redeliveries, crashes and faults. `SentCounted` and `ReceivedCounted` say which call is
  not counted yet: that of a delivered result, or of the result in hand; a recorded
  failure of a delivery that was taken follows a fault (`RecordAfterFault`).
* `AckAlwaysWaits`: sweeps and deliveries work from rows read earlier and interleave;
  `AckInv` says that what a tick holds as a tombstone was scrubbed before
  (`TombsAreScrubbed`), that what a target was given before the hard cap was content
  (`ReceivedIsContent`), that the ages of a sweep are not those of the future
  (`SweepAges`), and that nobody scrubbed by age is on `on_ack` (`UserByAge`).
* `SweepsLeaveNothingOverdue`: what was overdue when the sweep began is scrubbed,
  or belongs to a user the sweep has yet to come to, or its statement failed
  (`OverdueInv`: `CapDone`, `UsersAhead`, `UsersOfLoop`).

`AdmissionProofs`:

* `QuotaAlwaysHolds`: calls consume before they store, and a period may end in
  between, so the invariant counts the capacity that is consumed and not used yet
  (`Outstanding`) with what is stored (`QuotaInv`), over what a call knows in each of
  its phases (`Phases`, in `Basics`).
* `MinimumAlwaysAdmitted`: a call that has seen the period expire finds it expired or
  empty at each of its steps, as long as no other call takes capacity (`FreshInv`);
  the health factor leaves at least one request of any limit.
* `WaitingAlwaysCounted`: `CountInv` splits the waiting rows by the flush that runs:
  those it has read, those counted since its snapshot, and those stored but not
  counted yet (`Uncounted`).

`StoreProofs`:

* `StoreInvariant`: the tables are typed, with money in whole cents (`Rounding`,
  `WholeSums`) and batches of stored keys, a request has at most one result, a result
  belongs to a request that has a row (`ResultsHaveRequests`), and the two stores hold
  the same rows until they part (`RowsAgree`).
* `RowsAlwaysAgree`, `AnswersAlwaysAgree`: method by method both stores make the same
  of a database, and answer alike, until a call on which they part (section 4 lists
  them). `findApiKeyId` is covered only for a user without a key of the provider;
  `getRequest`, `getBatch` and `getUserLimits` answer with the rows that are compared;
  sets of users and of cost groups are compared without an order. The totals of tokens are recursive sums; they
  are shown to be cardinalities, by looking at a smallest set of rows on which they
  would not be (well-foundedness of strict inclusion on finite sets), which is
  induction without the library's induction theorem.
* `ScrubsAlwaysComplete`: from every database, not only those a complete scrub leaves.

`UpkeepProofs`:

* `AlwaysMigratedOnce`: a process between reading the applied names and its commit
  holds the lock, and what it holds as pending is exactly what is not applied
  (`StartupInv`).
* `RowsAlwaysShareAKey`: the old rows a rotation has passed are in its page or among
  its updates (`Passed`), its updates are under its new key and lock rows that exist
  (`Writes`), it holds nothing between two pages (`Between`), and until one begins
  everything is under the old key (`UnderOldKey`); so an empty page means that a
  commit moves all early rows at once (`RotationInv`).
* `ClaudeRowsAlwaysPublished`: a refresh may write what it parsed long ago, but what
  it holds was on the page in some version (`CatalogInv`).

What the proofs showed about the models, each now in the module: a bound of
`FoundInTime` that counted restarts together was too small for two of them; rows of
`catalog` were keyed by model alone, so a model of one provider could have hidden a
model of the other; `Admission` left open that limits are positive and that the
marks for no row, nobody and nothing read differ from what they stand beside.

Model-checked only: liveness (`EveryRequestSettles`, `EveryResultIsDecided`,
`CatalogCatchesUp`), because fairness and ENABLED are beyond the prover, and the
counterexamples of the runs that expect a violation.

## 6. Plan

1. A second flush in `Engine`: the web process flushes too, without adapters
   (`POST /api/v1/flush` and the queue's thresholds), so its lifecycle gate races
   the worker's.
2. The two adapter keys, `provider::userId` at submission and `provider::apiKeyId`
   at polling and ingestion.
3. Policies that change between sweeps, and `api/v1/requests` validation.
4. Proofs: every invariant and action property of the passing runs is proved, so
   what comes next are the properties of items 1 to 3. With a second flush,
   `FlushAlone` and `FlushOwns` have to speak of each flush and of the rows both
   have read.

## 7. Not modelled, and why

* Configuration and pricing are functions of their arguments; what they yield is a
  constant of the models. Webhook signing and the cipher of the vault are keyed
  functions without state; a wrong key fails to decrypt, and that is in
  `KeyRotation`.
* Telemetry, the dashboard, sessions and the examples change nothing the properties
  speak of; from the deployment the models take that exactly one worker replica
  runs (`src/infra/azure/main.bicep:10`).
* The chat's messages are requests like others and enter as `ChatItems`; their pages
  only show them.
* The probe of a half-open breaker: `canSubmit` has no caller.
* A double count of tokens on the duplicate path of the ingester
  (`result-ingester.ts:152-157`), accepted in its comment.
* A `KeyResolver` is wired by nothing in the repository, and no Flex adapter by
  `createNorush`; both are modelled as a program would use them.

## Running

    tlc -workers 2 -config MCEngine_trouble.cfg MCEngine
    tlc -workers 2 -config MCEngine_settles.cfg MCEngine
    tlc -workers 2 -config MCEngine_limits.cfg MCEngine
    tlc -workers 2 -config MCFailover.cfg MCFailover
    tlc -workers 2 -config MCPolling.cfg MCPolling
    tlc -workers 2 -config MCDelivery.cfg MCDelivery
    tlc -workers 2 -config MCAdmission_calls.cfg MCAdmission
    tlc -workers 2 -config MCStores.cfg MCStores
    tlc -workers 2 -config MCUpkeep.cfg MCUpkeep
    tlc -workers 2 -config MCEngine_lost_ingestion.cfg MCEngine     # refuted
    tlc -workers 2 -config MCEngine_retried_success.cfg MCEngine    # refuted
    tlc -workers 2 -config MCAdmission_tokens.cfg MCAdmission       # refuted
    tlapm EngineProofs.tla
    tlapm RequestProofs.tla
    tlapm FailoverProofs.tla
    tlapm PollingProofs.tla
    tlapm DeliveryProofs.tla
    tlapm AdmissionProofs.tla
    tlapm StoreProofs.tla
    tlapm UpkeepProofs.tla
