# BIN Check API: a TLA+ model and its proofs

The BIN Check API is a TypeScript service (Express, PostgreSQL, Redis, Bull) that
answers what bank and country a card's first digits (its BIN) belong to, generates test
card numbers that must never repeat, and keeps its BIN table up to date from
several sources with an ETL pipeline. Around that core the repository has tenants, a security
subsystem, an export workflow, a review queue and tools. This directory holds TLA+ modules
translated from its code, TLC configurations that model-check them on small instances, and
theorems about them checked by TLAPS. `PROJECT.json` maps every definition to the lines it
stands for and lists the runs, the mutants (one plausible bug for each property, each
of which TLC detects), the hazards and the theorems.

## 1. Inventory

State, operations, interactions and what makes each component hard and correct. The
part in brackets is the module, or `-` where there is none.

### Cards

* **Generation with uniqueness guarantee** [`CardUniqueness`, refining `CardRegistry`].
  `CardGenerationService.generateWithUniqueness` draws a card and awaits, one after the other,
  a Redis key, the table `uniqueness_pool` and the table `generated_cards`, twice over;
  reserves the card by a SQL function that takes a session-level advisory lock and inserts
  a row with a lease; INSERTs the card; caches, releases and uncaches it. Hard: every check is
  stale by the time it is used, the lease may run out in between, the release may run on
  another session of the connection pool, any of the calls may fail, with or without effect,
  and the process may die anywhere. Correct: no card is handed out twice, a returned card is
  stored, a reservation is exclusive while its lease lasts.
* **Generation with deduplication cache** [`CardDedup`]. `generateAndSaveFromBIN`, its batch
  form and the run of 999 check an LRU cache per process, a Redis key that the check
  itself sets, and the database. Hard: three tiers written by concurrent
  calls of several processes, and three different treatments of a refused INSERT. Correct:
  a positive answer of the local cache is true.
* **Worker pool** [`WorkerPool`]. Threads with one message listener per waiting or assigned
  task. Hard: several listeners run on one event, a crash replaces a
  worker while tasks wait, shutdown runs beside all of it. Correct: slots, listeners and promises
  agree, a promise gets its own task's result, tasks settle, shutdown ends.
* **Asynchronous jobs** [`CardJobs`]. A Bull queue with attempts, exponential back-off, a
  time-out and stall detection; worker processes that start, stop gracefully and crash. Hard: an
  attempt that timed out or stalled goes on running beside its retry, and its failure is counted and noted
  whoever has the lock. Correct: a job is locked exactly while it is active, a settled job stays settled, its
  outcome was earned, no job is lost.
* **Card statistics** [`CardStatistics`]. Daily rows that a script computes from the cards while
  cards are inserted and read, and three kinds of cached answers. Hard: a slow reader stores what it
  read before the key was deleted; the deletion may fail. Correct: a day's cached row is the row.
* **Test cards** [`TestCards`]. A Markdown file loaded gateway by gateway without a
  transaction, and a listing in pages whose total and rows come from two queries. Correct: a run that
  is done has loaded every card, and whoever turns all pages misses none.
* **WebSocket progress** [-], **second Bloom filter, multi-tier cache, maintenance scripts** [-].

### The BIN table

* **ETL pipeline** [`EtlMerge`, `EtlPipeline`]. `etl.ts` extracts lists from several
  sources, normalises them, merges the records of one BIN by scoring every field's values,
  queues doubtful fields for manual review, asks binlist.net for what is missing (a JSON cache
  file between runs) and hands the result to the loader. Hard: ten hand-written weights decide
  which source wins; crashes fall between an answer and its write; errors are cached like answers.
  Correct: no disagreement goes unseen, a majority outvotes, an answer paid for is kept.
* **Loading and rollback** [`EtlLoad`]. An UPSERT per record, a row in `etl_runs`, and a
  script that deletes by version. Hard: runs, partial failures and rollbacks overlap. Correct:
  the table follows what the runs report.
* **Lookup and its caches** [`BinLookup`, which EXTENDS `EtlLoad`]. Bloom filter, LRU
  and `lookupCache` per process, Redis between processes, the table below. Hard: four caches
  fill from one another while the table changes. Correct: no tier invents anything; stale
  entries die out.
* **Manual review queue and its API** [`ReviewQueue`]. Items that are added, assigned, resolved,
  dismissed and cleared when old; no operation looks at the status it changes. Correct: what is
  still to be decided is never cleared.
* **Golden set** [`GoldenSet`]. Scripts that write a file of verified BINs, draw samples for
  people, measure lookups and compare the table, each a process of its own. Hard: table and file change
  under them, ties are decided by weights and order. Correct: a golden value is agreed upon, two measures
  of the same thing do not contradict each other.
* **Data quality** [`DataQuality`]. Metrics collected by requests that await statistics, trends of
  the halves of a history, anomalies, alerts, a dashboard. Correct: a trend tells of what happened.
* **Countries** [-].

### Accounts, tenants and protection

* **Accounts** [`Accounts`]. Users, refresh tokens with a blacklist in Redis,
  passwords with reset tokens, two-factor secrets, API keys with rotation and revocation. Hard:
  read, await, write in every handler, and two lifetimes written in two places. Correct: what
  was revoked, used, changed or logged out stays dead whatever overlaps with it.
* **Tenants** [`Tenants`] and **row-level security** [`RowSecurity`]. Tenants and users in memory behind
  three middlewares, each of which works with what the one before it read; settings that
  operations leave on pooled connections. Correct: a request is served with the rights of a user of the
  tenant it was validated with; a query never runs as another user than its own.
* **Rate limiting** [`RateLimiting`]. Limiters of several points and windows over the same
  record in Redis, a cache of limiters, fail policies. Correct: Retry-After is kept.
* **Zero trust** [`ZeroTrust`], **gateways** [`Gateways`] and **identity** [`Identity`]. Contexts, policies, sessions and
  behaviour in two managers that only the routes relate; gateways that are replaced with requests
  under way; proofs that clients hand in and have verified as often as they like. Correct: an active session has a context; a gateway's
  metrics add up; a session has trust as long as a proof of its is not refused.
* **Threat detection, correlation and response, SIEM** [`ThreatDetection`, `ThreatResponse`,
  `Siem`]. Events become patterns, threats, results, correlations, responses (at once or delayed, with
  blocks that may be rolled back) and incidents with escalation timers, all in memory, with
  cleanups on timers. Correct: a threat is reported, a response carried out, a block can be undone,
  management told.
* **Request middleware** [-], **fraud scoring and AML cases** [-], **number validation** [-].

### Infrastructure and tools

* **Start and shutdown** [`ServerLifecycle`], with the **database** and **Redis connections**. Nine steps
  of starting, requests in between, and a shutdown handler that every signal starts once more.
  Correct: exit code 0 means everything was closed and nothing cut off; start and shutdown end.
* **Export workflow** [`ExportWorkflow`]. Upload, polling and download with retries,
  pauses and a limit of one hour. Correct: every workflow ends.
* **Report analysis tool** [`WorkPlan`]. Reports are parsed, merged into gaps and planned in
  phases. Correct: what a report asks for is planned, as urgently as
  any report asks for it, in a phase that is long enough.
* **Metrics** [-], **frontend** [-].

### How they interact

Requests are coroutines of one event loop per process: between two `await`s a handler is
atomic, at an `await` everything else may happen. All models take one action per await, and
put in it every synchronous statement that follows. Processes share PostgreSQL (one query is
atomic), Redis (one command is atomic) and Bull's keys in Redis. The ETL is a separate
process that meets the API only in the table `bins`; `BinLookup` composes the two.
`CardJobs` runs the generation calls of `CardUniqueness` and `CardDedup` as its work.
`ServerLifecycle` makes the Redis client that `RateLimiting` may or may not have.
In `src/security` detection hands its results to correlation and response, and these hand incidents to
the SIEM framework; the modules meet in these lists, each taking as input what
the one before it can produce.

## 2. Modules

| Module | Models | Theorems |
|---|---|---|
| `CardRegistry` | what generation promises: a card has one owner, a call returns only its own | |
| `CardUniqueness` | `generateWithUniqueness` and every layer it awaits | `CardUniquenessProofs` |
| `CardDedup` | the three `generateAndSave` paths | `CardDedupProofs` |
| `WorkerPool` | `cardGenerationWorkerPool.ts` | `WorkerPoolProofs` |
| `CardJobs` | queue, worker process, processor | `CardJobsProofs` |
| `CardStatistics` | `cardStatistics.ts`, its models, cache and script | `PlatformProofs` |
| `TestCards` | `testCardsETL.ts`, the model and listing of test cards | `PlatformProofs` |
| `EtlLoad` | `load.ts`, `rollback-version.ts` | `BinLookupProofs` |
| `BinLookup` | `bin.ts`, the caches, `clearCache`; composed with `EtlLoad` | `BinLookupProofs` |
| `EtlMerge` | normalising, validating, scoring and merging: operators only | `BinLookupProofs` |
| `EtlPipeline` | runs of `etl.ts` with enrichment, cache file and crashes | `BinLookupProofs` |
| `ReviewQueue` | `manualReviewQueue.ts` and its routes | `PlatformProofs` |
| `GoldenSet` | `scripts/golden-set`, the verification protocol, baseline and accuracy report | `PlatformProofs` |
| `DataQuality` | the monitor, calculator, trend analyzer, alerts and dashboard | `BinLookupProofs` |
| `Accounts` | `auth.ts`, `twoFactor.ts`, the models of users, resets and keys | `AccountsProofs` |
| `Tenants` | `tenantManagement.ts`, `tenantAuth.ts`, `routes/multiTenant.ts` | `PlatformProofs` |
| `RowSecurity` | `rls.ts`, the models and services that set its context | `PlatformProofs` |
| `RateLimiting` | `rateLimit.ts` | `PlatformProofs` |
| `ZeroTrust` | `routes/zeroTrust.ts`, `zeroTrust.ts`, `behavioralAnalytics.ts` | `PlatformProofs` |
| `Gateways` | `secureGateways.ts` | `PlatformProofs` |
| `Identity` | `identityAgnosticModel.ts` and its routes | `PlatformProofs` |
| `ThreatDetection` | `behavioralThreatDetection.ts` and its middleware | `SecurityProofs` |
| `ThreatResponse` | `securityOrchestrator.ts`, `mlThreatCorrelation.ts`, `automatedResponse.ts` | `SecurityProofs` |
| `Siem` | `siemFramework.ts` | |
| `ServerLifecycle` | `index.ts`, the connections, probes | `PlatformProofs` |
| `ExportWorkflow` | `workflowOrchestrator.ts`, the doremon-ai client | |
| `WorkPlan` | `src/analysis` | |
| `Platform` | eleven of these modules with parameters of their own, which share the clock only, and what each guarantees | `PlatformProofs` |
| `Security` | `ThreatDetection` and `ThreatResponse` with parameters of their own, and what each guarantees | `SecurityProofs` |
| `MC...` | instances for TLC: who calls what from which process; `MCSecurity`, `MCPlatform` and `MCEtlPipeline` hold several modules | |

### CardUniqueness

`stored` is `generated_cards`, `row` and `holder` the pool's rows and their owners, `locks`
the advisory locks by session, `cached` the Redis keys; `pc`, `cand`, `pass` and `attempts` are the
local variables of a request. The actions follow the handler: `Generate`, `CheckCache`
(layer 5), `CheckPool` (layer 3), `CheckDb` (layer 2; the layers run twice, by `pass`), `Reserve`
(`reserve_card_hash`), `CacheReservation`, `Create`, `MarkCached`, `Release`
(`release_card_hash` on any connection of the process), `Uncache`, `GiveUp`. Around them:
queries that fail with or without effect, Redis calls that fail, leases and keys that expire,
`CleanupExpired`, a pooled connection that is closed (`Recycle`, which drops its
locks) and a process that dies (`Crash`). The constant `Faults` says which of them a run has.

The refinement reads `stored` as the registry's `owner` and derives each call's outcome from
its `pc`. It holds under every fault, because of the unique index and not of the
reservations: they only make refused INSERTs rare.

### CardDedup

`rows`, `lru` per process (no entry, fresh or duplicate), `keys` in Redis; each slot of a
request holds a card and its place in `checkDuplicate`. A card that the LRU does not know costs
a Redis read, a query and a write of the key, each of them an await. `createBatch` builds an INSERT with
two ON CONFLICT clauses, which PostgreSQL refuses; `StoreBatch` therefore
stores nothing, and the caller swallows the error.

### WorkerPool

`slot` is `workerTasks`, `waiters` the order of the listeners registered by tasks
that found every worker busy, `inbox` and `events` the two directions of each thread's channel. The
main thread handles an event with all listeners it has. A crash yields `error`,
then `exit`, which replaces the thread. `phase` and `awaited` belong to `shutdown()`.

### CardJobs

`state`, `failures` (attemptsMade), `reason` (is there a failedReason?), `stalls`, `lock` and `result` are
the job's keys in Redis; `at` and `where` are the executions, each in its worker process, that nothing cancels, `made`
what an execution read of attemptsMade when it began, `started` how many there were. The lock's token is the worker
process's and not the execution's, so an execution that was given up may end its job with the
lock that its own process has taken for a later one (`Holds`). `FailAttempt` is Bull's `moveToFailed`: attemptsMade and
failedReason are written in any case, and only the move is refused to whoever has no lock. Bull is modelled
from the options the code gives it (attempts 3, exponential back-off from 2000 ms, time-out
300000 ms, `maxStalledCount` 1, concurrency 5, `removeOnComplete` 100, `removeOnFail` 1000) and marked external
where the behaviour is the library's.

### EtlLoad and BinLookup

A row is the set of versions that wrote to it, since the UPSERT's COALESCE keeps
old values where the new record has none; `stamp` is `source_version`. `Lookup` does all a lookup does before its first
await (Bloom filter, LRU); `ReadRedis`, `ReadDb`, `SetRedis`, `ReadCountry`
and the fallback's `FallbackDb` and `SetFallback` are the awaits after it. `past` is a history
variable: what the table has said of each BIN.

### Accounts

One user, as every conflict is about one user's rows. `req[r]` is the handler a request is
in, its position, what it read and, as history, whether its credential was already dead when it
began. `tokens` are refresh tokens as `[left, out]`: days left, and
whether a logout has covered them; `black` is what is left of the blacklist key, `client` whether the
process has a Redis client. Time passes in `Tick`. `verifyTwoFactor` has no caller
in the code, so backup codes are left out.

### EtlMerge and EtlPipeline

Scores are computed in integers (all fractions over one denominator), so comparisons are
exact. Five fields stand for all of a record's: the code (confidence by length), the country
(derived by normalisation), the issuer (always present), and two that may be missing.
The records of a BIN are a set of rows, each with its source and line; where the code goes through a sorted
list, the definition says which row comes first (`Before`, `First`) or has the best score (`Best`). In
`EtlPipeline` a run takes lists from the sources it can read, merges, enriches up to
the limit, and hands the records to the loader or crashes; the cache file may be torn by a
crash during its write. `remaining` are the BINs that enrichment has still to come to, `NextBin` the one it is at: the
first in the order in which the sources list them. Runs do not overlap: `etl.ts` is a script an operator starts, and this is an assumption.

### ThreatDetection, ThreatResponse, Siem

In `ThreatDetection` `patterns`, `threats` and `results` are the Maps and the list of
`behavioralThreatDetection.ts`; a threat that was removed stays in the sequence with `kept = FALSE`, so that
its place is its id. `due` are the timers that have come due: analysis and cleanup run in any order
with the requests of that moment. `volume` is one number because all baseline profiles share one object.

In `ThreatResponse` a call (`calls`) is the list of what it has still to do: correlate, respond, each
action of each response. Calls that one task has made overtake each other where the code awaits. A notification looks its response
up again by the threat's type, and fails when it was removed during the delay and no other is left.
`ipBlocks` and `accountLocks` name the execution that made them, which the code does with the
identifier it keeps; `runs` and `handled` are history variables. In `Siem` the two maps of events and
active incidents hold copies of one event that `updateIncident` writes one after the other.

### Tenants and RowSecurity

A request holds what its middlewares have read: `validateTenant` puts the tenant object in the
request (`snapshot`, a copy, since an update replaces the object in the Map), `authenticateTenant` the user of
its token, `tenantRateLimit` counts it. A record has an `id` besides the key it is kept under: the body of
an update may replace it, and it is the `id` that the token's tenant is compared with. `late` is a history variable: had the tenant
been terminated before the request came? In `RowSecurity` the state is the pool's connections with what each
is told (`context`), and how far each operation is; `sessionWide` is the one thing the two
versions of the SQL function differ in, and TLC checks both.

### ExportWorkflow, ServerLifecycle, RateLimiting

Time in `ExportWorkflow` is counted down from where each wait began, so that the behaviours are infinite
and the states finite. `ServerLifecycle` follows `startServer` step by step (`Steps`), and every
run of `gracefulShutdown` is a `Handler` of its own, as nothing keeps a second signal from starting another.
In `RateLimiting` the record of a user and path (`records`) is the library's; which limiter counts on it,
and with how many points, is the code's. `promised` holds the Retry-After that was last answered.

### ReviewQueue, ZeroTrust, Gateways, Identity

Each holds its Maps as functions. An item of the queue that was cleared leaves `None` at its id.
A gateway that was replaced stays in `objects`, since requests on their way go on counting there. In `Identity` a proof is in two Maps of the code that
share the object, hence one sequence; `answers` is history: what the last verification of each said.

### TestCards, CardStatistics, WorkPlan, GoldenSet, DataQuality

`Lines` (a Markdown file), `Files` (reports) and `Sources` (lists of BINs) are sequences of records of what a
parser tells apart. In `WorkPlan` a title is a set of words, the words of priority among them, since the parser looks for these in the
text itself: items of the same text are equally urgent, while an item "improve X" is one with the metric X, whose
urgency its values give. `Parsed` are the lines of the file that hold a card, `left` those a run has still to
insert, gateway by gateway; an INSERT is one step. A page is the set of rows whose `Rank` in the order of the listing
lies within it. In `CardStatistics` `inserting` are cards whose INSERT has begun, which
the script does not see; `overlapped` is history. In `GoldenSet` the values of a field are the rows that give them: `Best` is the row whose value most rows back, then the
heaviest sources, then the first place. A measurement takes BIN after BIN, during which the
table and the file may change (`exact` is history: did the table stay the same?). In
`DataQuality` a point of the history stands for a collection, `seen` is history.
Averages that the code takes in doubles are compared in integers.

## 3. Runs

Each module's `TypeOK` is an invariant that its instance satisfies. `TypeOK` is not
listed with the runs: it is proved of `CardUniqueness`, `CardDedup`, `WorkerPool`, `CardJobs` (in `JobInvariant`),
`BinLookup` and `Accounts`; the other proofs carry the types they need in their
invariants.

| Run | Properties | Instance and bounds |
|---|---|---|
| `uniqueness_faults` | `RegistryRefined` | 2 requests, 2 cards, 2 connections, 1 process, 2 retries, every fault |
| `uniqueness_exclusive` | `ReservationBacked`, `FreshUntilCreate` | 3 requests, 2 processes, 1 retry, Redis failures, recycling, crashes |
| `dedup_mixed` | `LocalHitIsTrue` | 2 single calls, a batch, a run of 999 in 2 processes, failing queries and Redis, evictions |
| `pool` | `OnePlacePerTask`, `EveryTaskSettles`, `ShutdownEnds` | 3 tasks, 2 workers, failing tasks, 1 crash |
| `jobs` | `KeysAgree`, `SettledIsFinal`, `EveryJobSettles` | 1 job, 2 attempts, 2 worker processes of 2 executions, every fault, 1 crash |
| `catalog` | `NothingMadeUp` | 1 reader of 2 BINs, one missing and with Bloom bits that cover the other's, a load and its rollback, every fault |
| `catalog_reload` | `TableFollowsRuns`, `StaleEntriesDie` | 2 processes, a reader each of one BIN, 2 loads of one version |
| `accounts` | `LogoutHolds`, `DeadCredentialsFail`, `DeadStaysDead` | 2 requests on 2 processes in 4 profiles |
| `accounts_new_session` | `NewSessionRefreshes` (violated) | the same |
| `etl_pipeline` | `DisagreementIsReviewed`, `MajorityOutvotes`, `LaterRunKeeps` | 2 runs, 3 sources, 2 BINs, 325 listings, limit 1 |
| | `TrendIsNotInvented` | `DataQuality` side by side with it: 2 requests, 3 points, 2 units of 30 days |
| `security` | `ThreatsAreReported`, `BlockCanBeUndone`, `ResponsesAreCarriedOut`, `ManagementIsTold` | 3 modules side by side |
| `platform` | one to two of each of 13 modules, see below | 13 modules side by side |

What they show, and why the bounds are enough to make it interesting:

* `uniqueness_faults`: two requests contend for a card, fail, and still have another to turn to;
  two connections make a release run on the wrong one. A returned card is a stored row of
  the very request that returns it, and of no other. Cards are symmetric.
* `uniqueness_exclusive`: three requests, so that a release by one and a reservation by
  another can overlap with the work of a third. Without
  expiring leases and failing queries a reservation is backed by its row and an INSERT
  never meets an existing row.
* `dedup_mixed`: one call of each kind, two processes, so that one LRU is stale to the other.
* `pool`: one task more than workers is the least at which a task waits; the crash replaces a
  worker while it does. `OnePlacePerTask` also says that a promise carries its own task's result.
* `jobs`: two attempts and two processes give two overlapping executions of one job, with a
  third started by a stall; two executions at a time let a process go on with one it was told to give up. `KeysAgree` says that exactly the active job is locked, that a completed
  job and no other has a result, of an execution that ran to its end, that a failed one was executed as often as its
  attempts allow or stalled too often, and that there is an error exactly where a failed attempt is counted or a job stalled
  too often. It does not say that attemptsMade of a failed job is the number of attempts, as it need not be (section 6).
* `catalog`: the missing BIN sets the Bloom bits of the other, which is the false
  positive; one load and a rollback give a row that is there, changed, and gone. `NothingMadeUp` covers
  every tier and the answers.
* `catalog_reload`: two loads of the same version are the only case in which a rollback of one
  meets the rows of the other; two processes fill Redis and their LRUs from each other. `TableFollowsRuns`
  says that what a run reports as loaded is there until it is rolled back, and then is gone.
* `accounts`: each profile is the set of handlers the two requests choose from, so that all
  pairs that share state overlap; tokens and blacklist live two ticks each, the
  tightest case the assumption `TokenLife <= BlacklistLife` allows; `MaxStored` caps stored
  passwords and keys at 3 and `MaxResets` reset tokens at 2.
* `etl_pipeline`: three sources is the least at which two outvote one; a limit
  of one leaves a record beyond it; two runs show what the first leaves to the second.
  `TrendIsNotInvented` compares only with the days of the period a trend is asked for. The period is in
  units of 30 days, and three points are the least at which the halves are of different size.

Modules of `src/security` and of the platform that share no state are checked side by side, `EtlPipeline` and `DataQuality` as well:
`component`, chosen at the start, says whose actions are taken, the others stay as they began. So the
run is the union of separate runs, not their product. `MCPlatform` EXTENDS `Platform`, which instantiates the
modules that theorems are about with constants; its cfg gives these their values, and `MCSecurity` does the same with
`Security`. The others are instantiated with values in `MCPlatform` and `MCSecurity`. The instances:

| Part | Properties | Bounds, and what they suffice for |
|---|---|---|
| detection | `ThreatsAreReported` | 2 kinds of event, 2 results kept, 2 threats, 3 units of time: the limit of the list is passed and an analysis meets a cleanup |
| response | `BlockCanBeUndone`, `ResponsesAreCarriedOut` | 2 calls, one response delayed and one that fails half way, a rollback: two executions block one address |
| siem | `ManagementIsTold` | 2 events, one of them critical: thresholds and timers escalate the same event |
| tenancy | `ServedAsItsUser` | 2 tenants, one of which may be given the id of the other, 1 request, 1 token, 2 units of time: a tenant ends between each two middlewares |
| rows | `QueryRunsAsItsUser` | 5 operations of every kind on 2 connections: each finds what any other left |
| export | `EveryWorkflowEnds` | 1 workflow, 2 attempts: the last attempt is repeated, the limit passes while asking |
| review | `OpenIsKept` | 2 items, 3 units of time: an item is settled, taken up again and old |
| trust | `ActiveHasContext` | 1 session, 2 risks, lists of 2, 1 unit of time: contexts and sessions end in both orders |
| gates | `EveryRequestIsCounted` | 3 requests, 2 gateways under one id: a replaced gateway has requests under way |
| tests | `DoneIsLoaded`, `PagesMissNothing` | 2 runs (started up to 2 times after failing), 4 cards with two masked alike, pages of 1 |
| statistics | `CachedRowIsTheRow` | 2 calculations, 1 reader, 1 card a day, 2 days of a unit of time each: a day ends between any two steps |
| plan | `PlanIsComplete` | 2 reports of up to 3 items and a metric, which an item may ask for as well: three critical items are the least that get lost |
| lifecycle | `ExitIsClean`, `StartAndStopEnd` | 2 requests, 2 handlers, 3 attempts to connect, as in the code |
| limits | `RetryAfterHolds` | 3 requests of a user, a path with one limiter and a path with two |
| golden | `GoldenIsAgreed`, `MeasuresAgree` | 2 BINs in 3 rows of up to 3 sources, 3 processes started |
| identity | `TrustIsEarned` | 2 sessions, 2 proofs of 5 kinds, 1 unit of time: a proof is refused after it counted, and accepted again |

* `ServedAsItsUser`: a request may be served after its tenant was suspended or terminated, but only if it
  had been validated before. No update and no upgrade brings a terminated tenant back. The tenant whose user it serves is the one whose id
  the object carried that it was validated with. The run reaches states in which that is not the tenant it named (section 6).
* `QueryRunsAsItsUser` is about queries that have a user. Reports and tenant queries
  set nothing and run as whoever was on the connection before: section 6.
* `GoldenIsAgreed` has the premise that no source lists a BIN twice, `MeasuresAgree` that the table stood
  still and the lookups were not answered from caches: both can fail otherwise (section 6), and the
  runs include instances on both sides of the premises.

`CHECK_DEADLOCK FALSE` stands where the modelled work is finite and may all be done
(calls returned, jobs settled, last run over, time at its bound).

### Fairness

* A lookup: weak fairness of each reader's step, as the event loop resumes
  every coroutine whose awaited call has settled, and database and Redis calls settle
  (with an error at the worst). Failures, crashes and expiry are never forced.
  `BinLookup` adds that every cached entry outlives its TTL some day.
* `WorkerPool`: weak fairness of each thread, of the main thread's handling of each
  worker's events, and of the steps of a `shutdown()` under way. Nobody has to call it.
* `CardJobs`: weak fairness of Bull's timers (back-off, stall check), of executions and of a
  worker's start (an orchestrator restarts it); strong fairness of taking a waiting job,
  since workers may close and start again for ever. Crashes are bounded by `MaxCrashes`.
* `ExportWorkflow`, `ThreatResponse` and `Siem`: weak fairness of `Proceeds`, that is of time
  passing and of what the event loop does with calls that have settled and timers that have come due. Answers of doremon-ai
  are not forced: axios gives up after 30 seconds.
* `ServerLifecycle`: weak fairness of the steps of `startServer` and of running queries together, and of the
  handlers' steps. A query ends as the pool's `query_timeout` is 30 seconds. Requests are not forced to stop coming.

`EveryTaskSettles` is stated for a pool in which no worker crashes and that is not shut down,
`ShutdownEnds` for one in which no awaited task is rejected: outside these premises the code
does not keep the promise (section 6).

## 4. Theorems

| Theorem | Establishes | Assumes, beside types of constants |
|---|---|---|
| `TypeCorrect` | `[]TypeOK` of `CardUniqueness` | |
| `ReservationsExclusive` | `[]ReservationBacked` | no `"lease"` in `Faults` |
| `InsertsAreFresh` | `[]FreshUntilCreate` | no `"lease"` in `Faults` |
| `GenerationImplementsRegistry` | `RegistryRefined`, under every fault | |
| `DedupTypeCorrect`, `LocalHitsAreTrue` | `[]TypeOK` and `[]LocalHitIsTrue` of `CardDedup` | a single request has one slot |
| `PoolTypeCorrect`, `OneTaskOnePlace` | `[]TypeOK` and `[]OnePlacePerTask` of `WorkerPool` | |
| `JobInvariant`, `JobKeysAgree` | the invariant of `CardJobs`, `[]KeysAgree` | |
| `SettledJobsStaySettled` | the action property `SettledIsFinal` | |
| `LookupTypeCorrect`, `LookupsMakeNothingUp` | `[]TypeOK` and `[]NothingMadeUp` of `BinLookup` | an error or a missing answer is no row |
| `TableFollowsEveryRun` | `[]TableFollowsRuns`, of the lookups' specification too | equal versions mean equal records; none is that of the original rows |
| `AccountsTypeCorrect` | `[]TypeOK` of `Accounts` | |
| `LogoutHoldsAlways` | `[]LogoutHolds` | `TokenLife <= BlacklistLife` |
| `DeadCredentialsAlwaysFail` | `[]DeadCredentialsFail` | the same |
| `TheDeadStayDead` | the action property `DeadStaysDead` | the same |
| `RequestsAreTheirUsers` | `[]ServedAsItsUser` of `Tenants` | |
| `QueriesRunAsTheirUser` | `[]QueryRunsAsItsUser` of `RowSecurity`, with both versions of the SQL function | |
| `OpenItemsAreKept` | the action property `OpenIsKept` of `ReviewQueue` | |
| `ActiveSessionsHaveContexts` | `[]ActiveHasContext` of `ZeroTrust` | |
| `MetricsAddUp` | `[]EveryRequestIsCounted` of `Gateways` | finitely many requests |
| `GracefulExitIsClean` | `[]ExitIsClean` of `ServerLifecycle` | |
| `RetryAfterIsKept` | `[]RetryAfterHolds` of `RateLimiting` | windows and blocks last |
| `CachedRowsAreRows` | `[]CachedRowIsTheRow` of `CardStatistics` | the keys that are no days are none |
| `PipelineInvariant`, `DisagreementsAreReviewed`, `MajoritiesOutvote` | the invariant of `EtlPipeline`, `[]DisagreementIsReviewed`, `[]MajorityOutvotes` | |
| `LaterRunsKeep` | the action property `LaterRunKeeps` | |
| `DoneLoadsAll`, `PagesCoverAll` | `[]DoneIsLoaded` and `[]PagesMissNothing` of `TestCards` | pages are not empty |
| `TrustNeedsProof` | `[]TrustIsEarned` of `Identity` | confidences are integers |
| `MeasurementsAgree` | `[]MeasuresAgree` of `GoldenSet` | |
| `GoldenHasBacking` | `[]GoldenIsAgreed` of `GoldenSet` | weights are natural numbers |
| `TrendsAreNotInvented` | `[]TrendIsNotInvented` of `DataQuality` | |
| `ThreatsAlwaysReported` | `[]ThreatsAreReported` of `ThreatDetection` | some results are kept |
| `BlocksCanBeUndone` | `[]BlockCanBeUndone` of `ThreatResponse` | `BlockFor <= KeepFor`; finitely many added responses |

They hold for any number of requests, cards, connections, processes, workers, jobs, runs and retries, and any
lifetimes; bounds like `MaxCrashes` or `MaxTime` are parameters of any value. The assumptions on constants are the
named ASSUMEs of the modules, which TLC evaluates on each instance. The specifications in `PlatformProofs`
(`TenantsSpec`, `RowsSpec`, ...) are the initial states and steps of one part of `Platform`: what `MCPlatform` runs when
`component` names that part; so are `DetectionSpec` and `ResponseSpec` in `SecurityProofs`, and `QualitySpec` in `BinLookupProofs`,
which `MCEtlPipeline` runs.

**Reservations.** `Exclusive` is `ReservationBacked /\ FreshUntilCreate`. Neither half is
inductive: that nobody has stored the card of a request about to INSERT follows from
its row in the pool (who would store it holds a reservation of its own), and that
nobody deletes this row follows from releases being made by holders only. The one
action that breaks it is `LeaseExpires`, hence the assumption that leases outlast the
call; the lease is five minutes by default (migration 007, line 87) and the INSERT follows at once.

**Refinement.** `OwnsItsCard` says that a request has stored at most the card in its hand, and
only at locations after the INSERT. With it each action is a stutter of the registry,
or its store, return or failure step. A crash ends several calls at once, which the
registry allows.

**Deduplication.** An entry `exists` is cached in two places: after a query that found the row, and by a single
call that marks its own card. For the second `SlotInv` says that the row of a card about to be marked is there. Rows
only grow, so what was true when it was cached stays true. A slot goes on to storing only when its check is over.

**Pool.** `Places` relates slots, promises and listeners one to one: a task is assigned when one slot has it, waiting
when one listener is registered for it. `Line` says what may be under way between a worker and the main thread: one
message at most, about the task in the slot, and it is the first that will be handled; an `exit` is the last.
Without `Line` a late message of a dead thread could free a slot that has another task by then. One event makes all
listeners run; `ExecuteAllIs` writes what they do as one assignment of the first tasks of the queue to the
idle workers by rank, and `GivenOut` shows it to be one to one, by cardinalities.

**Jobs.** `CountOf`: a running execution has read fewer attempts than there were executions before it, so that what it
writes to attemptsMade is never more than those there were. `LockOf`: the lock was taken for the last execution that was started, which runs
or died, and is held exactly while the job is active. `OutcomeOf`: a result comes from an execution
that is done, and a job that is given up had attempts or stalls to show for it. `ErrorOf`: an error goes with a counted attempt or a stall too many.
Late executions move nothing because they do not hold the lock; that they write attemptsMade and the error nevertheless is why
`CountOf` bounds them by the executions and not by the attempts.

**Table.** `RunOf` ties each run to the rows it has written: a record it is done with is in the table unless it failed or
a run with the same BIN was rolled back. `StampOf` says a row's stamp is that of a run that wrote it. A rollback
deletes by stamp, and two runs of one version share it: hence the exception in `RolledBackIsGone`, and the assumption
that equal versions mean equal records, which is what the hash is for (`load.ts`). `undone` are the runs whose load was over
when they were rolled back, as a run under way goes on writing.

**Lookups.** `past[b]` collects what the table has said of a BIN. `PastInv` says that what it says now is in it,
`HandOf` that what a reader carries between two awaits is, and `NothingMadeUp` that what the tiers hold is. Each tier is filled from
a reader's hand, each hand from a tier or the table, so the three are inductive together, and only together. A false positive
of the Bloom filter does say `null` of a BIN that has a row, so the invariant says of `null` only that BINs which once had no row
have set all its bits.

**Accounts.** `SessionInv` has two parts: every token a logout has covered has no more days left
than the blacklist key, and a refresh with a dead token that is past verification finds that key
non-zero on a process with a client. Both are needed: the first
is kept by `Tick` (both lose a day) and by a logout (which sets the key to its full life, at
least any token's), the second takes over between the verification of the
token and the read of the key. The assumption that a day does not pass between these two (no
await but Redis' is between them) is built into `Tick`. Requests of other kinds touch neither part;
that is the lemma `QuietKeeps`, and one lemma for each handler shows it quiet. For the other credentials `Stopped`
says of each handler where a request whose credential was dead when it began can be: before the check that refuses it.
It is kept because the tables only age (`StoreAges`): versions of passwords and keys grow, a revoked key is not active
again, a reset token that is used or expired is never live again. `DeadStaysDead` is `StoreAges` itself.

**Tenants.** Past the validation a request works for a user of the tenant whose id its snapshot carries (`WorksForItsUser`), which stays true
as nothing takes users away (`UsersGrow`), whatever id an update writes, for a snapshot is a copy; terminated tenants stay so (`EndedStay`), so a request that is not `late` was
validated before. **Rows.** A connection has one holder (`HeldAlone`), and when the holder is to run its query the connection acts
for its user or for nobody (`ActsForHolder`). With the SQL function that is local to a transaction all contexts
stay empty, the third conjunct. **Review.** The invariant is the type of the queue; a step changes an item in place or clears
what is settled and old. **Trust.** The step that begins a session makes its context, the one that removes a context ends
its session; the lemma `AddEventKeeps` says that events do neither. **Gateways.** A gateway's
total less its successes and failures is the number of requests on their way to it; a request counts where it began,
replaced or not. **Exit.** A handler past the queue has seen it closed, one past the pool has seen it ended, which
waits for the queries (`ServerInv`); a handler can therefore not exit with 0 while a query is cut off.
**Retry-After.** `PromiseHolds`: a promise about the record that is still there is no earlier than its end,
the record is past its points, and nobody is still to rewrite it; so nothing moves its end. `PromiseIsOld`: otherwise the record the
promise was about is gone. The seconds answered are rounded up, `SecondsCover`.
**Statistics.** Of a day that no two calculations have worked on at once, the row is written once, before anything of the day is
cached or found by a reader (`OneWorksOn`, `CachedOf`, `FoundBy`), so keys deleted late delete nothing but the row itself.

**Sums and first ones.** The pipeline's scores, the weights of sources and the trust of a session are sums over sets of any
size, and the models choose the first or best of a set. Both need induction on the size of a set. The library's induction
theorems take an operator and cannot be used, but that the order of the naturals is well-founded can
(`NatLessThanWellFounded`, `WFMin`): it gives a least number (`LeastNumber`), from it induction for a set of numbers
(`NumberInduction`), and from that which values a recursive function has (`RecursionIsThere`), what `SumFunctionOnSet` is (`SumIsFold`), that a sum of naturals is a
natural (`SumOfNumbers`), and that a finite set of rows that can be compared has a first one
(`OneIsFirst`, `FirstIsThere`).

**Merging.** `ConfidenceBounds` reads from the tables how much one row can count for, `ScoreOfOne` and `ScoreOfTwo` bound the
scores of a value that one row gives or two give. Three rows have a best one (`BestOfThree`), and a value two of
them give scores higher than the third's, so it is the one taken; the code turns to the first row instead between 80 and 90 hundredths,
which two rows of three never reach (`MajorityIsMerged`). With one row for each source no value in conflict reaches even 70
hundredths (`OutvotedScore`), so all are reviewed (`DisagreementNeedsReview`). **Pipeline.** `RecordsSoFar` says what the records are: those enrichment has come to are the
merged record completed from the cache file, the others merged records. Those it has come to are a `Segment` of the
order of BINs, and as many as attempts; two segments of one size are the same (`SegmentsAgree`), which is why
a later run comes to the same BINs. `RunBefore` says the same of the run that was loaded last, in terms of the
cache file as it is now: its answers stay, as long as no write of the file was cut short.

**Test cards.** A run's lines that are no longer `left` are in the table (`LoadInv`), and rows stay. A row that is
added moves others back but never forward (`RankIsPlace`), so a reader who has seen the rows up to its offset still has
(`SeenUpTo`). When the last page is full of what there is and no row came between its two queries, that is all of
them. **Identity.** Proofs and answers are two sequences in step: a proof is valid unless its last answer was
`refused`. The score is a sum of naturals over the valid ones and a bonus for how many they are, so that it is above 0
exactly when there is one, whatever it is capped at (`ScoreIsEarned`).

**Golden set.** `RecordsAreVerified`: what the file says of a BIN is what the protocol makes of its rows. The row `Best` chooses
exists (`FirstIsThere`), and no value has more rows behind it (`BestIsBest`); with no source listing a BIN twice, rows and
sources are as many (`SourcesAreRows`). `BaselineIsExact` and `ComparisonIsExact` say what the two scripts' results are, as long
as the table stands still: what equals the table is correct, and what is compared and matches is matched.

**Trends.** `Tells`: a point of the history says what the table was like on its day. Points are in the order of their days,
since a query is answered on the day it was made, and so are those of a period (`WithinIsHistory`) and of its two halves. The rest is
arithmetic (`TrendOfHistory`): a total lies between bounds on the points it adds up (`TotalIsBetween`), so the later half
has the lower average only if the earlier one has a full day and it has an empty one; three of the metrics are
constants, whose averages agree however the halves differ in size.

**Threats.** `Told` says of each threat where its result is: in the list, or it is old, or the list is full of results no
older than it is. The last case is kept because results are in the order of their times (`IsResults`): the analysis, the rules and the
tracked actions all append with the present time, the limit takes the first, and the cleanup takes only what is
older than `MaxAge`. A threat whose id has a result gets no second one, and ids are never given twice.

**Responses.** `BlockOf` ties a block in force to the execution that made it: it is of this address or account, pending or executed,
and when executed it stays for at least as long as the block. Each part hides a case. A run may repeat an action, and
then its execution is one that settled before: `RunOf` says that what a run has executed so far is of this moment, as time
stands still while calls are under way. An action that fails must not be the one that blocks: `Fails` says that only
locks of accounts without a name do, and `SameRun` that all actions of a run are of one threat, so the repeated one fails
alike. Rolling an execution back lifts the block of its address, whoever has made it, so none in force
names an execution that was rolled back. `KeepFor` is 7 days in
the code and `BlockFor` 24 hours. That the lists of work are finite sequences whatever
responses are added rests on the lemmas `WorkOfSet` to `FiniteImage`.

Looking for these proofs corrected the models in a few places: where the code chooses by a chain of `if`s,
some definitions had a CASE whose arms overlap, of which TLA+ does not say which is taken. They are chains of IF now.

## 5. Model-checked only

* Liveness under fairness, out of the prover's reach: `EveryTaskSettles`, `ShutdownEnds`,
  `EveryJobSettles`, `StaleEntriesDie`, `EveryWorkflowEnds`, `StartAndStopEnd`, `ResponsesAreCarriedOut`,
  `ManagementIsTold`.
* `PlanIsComplete`: gaps, phases and durations are folds over sequences that the code sorts, and the longest path is a recursive
  operator, which the provers do not see into.
* Type invariants of the parts of `Platform` and of `Security`, as theorems of their own; what the proofs need of them is in their
  invariants.

Sorting, `SelectSeq` and recursive operators are what the provers cannot unfold. `EtlMerge`, `EtlPipeline`, `TestCards` and `GoldenSet`
say with sets and orders what the code does with sorted lists, `ThreatDetection` selects by the set of places that are kept
(`Kept`), and `DataQuality` by a recursive function. In `WorkPlan` the place of an item in the
sorted list is itself what the code decides by. So every invariant of a passing run is proved, but `PlanIsComplete`.

## 6. Where code and text disagree

Shown by a run:

* `accounts_new_session`: `logout` means to blacklist the active tokens (`auth.ts` line 213), but the key is the
  user's and lives seven days: sessions opened after it cannot be refreshed either.

Met while modelling, without a run of their own.

Cards:

* The comment of `release_card_hash` (migration 007, line 156) says that it releases
  the advisory lock. The lock belongs to the session that reserved; the
  release runs on whichever connection the pool gives and then leaves the lock behind.
* `checkDuplicate` sets the Redis key of a card it has just found absent;
  if that card is then not stored, it is a duplicate to every later check.
* A task waiting for a worker is not started when a crash has replaced a worker
  (`cardGenerationWorkerPool.ts` 157, 181); `shutdown()` waits for ever for a task that is rejected;
  terminated workers exit with a code that makes their handler create them anew; the
  pool's only caller obtains it and does not use it.
* `markAsGenerated` caches the key that the release right after it deletes.
* A reservation whose lease ran out may be granted again on the same session.
* Cards of batches are never stored, as `createBatch` always throws; two overlapping calls may
  return the same card when the refused INSERT of one is swallowed.
* `bloomFilterService.ts` asks for the extension `pg_bloom`, migration 009 installs `bloom`.
* Two test cards of a gateway whose masked numbers are the same become one row.
* Jobs: an execution that was given up writes its own count of attempts and its error over those of its retry. So attemptsMade may go back
  and may exceed the attempts allowed, `getJobStatus` (`jobQueue.ts` 171) may return an error for a completed job, and
  a key that was removed is there again with these two fields. The result may be that of an earlier execution, when
  its process has taken the lock for a later one.
* Migration 005 (line 42) declares `UNIQUE(card_hash)` on a table partitioned by `generation_date`, which
  PostgreSQL refuses as the key of the partitions is not in it; migration 007 (24, 42) builds unique indexes `CONCURRENTLY` on this
  table, which is refused for partitioned tables, and the first inside a block, where it is refused anyway. The unique index
  that `CardUniqueness` and its refinement rest on is the one that both files declare and mean.

The BIN table:

* A rollback deletes rows that existed before its run and were only updated by it.
* `clearCache` (`bin.ts` 523) leaves the LRU and the Bloom filter, which are asked first. `saveFilter` has no caller.
* `enrich-batch.ts` reads the result of `mergeRecords` without awaiting it. The fields url,
  phone and city are filled by no enabled source, so every record asks for enrichment and those after
  the limit never get it. Errors of binlist.net are cached for good.
* `merge.ts` 208 says "use first available value" and takes the primary record's even when it is
  empty; country and country code are resolved apart and may end up of different countries; with distinct
  sources no disagreement ever reaches the confidence at which it is resolved without review.
* The ETL's review queue is in its own process' memory; the API reads another one. A settled item can be
  assigned, resolved and dismissed again; assigning leaves the time it was settled before.
* Golden set: a source that lists a BIN twice counts as two sources; the weights of sources have no effect
  on the confidence; `generate.ts` groups by the primary key, so that the set it writes is always empty;
  `manual-verification.ts` (line 106) throws at a record that lacks a field and leaves the notes of an
  earlier sample. A `--mode` that is none of the three passes no gate at all (`generate-from-sources.ts` 160). `validate.ts` gives a record up at a missing field, whereas the baseline goes on.
* Data quality: three equal accuracies of 0.95 have, in doubles, an average below 0.95, which is reported
  as an accuracy below 95 percent; a table that has been empty and is filled is "stable"; `getTrends` does not use its
  period; nobody starts the monitor. `readiness-assessment.ts` asks for an accuracy above 0.95, which
  is constantly 0.95, and so can never say that the system is ready.

Accounts and protection:

* Enabling and disabling two-factor authentication at once can leave it enabled without a secret.
  Two reset requests at once can leave two live tokens. Migration 004 creates
  `password_resets` without the column `used_at` that the model writes.
* A request whose handler answers without passing it on never clears or returns its connection, nor does one
  whose clearing fails (`rls.ts` 95-98); reports and tenant queries run with whatever they find on theirs.
* Upgrading a tenant's tier writes its new limits under other names than those that are read. A tenant's
  password is not looked at when a user logs in. `updateTenant` (`tenantManagement.ts` 464) spreads the body over the record, `id` included,
  and `authenticateTenant` (`tenantAuth.ts` 97) compares the token's tenant with that `id`, while the context is that of the key that
  was asked for (43): with the id replaced, users of the tenant with that id are served under the key, and those of the
  tenant itself are not.
* Rate limits: a client that is refused has its record rewritten to end a minute later, so the window of
  15 minutes for logins ends after one; a limiter with more points on the same path rewrites what another
  has promised. An error of Redis lets the request pass whatever the fail policy
  (`rateLimit.ts` 225).
* Zero trust: `cleanup` forgets idle sessions (`behavioralAnalytics.ts` 531) but not the contexts made with them,
  which nothing cleans up. A policy may be added without conditions or actions, and every evaluation throws from
  then on (`zeroTrustSimplified.ts` 203).
* Identity: a proof counts before it is verified; the client chooses its confidence, and one below 0 lowers the
  score until the proof is refused; a refused biometric proof may be accepted at the next try, by lot. Nothing
  calls `revokeProof` or sets `expiresAt` (`identityAgnosticModel.ts` 91, 308).
* SIEM: an event closed as a false positive is escalated to management all the same
  (`siemFramework.ts` 327). Rolling back one execution lets in an address that a later one has blocked again
  (`automatedResponse.ts` 647). A delayed response that is removed meanwhile fails at its
  notification, which looks it up again (361, 502), unless another one of that type is left. Occurrence thresholds and windows of responses are written down and never asked.

Infrastructure and tools:

* A second signal runs `gracefulShutdown` once more: the pool is ended twice, which throws, and the process
  exits with 1. The status `degraded` of the detailed health check cannot be reached.
* Work plan: a third critical task outside Security is in no phase; the timeline takes the first
  task's days for a phase's length where the breakdown adds up dependencies, though
  `src/analysis/README.md` (177) says that it follows them, so that `PlanIsComplete` bounds the timeline from above only; items are numbered anew
  in each report, so that dependencies are looked up by ids that several tasks have.

## 7. Not modelled, and why

`PROJECT.json` gives the reason for each component. Apart from the algorithms on one value
(Luhn, IBAN, brands), these keep no state that two steps share: metrics, the frontend, countries, the request
middleware, and progress over WebSocket, which the worker process never sends as it has no socket
server. Fraud scores and AML cases have no life cycle: `setStatus` takes any status. The second Bloom filter is a hint that never
decides, the multi-tier cache has no importer, and the maintenance scripts are run by hand over one table each.

Within the modelled components: formatting, logging, the spelling rules of normalisation, the digits of
cards and the text of keys are abstracted to values that are equal or not. Left out are `auth-enhanced.ts`,
revoking and expiry of proofs of identity, resource usage and analytics of tenants, policies of gateways (nobody adds one), the indicator list
of threats (nothing fills it), the contents of reports of incidents, risks and
milestones of the work plan, users and response times of the statistics (read from a table nothing
writes), and sums of several days. Three points of accuracy in one half of the history
need five collections, which the bound of the run does not reach: `Undershoots` is translated, but its case does not happen there.

## 8. Plan

1. Done: the modules of section 2 and the theorems of section 4.
2. Prove: `PlanIsComplete` with gaps as a set with an order, and type correctness of the parts of `Platform` and of
   `Security` as theorems of their own.
3. Model: compose `EtlPipeline` with `EtlLoad`, so that a run's records are those the readers meet, and
   `ThreatDetection` with `ThreatResponse` and `Siem`.
