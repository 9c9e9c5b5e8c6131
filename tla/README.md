# A TLA+ verification of insight_radar

insight_radar turns seed keywords into a keyword analysis (Google Ads metrics, intent
labels), clusters, journey stages, custom classes and AI-search captures, and keeps
tracking lists of keyword volumes. The backend (`src/src`) is a set of NestJS modules over
PostgreSQL (Prisma), Redis and BullMQ queues; API processes answer requests, worker slots
run jobs. The frontend (`src/frontend`) is a React client. Nothing is coordinated by a
single lock: rows, queue and cache are three stores that handlers and workers update one
awaited call after the other. That is what the specifications are about.

The specifications follow the program from its ends to its core: what a browser shows, what
the API answers, what workers do with a job, what Redis, PostgreSQL and the queue keep.
Each module is translated from the code. A step of the model is one awaited call with the
synchronous code that follows it; between two steps any other handler, slot or fault can
act. Line numbers are in `PROJECT.json` under `map`.

## Inventory

| Component | State | Operations | Talks to | What is hard | What makes it correct |
|---|---|---|---|---|---|
| Keyword analysis job (`keyword-analysis/`) | row of `keyword_analyses` (status, key, progress), `result_snapshots`, Redis key `idemp:<hash>` | create, cancel, process, failed handler, getStatus | BullMQ queue, Redis, Google Ads, intent labelling | unique key as arbiter, window of reuse and rotation, compensation, cancel against save, retries and stalled doubles | no two in flight for one input; snapshot exactly with a finished row; first terminal write wins |
| Runs on an analysis: topics, journey, custom classification (`topics/`, `journey/`, `custom-classify/`) | a run row with an idempotency key; result tables | create (insert, reset), process, DELETE of a classification | BullMQ with the run id as job id; clustering, LLM | reset under the same job id, silent dedup of BullMQ, `503` while a job is active, unconditional status writes | an accepted run is worked on and ends; what it reports is stored |
| AI search run (`ai-search/`, `ai-visibility/`) | run row, `ai_search_captures`, three analysis tables | create (conditional reset), process | SerpAPI (paid), captures, LLM | redelivery must not pay again, captures stored once | stores match the row; stored captures are not paid for twice |
| Job events and SSE (`queue/job-events.service.ts`) | subjects per job id, ids of terminated jobs | forJob, route | QueueEvents, controllers | subscribe before or after the end, retention limit, repeated job ids | a stream that is subscribed ends when the job ends |
| Google Ads rate limiter (`google-ads/ads-rate-limiter.ts`) | next slot in Redis | schedule, acquireSlot | Redis, Google Ads | several processes, retries after quota errors, lost Redis | calls are at least `minTime` apart |
| Tracking lists and refresh (`tracking/`) | lists, members, volume snapshots, sweep lease in Redis | CRUD, sweep, manual refresh, store-on-change | BullMQ, Google Ads | lease without an owner, two refreshes of one list, members removed meanwhile | one sweep at a time; a snapshot only on change |
| Captures ingestion (`captures/`) | `captures` with a unique content hash | ingest | extension, AI search | equal pushes at the same time | each item counted as accepted once |
| LLM batches: intent labelling and the lines like it (`intent/`, `llm/`) | labels cached in Redis and `keyword_intents` | stream of batches, chunks a few at a time, bisection | Azure OpenAI | batches that arrive while others are sent, halving, refusals, failing caches | each item sent once per level; a fallback is never cached |
| Metrics cache and Ads client (`google-ads/`) | Redis entries before the table `keywords` | mget, fetch in chunks, merge, mset | Google Ads | close variants, missing values, partial hits, failing stores | what is cached under a keyword is its own; a seed gets its row |
| Queries over a snapshot, and insights (`keywords/`, `ai-insight/`) | none (immutable snapshot) and a cache of insights | gate, join, filter, sort, paginate, aggregate, summarise | PostgreSQL, LLM | runs that change between the gate and the join; edges of pages; versions of cached insights | pages partition the result; a gated view shows labelled rows; an insight is not behind its view |
| Analysis of AI answers (`ai-visibility/`) | three tables per job | three LLM lines, assembly, replace in one transaction | LLM, brand profiles | ids over captures and blocks, spellings, two workers | figures agree with the answers they are made of |
| Auth and sessions (`auth/`, `common/`) | users, sessions in Redis | register, login, logout, guards | Redis | revoked session in use | only a live session passes |
| Brand profiles, ideation, intent summary | one table or a cache entry | CRUD, one LLM call | PostgreSQL, LLM | - | - |
| SERP, embeddings, clustering clients, cluster service | caches of answers | fetch | HTTP services | timeouts, retries | a failure degrades the caller |
| Frontend job tracking (`frontend/src/features/job`, `hooks/`, `lib/jobState.ts`) | state of an SSE stream or a poll | connect, confirm, fall back, cancel, reset | SSE, GET status | stream that ends early, stale answers, ids that come back | what is shown as done is what the row said; a page learns how the first run of an id ended |
| Frontend keyword table (`frontend/src/features/keywords`) | the URL, cached answers, the trail of cursors, cells | filter, sort, page, summaries one by one or in a batch, stages | `POST query`, SSE | URL, cache and trail change one by one; two sources fill one cell | the footer names the rows shown; no cell spins for ever |
| Frontend tracking lists (`frontend/src/features/tracking`) | rows, one panel of members, two dialogs, requests under way | load, create, rename, delete, open, remove | GET, POST, PATCH, DELETE | rows are edited in place while answers overtake each other; one panel for many lists | the page shows what the server has; a removal goes to the list of its member |
| Configuration, logging, health, OpenAPI, scripts | none after start | - | - | - | - |

`PROJECT.json` lists every component with its status, and under `hazards` the places where
this code is hard to test, with the properties that cover them or the reason none does.

## Modules

| Module | Models |
|---|---|
| `JobQueue` | BullMQ as the code uses it: one operator per atomic script |
| `KeywordAnalysis` | `KeywordAnalysisService.create`/`cancel`, `KeywordAnalysisProcessor`, `ResultSnapshotService.saveResult` |
| `AnalysisLifecycle` | what a client polling an analysis may see: the abstract specification of `KeywordAnalysis` |
| `RunJob` | what the kinds of run have in common: createRun, enqueueReusingJobId, compensation; a slot around its processor |
| `TopicRun`, `JourneyRun`, `AiSearchRun` | the three processors over `RunJob` |
| `CustomClassifyRun` | the second stage of a custom classification over `RunJob`: its guard, its labels, DELETE |
| `OwnerScope` | `owner-scope.ts`: who may see a row |
| `Tracking` | lists and members under their advisory locks, manual and scheduled refreshes, the lease, store-on-change, the series a client gets |
| `TrackedState` | what the rows, series and sweeps of `Tracking` promise, said of the state alone |
| `LabelBatches` | the LLM batches of seven services: chunks, concurrency, halving, review, the two caches |
| `AdsRate`, `AdsThrottle` | the rate limiter: its arithmetic, and callers with clocks of their own around one Redis key |
| `AdsMetrics` | chunking, normalisation, mapping of raw metrics, the layered cache, exact and expanding analyses |
| `AiVisibility` | the three lines over the captures of a job, the figures, the replacing transaction |
| `TopicContents` | clustering, representatives, naming with its bisection, the stored rows and the answer built from them |
| `KeywordViews` | filters, order, cursors, groups and trends as functions of rows and request |
| `ViewRegistry` | the views, what each refuses, what each builds |
| `SnapshotQuery` | a request between the gate and the join while runs change under it; the cache of insights |
| `ReadState` | what the answers of `SnapshotQuery` promise, said of the answers alone |
| `JobEvents` | rows and queue events to subjects to the four streams of a browser |
| `JobTracking` | `useJobTracking` with its reducer, the gate of a feature, the dashboard, on top of `JobEvents` |
| `KeywordsScreen` | the table of the browser: URL, filters and chips, pager, answers, over `ViewRegistry` |
| `SummaryColumn` | the column of AI summaries: single requests, a batch job, its stream |
| `StageColumn` | the column of journey stages, gathered over pages of the view |
| `TrackingScreen` | the page of the tracking lists over what `Tracking` promises for one owner |
| `*Proofs` | theorems of the module they are named after; `RunJobProofs` holds the lemmas the three runs share, `FrontendProofs` the theorems of `JobTracking` and `TrackingScreen`, `ServicesProofs` those of `AdsThrottle` and `SnapshotQuery` |
| `MC*` | instances for TLC: sets of faults, symmetry, sample data (`MCSamples`), components side by side |

`KeywordAnalysis` and `RunJob` EXTEND `JobQueue`; the run modules EXTEND `RunJob` and add
their processor's stages and the table it writes. `SnapshotQuery` EXTENDS `ViewRegistry`,
which EXTENDS `KeywordViews`; `KeywordsScreen` asks the same operators for its answers, so a
page in the browser and a page of the API are one definition. `JobTracking` EXTENDS
`JobEvents`: rows, queue events, stream and browser are one state machine. `Tracking` EXTENDS
`TrackedState`, and so does `MCComponents`: the two instances of `Tracking` that it runs share the
variables of `TrackedState`, and a theorem of `Tracking` is about the property the run checks.
`SnapshotQuery` and `ReadState` share `shown` in the same way.

### State and actions against the code

*Rows* are functions of the id; `none` stands for a row that does not exist (not yet, or
deleted). *Requests* are records spread over `stage` and its registers: a client slot is
`idle` or at the awaited call it will make next. *Job slots* (`wstage`, `wjob`) are the
same for a worker: the queue's concurrency times the number of instances.
*Queue*: `job`, `attempts` (attemptsMade), `stalls` (stalledCounter) and `lock` (the slot
whose token is stored with the job).

`KeywordAnalysis`: `CreateHit`/`CreateMiss` (Redis fast path) -> `Insert` -> on P2002
`Lookup` -> `Recache` or `Rotate` -> `Reinsert` -> `Winner`, `CacheWinner`; `Enqueue` ->
`Publish` or `Compensate`; `CancelRead`, `CancelWrite`, `CancelRemove`; `Take`, `Start`,
`Fetch`, `Metrics`, `SaveRead`, `SaveCommit` (the transaction is two steps: under read
committed others may commit between its read and its conditional update), `Report`,
`Finish`, `Throw`, `FailAttempt`, `OnFailed`; `Tick` is the clock of the reuse window and
of the Redis expiry. Ids stand for fresh UUIDs: an id is minted once.

`RunJob`: `Request`, `Find`, `Insert`, `Reset`, `GetJob`, `GetState`, `Remove`, `Add`,
`QueueCallFails`, `MarkFailed`; `Take`, `Finish`, `FailAttempt`, `WorkerCrash`,
`LockLost`, `StallRequeue`, `StallFail`. The id of a run stands for its idempotency key:
run rows are never deleted (but by the DELETE of a classification) and the key is unique,
so both name the same row. The data of a run is what the properties tell apart: whether
result rows exist and whether the count in the row is null, zero or more; *what* a topic
run stores is `TopicContents`, what an AI search stores is `AiVisibility`.

`AiSearchRun` also keeps what a job has paid for (`charge`) and, per slot, what the job
object said on `attemptsStarted` when it was taken and what captures the slot has in hand.

`Tracking`: a transaction under an advisory lock is a read (`CreateCount`, `AddCount`) and
the write with which it commits (`CreateInsert`, `AddInsert`); the lock is held in between.
A refresh is `Fetch`, then per keyword `FindLatest`, `AppendSnapshot` and `Touch`, with the
keys it read at `NextList` in hand. `disturbed` is a history variable: the lists of which
two refreshes, or a refresh and a removal, ever met.

`LabelBatches`: `Construct` picks the service and its settings, `Call` the items; batches are
taken while chunks are at work. A chunk is a task with the pieces it still has to send; when the
call is rejected the tasks that are not at their end go on, unheard, and write the caches. An answer
maps the items it names to `valid`, `junk` or `spoilt` (a usable result and a later unusable one for
the same item): that is all the last-wins of the post-processing and the per-result write of the
caches can tell apart.

`SnapshotQuery`: `Send`, `LoadAnalysis`, for an insight `ResolveVersion` and `Lookup`, then
`Gate`, `Query`, `Summarize`. `FinishAnalysis`, `CreateRun`, `ResetRun`, `StartRun`, `SaveRun`
and `CloseRun` are what the run modules do to the rows that are read; a set of stored data
is told by its ordinal.

`JobEvents` and `JobTracking`: a job may run twice under its id. Queue events are delivered
one after another to `subjects`; a stream is an EventSource with what it has not handled
(`inbox`). The hook is the reducer's state (`view`), the confirmation that is out, the poll
that is out and TanStack's cached answers (`polls`).

`KeywordsScreen`: every handler is one navigation, computed by the pure functions of
`lib/pagination.ts` and `lib/filterSpec.ts`; `trail` belongs to the mounted pager and goes
with it.

`SummaryColumn`: a batch is `StartBatch`, the server's `ServerAccepts`, the 202 (`BatchStarted`), the
effect that makes the EventSource (`OpenStream`) and its connection (`Connected`). The server goes
through the batch from the moment it accepts it and waits for none of these; `missed` is a history
variable: the keywords whose frame the page did not take in.

`TrackingScreen`: a handler is two actions around its `await`: what a click sends, and what the
answer does when it arrives. A request carries what its handler has in its closure (for a
delete, the panel that was open) and, once the server has served it, the answer. `filledBy`,
`raced`, `overtaken` and `altered` are history variables: whose members fill the panel, and
which requests met. The server has one action per endpoint (`ServeLists` ... `ServeRemove`). The
rows are a set, each with the request whose answer put it there, so a list that is on the page twice
is two rows; the order in which they are displayed is left out.

A text is modelled by what distinguishes it: a keyword and one of its spellings, the set of
words of it a filter may find, a host as its labels. Amounts and counts are small numbers with
`Null` for what is missing, which is never taken for 0.

### Faults

A constant `Faults` (`LlmFaults`, `CacheFaults`, `CellFaults`) names what the environment may
do, so that a run says exactly under which failures its properties hold: a call that is
refused, a reply that is lost after the call took effect, a dead worker or API process, an
expired lock of a slot that goes on, a best-effort write that is refused, a cache that is
away, an LLM that refuses or runs over its length, a stream that falls silent. A crash of a
worker empties its slot and its lock; the stalled check gives the job out again.

## Runs

| Run | Question | Bounds |
|---|---|---|
| `analysis_rows` | never two rows in flight for one input; the fast path does not outlive the window; first terminal write wins, with its snapshot and its progress; refinement of `AnalysisLifecycle` | 2 requests, 3 ids, window of 2 of 3 ticks, 2 slots, 2 attempts, 1 stall, every fault of a request and of a worker but a reply of `queue.add` that is lost (it is in `analysis_live` and in the theorems; here the run would not end in time); requests are fast against a tick (`PromptRequests`, which `FastPathFresh` needs); `Narrow`: see below |
| `analysis_live` | rows in flight have an owner, and end | 2 ids, 2 attempts, 1 stall, lost replies, crashes, lost locks |
| `analysis_dangling` | **violated**: the cache names a row that was compensated away | 2 requests |
| `topics_and_cells` | liveness of three components, and the safety of the journey | see below |
| `topics_exhausted` | **violated**: a run whose attempts are used up stays running | 1 request, 1 slot |
| `journey_double_reset` | **violated**: the double reset is not harmless | 2 requests, 1 slot |
| `aisearch_recharge` | **violated**: a pull without captures is paid again | 1 request, 1 slot |
| `components` | safety of the other components | see below |
| `job_tracking` | what is shown as done is what the row said; a page that follows the first run of an id ends up showing how it ended, one that follows a later run stops waiting | 1 job with 2 runs under its id, 1 retained subject, lookups that fail, an API that is away, polls evicted from the cache, starts and cancels by others, a snapshot that is not ready, deletes that fail, stalled jobs |
| `tracking_readded` | **violated**: an observation outlives the removal of its member | 1 list, 1 keyword, 1 request at a time, 2 slots |
| `job_retry` | **violated**: the retry of a failed run is shown as failed | 1 job, 2 runs |
| `tracking_screen_stale` | **violated**: a dialog asks about a member of one list and removes it from another | 2 lists, 4 requests |

`analysis_rows` has a state constraint, `Narrow`: TLC goes on from states with *one* analysis,
however often it is delivered again, and from states with *several* that follow and race each
other, each worked on by one slot without a redelivery. Several analyses under redeliveries are
left to the theorems, which state every property of the run without a bound.

Two runs put components *side by side*: `which` picks in the initial state the one that
runs, the others stay where they are (`Nil`, or their initial state), so the state space is
the sum of theirs and not the product. They share neither rows nor keys; where two of them do
act on each other they are one module (`CustomClassifyRun` over `RunJob`, `Tracking` with its
refreshes, `JobTracking` over `JobEvents`, `SnapshotQuery` with the runs it reads). A property
of a component is vacuous where another runs.

`topics_and_cells`:

* topics: 2 requests, 1 slot, 2 attempts, 1 stall, every queue and worker fault: an accepted
  run leaves the queue (`EveryRunStarts`);
* journey: one request after another, 3 attempts, 2 slots, refused queue calls: completed means
  stored, failed is written when BullMQ gives up and not before, a committed completion stays,
  an accepted run ends (`EveryRunEnds`);
* cells: two keywords on two pages of the table, one single request per keyword at a time, one
  batch after another; a stream that is made some time after the 202, or not at all, that falls
  silent, breaks, carries a frame that cannot be read or reports a failed job (`EveryCellSettles`).

`components`:

| Component | Properties | Bounds |
|---|---|---|
| AI search runs | `DoneRunMatchesStores`, `NoRechargeOfStored`, `QueuedHasOwner` | 2 requests, 2 slots, 2 attempts, 1 stall, all faults but lost locks |
| topic runs | `DoneRunHasItsClusters` | the same, refused queue calls and crashes |
| custom classification | `OneSavesAtATime`, `OrphansOnlyFromTheWindow` | 2 label sets, requests one after another, 2 slots, DELETE at any time |
| tracking lists | `LimitsHold` | 2 clients, 2 lists of at most 1, 2 keywords, 2 contexts, 3 calls |
| sweeps | `OneSweep`, `SnapshotsAreChanges`, `SeriesTellsTheChecks` | 2 slots, 1 list of at most 1, 2 ticks, leases of 1, 4 calls, firings and deaths |
| LLM batches | `EachItemIsSettledOnce` | three instances: 2 items in one batch or two, chunks of 1 or 2, 1 or 2 at a time, all faults, answers with any result for any item, once or several times, and 1 result about an item that was not asked; 2 items, 2 at a time, with 1 chunk of a rejected call still running in the next; 3 items in single chunks of which 2 run at a time, or in one that is halved twice |
| rate limiter | `CallsAreSpaced` | 3 callers, clocks 1 apart, timers 1 late, 1 retry, 10 ticks |
| metrics cache | `CacheAnswersItsKey`, `ExactAnswersTheSeeds` | 2 analyses, 4 keywords of which 2 are close variants, batches of 1 and 2, every store may fail |
| AI answers | `FiguresAgreeWithAnswers`, `AnswersHaveTheirOwnBrands` | 3 captures on 2 platforms, 2 brands with an alias, 2 analyses of the job, each line may lose inputs |
| topic contents | `TopicsAddUp` | 4 keywords, 3 answers of the cluster service, batches of 2, 2 attempts, a reader at any time |
| queries (journey, then AI views) | `InsightKeepsUp`, `GatedAnswerIsLabelled`, `WalkShowsEachRowOnce` | 3 rows with ties and gaps, 14 requests, 2 runs, 2 sets of data, 1 of AI answers |
| table in the browser | `FooterNamesTheRows` | 3 rows, 2 sorts, pages of 1, offset up to page 1 then cursors, 3 links, 2 cached answers |
| stage column | `DashMeansNoStage` | 4 rows, pages of 1, at most 3 pages gathered |
| page of the tracking lists | `PageTellsTheServer` | 3 lists of which at most 2 live, 2 names, 1 keyword, 3 requests (the first load is one) and changes made elsewhere, a server that fails, a fetch that rejects |

Why these bounds: the steps that interfere are those of two requests on one key, two slots
on one job, and one of each; two attempts show a retry, three tell the last attempt from
the one before; one stall shows a redelivery and its limit. Different keys and different
ids share no state except Redis entries of one hash, so one hash is enough. Pages of one row
reach every edge (first, last, behind the last) with three rows; limits of one are met by the
second addition; two label sets are enough for one to overwrite the other. The theorems remove
the bounds for the properties they state. Deadlock is not checked: when every request is
answered and every job has ended the system rests until a client comes.

### Fairness

Weak fairness on the steps of a request that has been accepted (the event loop goes on
with resolved calls), on each slot (a taken job is run), and on the queue (waiting jobs are
given out when a slot is free, the stalled check runs periodically). Clients need not send
requests, faults need not happen, and nothing is fair about a choice inside a step: the
environment may let every attempt fail.
`analysis_live` excludes the death of the API between insert and `queue.add`: see below.
The journey has one request at a time and no worker crash, because the code closes a row
only from the catch block: with a crash or a double reset the row can stay running or be
closed by a request, which the findings say. `job_tracking`: messages and timers are delivered
(weak), and an API that is asked again and again answers some time (strong fairness of the
answered poll, confirmation and GET: the code polls without an end, and an API that is away
for good shows nothing). The cells: every request is answered or fails, a batch that works
ends, and the heartbeat fires once the page can hear nothing more (a silent stream, or one that is
opened when the batch is over). Nothing says when a stream connects, so a batch may be over before.

## What is proved

`KeywordAnalysisProofs`, for any finite or infinite sets of ids, clients, workers and
hashes, any window, limits and faults:

* `Typing` - the type invariant.
* `NoDuplicates` - `NoDuplicateInFlight`. It is not inductive: two in-flight rows of one
  input are excluded because an in-flight row still holds its original key, which is
  unique. The invariant says that too, and that a request about to rotate a key has seen a
  row that was terminal and stays so.
* `SnapshotAtomicity` - `SnapshotMatchesStatus`, from the invariant that the snapshot is
  only written by the conditional commit.
* `Refinement` - every step maps to a step or a stutter of `AnalysisLifecycle`.
* `TerminalRowsStay` - the action property `TerminalIrreversible`.
* `FailureIsFinal` (`NoPrematureFailure`). The invariant `JobInv` is about the queue: a locked
  job is active and its slot works on it (`LocksHeld`); an id that was drawn and not yet queued
  has neither job nor slot, and one request at most (`OwnIds`), so a job that has ended is not
  queued a second time; a slot about to close a row comes from a job that failed or is gone
  (`ClosedJobs`).
* `ProgressIsHonest` (`ProgressHonest`): a slot past its save works on a row that is over
  (`WorkIsOver`), so its late report changes nothing.
* `RowsInFlightAreOwned` (`InFlightHasOwner`), for `Faults \subseteq OwnerFaults`: what is
  excluded is the death of the API between insert and add, a compensating delete that fails and
  a lost `failed` event or its one write. Each of the three does leave a row behind
  (`MCKeywordAnalysis` shows it when it is added to the faults). A cancel about to remove a job
  has closed its row (`CancelsAim`).
* `FastPathIsFresh` (`FastPathFresh`), where a request takes no time against the window
  (`PromptRequests`; the window, `IDEMP_TTL_MS`, defaults to a day). `FreshInv`: no entry
  outlives the window of the row it names (`EntriesExpire`), and a request about to cache for a
  whole window holds a row of this instant (`BornNow`), its own or the winner's.

`RunJobProofs` proves, action by action, that the steps `RunJob` contributes keep its types
and the invariant `OwnerInv`, independently of the processor, and that without lost locks a job
has one slot; `TopicRunProofs` adds the steps of the topic processor and concludes `Typing` and `QueuedRunsAreOwned`
(`QueuedHasOwner`). The invariant has two parts. `LocksHeld`: a locked job is active - so a
request that removes a job without a lock cannot strand the slot that works on it.
`QueuedRows`: the property itself, strengthened where a processor is about to overwrite the
row. It is needed because `QueuedHasOwner` alone says nothing of a job in a state that a
request read earlier.

`DoneRunsHaveTheirClusters` (`DoneRunHasItsClusters`) and, in `AiSearchRunProofs`,
`DoneRunsMatchTheirStores` (`DoneRunMatchesStores`) hold where no slot goes on without its lock
(`"lockLost" \notin Faults`): two slots with one job could each store what the other reports. The
property alone says nothing of a run that is under way. `ClustersInv` adds that a slot is the
only one with its job (`Sole`), that its row does not read done before it marks it (`Unmarked`)
and that it marks what it has stored (`Counted`); `StoreInv` says the same of captures, of which
a run has one set or none (`OneSet`), and of the analysis of the set in hand (`InHand`).

`JourneyRunProofs` does the same for the journey processor and adds `CompletedIsStored`
(`CompletedRunIsStored`). By itself the property does not survive the step that marks the
run; the invariant `StoredInv` adds that a slot about to mark (`SavedBeforeMark`) has stored
the assignments of its run, and that what is stored is never taken back.
Two further theorems have a premise on the behaviour, `[]OneRequestPerRun`: no two requests for one run overlap. `journey_double_reset` is what happens
without it.

* `CommittedStays` (`CommittedRunStays`): no step turns a completed run into a failed one, where
  the only faults are failing queue calls and lost writes (`CalmFaults`): the job of a slot that
  died or lost its lock is delivered again, and the second delivery may fail what the first
  completed. `CommitInv`: a row
  that may be reset is over, also while a request resets and queues it (`ClosedOver`,
  `Requesting`), and a completed row's slot is past its last write (`Uncommitted`).
* `FailedIsGivenUp` (`FailedWhenGivenUp`), where only queue calls fail. The catch block foretells
  whether BullMQ will try again; it is right because without crashes a slot knows how many
  attempts were made (`MadeKnown`). `GivenUp` is the other direction: a job without attempts left
  has a failed row, unless a request has it in hand.

`AiSearchRunProofs` adds two theorems that need an assumption on `Faults`:

* `StoredIsPaidOnce` (`NoRechargeOfStored`), where no worker loses its lock while it goes on
  (`"lockLost" \notin Faults`); with that fault two slots hold one job and the property is
  false. The invariant `PayInv` says that a slot at work holds the lock of its job (`Sole`),
  that a waiting job that has paid was delivered before (`Remembered`) and that the slot it
  goes to is told so (`Told`), that a slot on its way to the pull has nothing stored behind
  it (`Spared`), and that what counts as stored is there (`StoredRows`).
* `OneRequestEnqueues` (`OneEnqueuer`), where the only faults are a failing queue call and a
  lost write (`CalmFaults`). A run is *over* (`Over`) when its job does not wait and the
  slot that still has the job will only end it. The invariant `EnqueueInv` says that a row
  that is absent or may be reset is over (`ClosedOver`), that the row of a request about to
  queue the job says queued and is over (`Enqueuing`) - so neither a worker nor another
  reset changes it - and that slots hold what they work on (`Sole`, `ActiveHeld`,
  `MadeKnown`). A process that dies, an expired lock or a lost reply of `add` lets the job
  of the first request close the row while that request is still under way, so that a
  second one may reset it.

`ServicesProofs` is about two parts. Of `AdsThrottle`, the type invariant (`TypeCorrect`) and `CallsSpaced`
(`CallsAreSpaced`) for any number of callers, any rate, any clocks and timers; the interval
that is left, `MinTimeMs - MaxSkew - MaxLate`, says something where the clocks and timers are
good enough (`Synchronised`). The spacing of *calls* does not follow from that of reservations:
a caller sleeps, and the key may be gone before it wakes. The invariant says that the key
outlives every slot it ever gave out and holds the latest (`KeyCovers`), that the slots of
those who wait are an interval apart (`SlotsAreSpaced`), and that nobody who waits is due
before an interval after the call that was made last (`DueAfterTheLastCall`).

Of `SnapshotQuery`, for any rows, readers, owners, kinds of runs and bounds, and any requests that ask
for insights on views of the journey or of the snapshot alone (`RequestsOK`):

* `InsightsKeepUp` (`InsightKeepsUp`). A reader resolves the version, looks into the cache, passes the
  gate, reads and caches in five steps, and each may see other runs. The invariant compares everything
  with one number, the data of the run a version names: an insight that is cached under it is no older
  (`CachedOK`), and a reader that holds it waits for nothing newer (`WaitsFor`). The number stands
  still, because a run that is ready is never reset while it is a journey run (`Kept`), and the newest
  run's data, once there, are what the table holds (`RunsInv`).
* `GatedAnswersAreLabelled` (`GatedAnswerIsLabelled`). What passed the gate finds labelled rows
  (in `AskOK`): a newest run that is ready has stored, and stored data are only replaced.

That a version is the place of a *last* ready run needs a last element of a finite set of numbers
(`LastPlace`), from the well-foundedness of strict inclusion.

`TrackingProofs`, for any owners, lists, names, keys, requests, workers, limits and leases that
satisfy `ConstantsOK`:

* `Typing` - `TypeOK`. A batch is the first keys that are left, so a finite set of them has a
  first one (`FirstKey`), and what a worker fetched has a value for each key of its batch.
* `SweepsAlone` (`OneSweep`). The lease is released without looking whose it is, so the property
  needs what the code hopes for: a sweep ends within its lease (`SweepFits`). `LeaseInv`: a sweep
  past its acquire holds a lease that is not over, and no later than the row says.
* `LimitsKept` (`LimitsHold`). `Room` says that what was counted under the advisory lock still has
  room when the insert commits, `OneAtATime` that nobody else adds for the same list or owner in
  between; removals only make room.
* `ChangesStored` (`SnapshotsAreChanges`). `ChangesInv` says of a list of which no refresh met
  another one or a removal (`CalmList`): it has one refresher, series are in the order of their
  times and change at every step, what the refresher holds is no older than them, and what it is
  about to append differs from the last. It covers retries, workers that die between two keys,
  and members that are removed and come back.

`FrontendProofs` is about two parts of the browser. Of `JobTracking`, for any jobs, any number of
runs under one id, any limit of retained subjects and any faults: `Typing`, and `ShownResults`
(`ShownResultIsTrue`). The browser's state alone does not carry the property, because an answer may
be under way or in TanStack's cache while the job is run again. The invariant says that an answer
that claims a result is true of the run it was asked for (`AnswersAreHonest`), that a run that is
done has left the queue and its row stays (`Finished`, `Recorded`), and that a hook without a job
shows nothing (`Untracked`). The reducer is the one place where a result is made: `ReducerIsHonest`
shows that it takes one only from an answer.

Of `TrackingScreen`, for any lists, names, keywords, limit, faults and number of requests:
`ScreenTyping`, and `PageTells` (`PageTellsTheServer`). The property is about a page at rest; the
invariant `ScreenInv` says what a page owes to the answers that are still to come:

* in every state (`LoadInv`, `StartInv`): one load of the lists at a time; a create or delete that
  was answered has happened; only the lists of the start have members, and until a load was served
  the page has touched none of them.
* unless a load met a change of a list (`raced`): a list the page cannot know of - not born, or born
  by a create whose answer is out - has no row and nothing on the page aims at it (`UnseenInv`), each
  list has one row (`OnceInv`), an answer of the load that is out still tells the server (`AnswerInv`),
  and rows and server agree up to what the pending answers will change (`RowsInv`): a list without a
  row has a create out, a row without its list a delete, a row with another name a rename.
* unless requests about members overtook each other (`overtaken`): the only such request is about the
  list that is selected (`LoneInv`), its answer still tells that list's members (`DetailInv`), and the
  panel shows them but for the removal whose answer is out (`ShownInv`).

So what a rename, delete or removal needs is not that the page is up to date when it is clicked, but
that its answer names what it did: the mutant that renames the row being edited when the answer
arrives breaks the property.

`components` states the properties of `TrackedState`, `ReadState` and `TrackingScreen` themselves; of
`DoneRunHasItsClusters` it checks an instance of the theorem. `MCComponents` assumes nothing of its
instances but what TLC evaluates: its ASSUMEs check `ConstantsOK` for both instances of `Tracking` and
`RequestsOK` for both of `SnapshotQuery`.

Assumptions: those just named and those stated in the modules (`NoId` and `NoWorker` are
not ids or workers, limits are numbers, which statuses a run is reset from, that the page follows one of the
jobs), which TLC evaluates.

Only model-checked:

* liveness (`EventuallyTerminal`, `EveryRunStarts`, `EveryRunEnds`, `EveryCellSettles`,
  `ScreenCatchesUp`), which is out of the prover's reach;
* `SeriesTellsTheChecks` of `Tracking`, which compares a series with a whole history of checks, and
  the properties of `CustomClassifyRun` (`OneSavesAtATime`, `OrphansOnlyFromTheWindow`), which
  hold for requests that follow each other and would need the premise of the journey;
* `LabelBatches`, `AdsMetrics`, `AiVisibility`, `TopicContents` and the pages of `SnapshotQuery`
  (`WalkShowsEachRowOnce`): they compute with folds over sequences of items, where a proof for every
  input is an induction over data;
* `KeywordsScreen`, `SummaryColumn` and `StageColumn`, whose state is made of answers computed by the
  operators of `KeywordViews`, and of gathered pages: again folds over sequences.

The type invariant and `TerminalIrreversible` of the analysis and `OneEnqueuer` of the AI search
are proved and not part of a run.

## Findings

Each is a run that TLC finds violated, quoted in `PROJECT.json`.

* `analysis_dangling` (bug): a request that coalesces onto a row caches its id; when the
  first request then cannot queue the job and deletes the row, the cache answers with an
  analysis that does not exist until it expires.
* `topics_exhausted`: nothing writes the row when the last attempt throws; it stays running,
  although a comment says the failure surfaces as failed.
* `journey_double_reset`: the double reset that a comment calls harmless can close a
  completed run as failed.
* `aisearch_recharge`: a paid pull without captures leaves nothing to reuse, so a redelivery
  pays again; a comment names a failing write as the only way.
* `tracking_readded`: a refresh stores the observation of a member that was removed after it
  was read; when the keyword is added again the old snapshot is its first, which the delete in
  `removeMember` is there to prevent.
* `job_retry` (bug): the hook resets itself when a run is started again, and the same commit
  applies the failed answer that is still cached under the id.
* `tracking_screen_stale` (bug): the members of a list that was opened first arrive after another
  list was opened and fill its panel; the remove button then aims at a member of the one and the id of
  the other.

Met while modelling, allowed by the models, not stated as properties: the reset and the
compensation write the status of a topic or journey run unconditionally, so a finished run
can go back to queued and a failed one can have a job; a degraded retry of a topic run keeps
the clusters of the attempt before and says zero; a job given up for stalling never reaches
the catch block of the journey and AI-search processors, so its row stays running.

Where a property needs a condition, the condition is part of its run:

* `InsightKeepsUp` is checked for views of the journey. An insight on AI answers can be of older
  data than its version says: the key names the run, and a run that is reset stores other rows
  under the same id (`Kinds <- {"ai"}` and an insight on an AI view show it). Nor does one on a custom
  view keep up: a run that failed is queued again when the labels are set back to its set, keeps its
  date, and stores data that are newer than those of the newest completed run by date, which the key
  goes on to name (`Kinds <- {"custom"}` and an insight on `custom` show it); a comment
  (`snapshot-query.service.ts:113`) says that the completed run keeps version and data in step.
* `SnapshotQuery` resets only runs that ended without results, as `createRun` means to. The race of
  `journey_double_reset`, in which a completed run goes back to queued, is not among its steps: a run
  reset like that stores newer data under the version of its first results.
* `AnswersStoredOnce` (`AiVisibility`) fails with `Overlap <- TRUE`: two workers on one job each
  delete what was committed before both and store their rows, and no key is unique. It is left
  out of the run with the lost locks of the AI search.
* `FooterNamesTheRows` needs browser and server to agree on the page size of a request that
  names none. The defaults of the two `.env.example` differ (25 and 50); `ServerPageSize <- 2`
  shows the footer naming rows the table does not show.
* `OneSavesAtATime` holds for requests that follow each other; two at the same time pass the
  guard together.
* `ConfirmedLabelsAreApplied` (`CustomClassifyRun`) is stated and not part of a run, because it is
  violated: labels that are set back to an earlier set find the completed run of that set, so
  none is started, and the view shows the assignments of the set in between under the labels
  just confirmed. `custom-classify-run.types.ts:9` says that changed labels start a new run.
* `EditsKeepOthers` (`KeywordsScreen`) holds on the instance of the table and is left out of the
  run for its cost.
* `ScreenCatchesUp` says of the first run under an id that the page shows how it ended. With a second
  run the cached failed answer of the first may be applied to it (`job_retry`), and a page that was told
  "failed" does not ask again: the property then says only that it stops waiting. A cancelled run may be
  shown as failed: a stream that opens after the cancellation gets a `failed` snapshot. And a page whose
  user pressed cancel shows `canceled` whatever the DELETE answers, also when the run was done.
* `EveryCellSettles` leaves out a cell whose own frame the page never took in when the batch was then
  completed. The stream is opened by an effect after the 202 (`useAiIntentBatch.ts:92`, `101-106`), what was
  published before it is connected is not sent again (`job-events.service.ts:69`), a frame that
  cannot be read is ignored (`aiIntentBatch.ts:157`), and `job_completed` sweeps no loading cell
  (`aiIntentBatch.ts:131`): such a cell spins for ever, although the sweep of a failed job is there so
  that no masked cell does (`aiIntentBatch.ts:80-83`). Without the exception TLC finds the property violated in a few steps.
* `EveryCellSettles` is also checked where every request of a cell gets an answer. When `fetch` itself
  rejects, `generateOne` dispatches nothing and the cell spins until a batch fills it, although
  `aiCellState.ts:27` counts a network failure among the errors that may be tried again and
  `aiIntentSummary.ts` says "Never throws": with `"throws"` in `CellFaults` TLC finds it violated.
* `PageTellsTheServer` leaves out a load of the lists that meets a change of one: a list created
  while the first load is under way (`useTrackingLists.ts:34` replaces all rows) disappears from the
  page or appears twice. The guard of renames, deletes and removals (`useInFlightGuard.ts:32`) is one
  per trigger and not per list: while one list is renamed, the rename of another is dropped
  without a word.
* When `fetch` itself rejects, the first load of the tracking lists leaves `loading` true for ever, although
  `useTrackingLists.ts:11` says that the client never throws; the model has the fault (`"offline"`)
  and `PageTellsTheServer` asks nothing of a page that loads.
* `EachItemIsSettledOnce` does not say what becomes of an item that an answer names twice, first with a
  usable label: the last result counts for the caller (`intent-postprocess.ts:49`), who gets the
  fallback when it is unusable, while the caches keep the usable one (`intent-cache.ts:138`).
* `job_tracking` is run without streams that break at any time and POSTs that fail to start a
  run: the fall-back they lead to is reached by the faults it has.

## Not modelled, and why

* A crash of the API between the write of a row and `queue.add` leaves a queued row that
  nothing sweeps, in every kind of run; the liveness runs leave it out, `analysis_rows`
  includes it for safety.
* Topic and AI-search runs under an expired lock of a slot that goes on: the doubles of one
  job may leave one's results under the other's counts. The code has no fencing and claims
  none.
* Captures ingestion (`captures/`): one insert on a unique hash after the mapping of payloads;
  the database decides every race.
* A chunk that throws while batches of the same call are still coming: its promise has no handler until
  `Promise.all` (`intent.service.ts:134`), and there is none for unhandled rejections, so Node may end the
  process; the model goes on to the `Promise.all`.
* SERP and extension providers, embeddings, ideation, the intent summary service: HTTP or LLM
  calls around a cache, without state of their own; they appear as the answers they may give.
* The Python cluster service is numerical code; `TopicContents` takes any of its answers.
* Sessions and guards, brand profiles, listings of analyses: one statement or one
  Redis command each.
* Prompts, parsers, CSV export, formatting, the remaining React views, generated API types,
  configuration, logging, health, OpenAPI, scripts: no state, or presentation.

## Plan

Done: 1. `JobQueue`, `KeywordAnalysis`, `AnalysisLifecycle` with proofs. 2. `RunJob`,
`TopicRun`, `JourneyRun`, `AiSearchRun` with proofs. 3. `CustomClassifyRun`, `Tracking` with
proofs, `LabelBatches`. 4. `AdsThrottle` with proofs, `AdsMetrics`. 5. `JobEvents` and `JobTracking`
with proofs. 6. `KeywordViews`, `ViewRegistry`, `SnapshotQuery` with proofs, `AiVisibility`, `TopicContents`.
7. The tables and pages of the browser, the page of the
tracking lists with proofs.

Next, all of them proofs: what `SeriesTellsTheChecks` says of a list's state (a checked member has
a newest snapshot, no newer than its check), on top of `ChangesInv`; what the streams of
`JobEvents` promise a subscriber, on top of the typing of `JobTracking`; a lifecycle that the
three kinds of run share, as an abstract specification that each of them implements.
