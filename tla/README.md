# Verification of verix-stock

TLA+ models of the news pipeline of verix-stock, the TLC runs that check them
and the TLAPS proofs about them. Every definition is a translation of the Go
(or browser) code; `PROJECT.json` maps each to its lines.

```
tlc -workers 2 -config PipelineHandover.cfg MCPipeline.tla
tlapm PipelineProofs.tla
```

## 1. The system

Several processes share one PostgreSQL database and one Redis server.

| process | started as | what runs in it |
|---|---|---|
| worker, full mode | `worker` | cron scheduler with `article_fetch` (08:00, 15:00), `ai_synthesis` (08:15, 15:15) and `published_cleanup` (00:00); queue worker; Telegram subscriber; `/readyz` |
| worker, work-only | `worker -work` | queue worker; Telegram subscriber; an empty scheduler; `/readyz` |
| worker, one job | `worker -job X` | the same goroutines until the job is done, then exit |
| API host | `api` | login, watchlists, the published articles as JSON, the page `web/index.html` |
| clear_redis | `clear_redis` | deletes the task queue |

### Components, their state, operations and dangers

**article_fetch** (`jobs/article_fetch.go`, `crawler/*.go`). Under the Redis
lock `lock:article_fetch` (TTL 2 min) it lists the watched symbols, computes for
each the date from which to search (the later of `stock_crawler_metadata` and
72 hours ago), scrapes CafeF (three search pages per symbol, five symbols at a
time), and stores each article whose link it could mark with
`SETNX crawler:seen:<link>` (7 days). Then it moves the metadata date of each
ticker to its newest new article. Hard: a run that outlives its lock and
overlaps the next; a failed save; a crash between SETNX and INSERT; a page that
fails; the boundaries of the dates. Correct when nothing is drafted twice and
nothing on the site is passed over.

**ai_synthesis, the task queue and the queue workers**
(`jobs/ai_synthesis_job.go`, `task_queue.go`, `queue_worker.go`). The producer
enqueues one extraction per pending draft, marks the row, and rescues the
tickers whose drafts are all settled. A queue worker pops a task and extracts
facts or synthesizes a digest; the extraction that finds no incomplete draft
left enqueues the synthesis. Errors are retried up to three times. Hard: several
workers on the drafts of one ticker, the count after the update, rows that
change under a Gemini call of a minute, tasks popped and lost, retries of work
already done, a lock freed by somebody else. Correct when a settled batch always
reaches synthesis, each article ends up in one digest, nothing is deleted
unpublished and the queue comes to rest.

**Scheduler, pool and locks** (`scheduler.go`, `pool.go`, `lock.go`,
`cmd/worker/main.go`). Cron firings block on the slots of a bounded pool; a job
is attempted `MaxRetry + 1` times with a backoff; `Stop` waits for the
firings, then for the pool; `/readyz` looks at the last success. Hard: a
shutdown among firings that wait for a slot; the same job twice in the pool or
in two processes, the lock freed by the wrong one. Correct when a stopped process
has no firing left, every firing gets its slot and ends, and runs of a job stay
apart.

**Notifications** (`core/events/pubsub.go`, `article/notifier.go`). Every worker
process subscribes to `article.published` and sends a Telegram message to the
backup chat and to each chat that watches the ticker. Hard: fire-and-forget
delivery, several subscribers, one failing recipient among others, a chat that
joins or leaves in between. Correct when nobody but the chat whose own message
failed misses an alert and nobody gets one twice from one process.

**Synthesizer** (`core/ai/gemini.go`). A rate limiter in front of the Gemini
models and a fallback model after an error or a timeout. Hard: one limiter per
process, a fallback without a timeout, an empty answer that is a result. Correct
when requests keep their interval and no call but the fallback waits for ever.

**Watchlists and the page** (`cmd/api/main.go`, `watchlist/repository.go`,
`web/index.html`). The page keeps the list of symbols and posts all of it after
each change; the API looks for the row and inserts or updates it. Hard:
overlapping posts of one page or of two, the row that appears between the SELECT
and the INSERT. Correct when the page shows what is stored and no symbol
disappears that the user did not take off.

**Login and tokens** (`cmd/api/main.go`, `web/index.html`). The page exchanges
the data of the Telegram widget for a token with an expiry, keeps it in its
localStorage, and throws it away when a GET is answered with 401. Hard: the late
answer to an older token, two tabs with one localStorage. Correct when an
unexpired login is not undone.

**clear_redis** deletes the task queue while workers and rows go on. **Public
articles** (`article/handler.go`, `article/repository.go`), **start-up**
(`core/db/db.go`), **unused code** (`middleware/telegram_auth.go`,
`jobs/telegram_job.go`): straight lines of calls.

How they interact: `article_fetch` writes the draft rows that `ai_synthesis`
lists; the producer and the queue workers meet in the Redis list and in the
`ai_status` of the rows; a queue worker's PUBLISH reaches the subscriber of every
worker process, which reads the watchlists that the API writes; the
watchlists decide what `article_fetch` searches for. Nothing is transactional
across two calls, and no two calls of the code share a database transaction.

## 2. Modules and how they fit together

| module | what it models | proofs |
|---|---|---|
| `Pipeline` | producer, queue, workers, draft and published rows | `PipelineProofs` |
| `DigestLedger` | abstract specification: what one worker process makes of the drafts | refinement in `PipelineProofs` |
| `DigestWriters` | abstract specification: what any number of worker processes do with them | refinement in `PipelineProofs` |
| `ArticleFetch` | fetch runs that may overlap: lock, seen keys, dates, rows, the clock | `ArticleFetchProofs` |
| `CafeF` | one search after the other: page loop, filters, the site that changes meanwhile | `CafeFProofs` |
| `Synthesizer` | limiter, timeouts and fallback of the Gemini calls | `SynthesizerProofs` |
| `Scheduler` | start-up modes, cron firings, pool slots, retries, locks, shutdown | `SchedulerProofs` |
| `Notifications` | subscribers, channels, the recipients loop | `NotificationsProofs` |
| `Watchlist` | the page, its login, its requests in flight, the handlers, the row | `WatchlistProofs` |

`MCPipeline`, `MCArticleFetch`, `MCCafeF`, `MCScheduler`, `MCNotifications` and
`MCWatchlist` give the instances their functions and symmetries; `Synthesizer`
needs neither. The models meet where the components do: `CreateDraft` of `Pipeline`
is what `ArticleFetch` does with `InsertDraft`, and `Digest` of `ArticleFetch` is
what `Cleanup` of `Pipeline` does to a row; `Fetch` of `ArticleFetch`, one step, is a
whole search of `CafeF`, whose `SearchFindsAll` says when its result is `OnSite` and
when it falls short; `ExtractFact` and `SynthesizeFromFacts` of `Pipeline`, one step
each that succeeds or fails, are the calls of `Synthesizer`, whose
`OnlyFallbackHangs` says how far they can be relied on to return; `events`
of `Pipeline` are what `Publish` hands to `Notifications`.

What is left to do: `ArticleFetch` and `Pipeline` as one model, in which the
searches depend on the watchlists, and the paging of the public articles.

## 3. Modules

### 3.1 Pipeline

A step is one call to PostgreSQL, Redis or Gemini together with the local code up to
the next call; between two calls everything else may happen.

| in the model | in the code |
|---|---|
| `draft[d]` | `ai_status` of a row of `stock_draft_article`; `absent` before, `deleted` after (rows are deleted for good, keys not reused) |
| `digests` | `stock_published_article` with the drafts behind `Sources`, and which worker wrote it |
| `events` | what was PUBLISHed on `article.published` |
| `queue` | the list `verix:task_queue`, LPUSH at the end, BRPOP at the front |
| `locked` | the key `lock:ai_synthesis` |
| `worker[r]` | the call at which the queue worker of process `r` is, its task and the drafts it read |
| `job[r]` | the same for the producer run of process `r`: drafts to enqueue, the one enqueued last, tickers to rescue |
| `faults` | number of injected errors, bounded by `MaxFaults` |

`Dequeue`, `Requeue`, `MarkFailed`, `CountIncomplete`, `TriggerSynthesis` are the
loop of `Start` and `checkAndTriggerSynthesis`; `GetDraftByID`, `ExtractFact`,
`SaveFacts` (then `CountIncomplete`, `TriggerSynthesis`) are `handleExtract`;
`GetExtracted`, `SynthesizeFromFacts`, `CreatePublished`, `EmitPublished`,
`Cleanup` are `handleSynthesize`; `StartRun`, `ListPending`,
`EnqueueExtraction`, `MarkQueued`, `ListReady`, `RescueTicker`, `FinishRun` are
`AISynthesisJob.Run`. Errors: `CallFails` (returned to `Start`, then
`HandleError`), `IgnoredCallFails` (logged or dropped), `JobCallFails`,
`LostReply` (the write is done and its reply lost), `DequeueLost` (popped, reply
lost). A call that fails otherwise has had no effect. Environment:
`CreateDraft` (article_fetch), `Crash` (of a process with work in hand; it is
restarted, its lock stays), `LockExpires`, `ClearQueue` (the tool `clear_redis`).
`Crash` stands for SIGTERM and for the exit of a `-job` process too, whose
queue worker has been started by then and may hold a task.

Abstractions: a ticker is visited as a group in any order (Go map iteration);
Gemini's answers are not told apart (for an extraction an empty answer is an
error, for a synthesis it is a result, "No content generated"); `len(drafts)` in a digest is the number of its sources, since facts
that were stored always parse; the time stored in a task is never read and left
out; a retry of LPUSH inside go-redis is not modelled.

| run | question | instance | result |
|---|---|---|---|
| `pipeline_handover` | does the last extraction of a batch hand over, whatever fails? is an article digested twice by one worker, or cleaned up unannounced? do two processes implement `DigestWriters`? | 2 processes, 2 drafts of one ticker, 1 retry, any 2 of 13 failures (those that lose no task), an expiring lock among them | holds |
| `pipeline_single` | does the pipeline implement `DigestLedger`? is an extracted article ever deleted unpublished? does the queue come to rest, and is a lost synthesis enqueued again? | 1 process, 2 drafts, any 2 of all 25 failures and incidents, fairness | holds |
| `pipeline_session` | one digest per session? | 2 processes, no failure | violated |
| `pipeline_unread` | are only the drafts that were read deleted? | 1 process, no failure | violated |
| `pipeline_abandoned` | are extracted articles always rescued? | 1 process, no failure, fairness | violated |

Bounds. Two drafts of one ticker are the smallest batch in which one extraction
is not the last and two can be last at once; two processes give every pairwise
race, and a third would only repeat one of them. `RetryLimit` is 1 instead
of 3: one retry and one exhaustion are all the kinds of outcome, and the proofs
hold for every value. `QueueCap` only holds back a new producer run
while that many tasks wait; the tasks workers add are not capped, so nothing
blocks on it. One process runs the producer, so that its runs do not overlap on these
instances. The properties of `pipeline_handover` hold as well for two full processes whose
producer runs overlap when a lock expires and nothing else fails (`QueueCap` 1, 3.9
million states), and the proofs are for any number of them. `MaxFaults` bounds injected errors, and liveness means "once errors
stop".

Fairness (`FairSpec`): weak fairness of the steps of each worker and of each
producer run, and of the expiry of an abandoned lock. The worker loops for
ever and its calls return or fail (the first call of a synthesis and an
extraction have timeouts of one and two minutes; that a fallback call, which has
none, returns is an assumption, see `Synthesizer`), cron starts the
producer again and again, Redis expires keys. Nothing is assumed about crashes, new
articles or `clear_redis`.

`DigestLedger` is the pipeline without tasks, statuses, retries, locks and
failures: drafts become ready and stop being so, a digest takes every ready
draft of its ticker, only the newest digest is announced, and the drafts of a ticker go
together after a digest that covers the ready ones. `Pipeline` maps `pending`,
`extraction_queued` and `failed` to `waiting`, and `digests` and `events` to the
ledger and its alerts. It implements the ledger when one process runs it
(`ImplementsLedger`, checked and proved). With two it does not:
`pipeline_session` has the behaviour. That the ledger lets drafts that wait be cleared is
`pipeline_unread`.

`DigestWriters` is what is left with any number of processes, where
`DigestLedger` fails. Each writer has a hand: the digest it is at, and whether it
has read, stored or announced it (`HandOf`). What goes into the digest is all that
was ready at the moment of the read, not at that of the write; the others read,
store and clear the same drafts meanwhile; a writer that gives up, or
does not learn that its digest is stored, starts with a new look at the drafts.
So it may store the same articles twice and clear what nobody read, but it never
announces anything but the digest it has stored, never twice, and clears a ticker only with that digest in
hand (`ImplementsWriters`, checked and proved). With all 25 failures and two
processes (700,000 states) it holds as well.

What the violated runs show:

* `pipeline_session`: the worker that extracts the one draft triggers its synthesis
  and publishes the digest; before it deletes the draft, the producer lists the
  ticker as ready (nothing tells it that a synthesis is under way) and enqueues it
  again; a second worker reads the same row, which nothing claims, and publishes it
  once more. README.md:28 promises one digest per session. This is the shortest
  way; two workers that save the last two extractions before either counts, both
  count zero and both enqueue, are another (TLC finds it when the rescue is taken out).
* `pipeline_unread`: the DELETE after the digest is by ticker, not by the
  rows read. A draft that arrived during the Gemini call is deleted unread. README.md:116.
* `pipeline_abandoned`: the producer pushes the task before it marks the row
  and does not look at the status when it does. A quicker worker's `extracted` is
  overwritten by `extraction_queued`, nothing refers to the row any more, and
  its ticker is excluded from counting and from the rescue that
  `ai_synthesis_job.go:75` introduces.

### 3.2 PipelineProofs

Machine-checked for every set of drafts, tickers and processes, every retry limit and
every bound:

* `TypeCorrect`: `Spec => []TypeOK`, by induction over the actions. The type
  ties labels to task types, which is what the other proofs use.
* `Handover`: `NoStrandedTicker`, when nothing of `LosingCalls` happens. The invariant is not inductive alone; `WellTargeted`
  adds that an extraction, queued or in a worker, carries the ticker of its draft,
  so that the worker that settles the last draft counts the right batch and is
  itself what attends its ticker until it has enqueued the synthesis.
* `NoRepeatByOneWorker`: `NoSelfDuplicate`, when cleanup does not fail, no process
  dies and no INSERT's reply is lost (`RepeatingCalls`). Strengthened by
  `DigestsConsumed` (a digested article is gone unless its worker still has to clean up) and
  `BatchFresh` (what a worker read is in no digest of its own).
* `NoSilentCleanup`: `AlertBeforeCleanup`, when no PUBLISH fails, no process dies and
  no INSERT's reply is lost (`SilencingCalls`). Strengthened by `DigestsAnnounced`: each
  digest was announced, or its worker is about to.
* `NoExtractedLost`: `ExtractedNeverLost` for a single process and all failures.
  Strengthened by `BatchComplete`: what the worker read is all that is extracted
  of its ticker until it cleans up.
* `LedgerImplemented`: `ImplementsLedger` for a single process and all failures, each
  action mapped to an action of the ledger or to a stutter. Uses `BatchComplete`
  and `BatchHeld`: what was read is in the table until the worker's own cleanup, and what it
  announces is its newest digest.
* `WritersImplemented`: `ImplementsWriters` for any number of processes and all
  failures, without a hypothesis. No invariant but the type is needed, since the
  abstract writers ask nothing of each other; what has to be shown is that each of
  the 29 actions moves at most the hand of its own worker (`OneHandMoves`), and
  the right way: `HandMovesOn` on the labels of `handleSynthesize`, `TeamGivesUp` on
  every error, crash and end of a task, `TeamPhaseStep` where a status is written.
* `EveryAlertIsOfItsDigest`: `AlertsTraced`, for any number of processes and all
  failures: a one-to-one assignment of alerts to stored digests with the same
  writer, ticker and articles. The invariant `TraceInv` extends the assignment by the digest each worker
  at `emit` has stored and nobody announced.
* `OneDigestWithOneWorker`: `SingleDigest`, which `pipeline_session` refutes for two
  processes, for one process when cleanup does not fail, it does not die and no
  reply of a write is lost. Follows from `NoRepeatByOneWorker`; with any of the three failures
  TLC finds an article in two digests of one process.

The assumptions are those of `PipelineAssumption` (evaluated by TLC on each
run) and the hypotheses named above. The hypotheses are needed: each call they exclude
breaks the property.

### 3.3 ArticleFetch

A step is one call to PostgreSQL, Redis or the site. The whole search of one
ticker (`Fetcher.Fetch`) is one step.

| in the model | in the code |
|---|---|
| `now` | the clock, in units of the window of 72 hours |
| `published[a]` | the date of an article on the site, 0 before it is listed |
| `seenUntil[a]` | the end of the key `crawler:seen:<link>` |
| `row[a]` | its row: stored as a draft, or digested and deleted |
| `metadata[t]` | `last_crawled_at` of `stock_crawler_metadata` |
| `locked` | the key `lock:article_fetch` |
| `run[r]` | the local variables of the `Run` of process `r`: `tickerMap`, the results not yet visited, the one being saved, `tickerUpdateMap` |
| `lost`, `reverted`, `unkeyed` | auxiliary: articles that a broken search, a failed revert or a crash left out; those whose save failed and whose key was deleted; those saved without a known key |

`StartRun` to `FinishRun` are the calls of `Run` in their order; `FindDraft` and
`InsertDraft` are the SELECT and the INSERT of `FirstOrCreate`. `ReadFails`,
`SaveFails` and `WriteFails` hold one disjunct per call that may fail, with what the code does
about it. Environment: the site lists an article, the synthesis deletes a row,
time passes, the lock expires, a process dies.

| run | question | instance | result |
|---|---|---|---|
| `fetch` | can the date of a ticker pass an article that is not stored? can a digested article come back? is everything on the site drafted in the end? | 2 articles, 1 ticker, 2 runs that overlap, any one of 12 failures, a clock of 4 windows' length and keys of 3, fairness | holds |

Bounds. `Window` 1 and `SeenTTL` 3 keep the order of 72 hours and 7 days, all the
properties depend on; `MaxNow` 4 lets a key expire after its article has grown
too old. Two articles give every order of dates (older, newer, the same). A run
sees one tick at most, since a job of ten minutes does not see days pass. With two
failures the safety properties hold as well (3.3 million states, beyond the time
of a run), and they are proved for any number; several tickers are covered
by the proofs.

The properties say for which articles they promise nothing. `lost`: those behind a
page that failed, and those between SETNX and INSERT of a process that died.
`reverted`: when an INSERT fails, the seen key is deleted "so we can retry next
time" (`article_fetch.go:140`), but a newer draft saved in the same run moves
`last_crawled_at` past the article, so that only the newest article of a ticker
is really found again; `ListedGetsDrafted` shows that this is the only way in
which the retry does not happen. `unkeyed`: after a failing SETNX the code saves
without a key, and after a lost reply of an INSERT it deletes the key although
the row is there, so that a digested article may come back.

Fairness (`FairSpec`): weak fairness of a run's steps and of the expiry of the
lock: cron starts the job again and again, calls return or fail, Redis expires
keys. Time may stand still.

`ArticleFetchProofs`, for all constants that satisfy `FetchAssumption`:

* `TypeCorrect`.
* `PassedAreSaved`: `NothingPassedOver`. The invariant `PassInv` speaks of a run
  before it writes: for each article that is left (listed, not too old, in no
  table and not excused) every run that may move the date of its ticker past it
  has it among its results, or has nothing newer (`Covers`).
* `NoSecondDraft`: `NeverRedrafted`. A run is a tick old at most and its results
  are within its window (`RunRecent`); a key outlives every run that can have its
  article as a result, from before the row is inserted (`KeyInv`). This is where
  `SeenTTL > Window + 1` is used: 7 days against 72 hours and a run.

### 3.4 CafeF

A step is a visit of a page of results, the handling of one of its items with the visit
to the article, or the end of a page.

| in the model | in the code |
|---|---|
| `listing`, `published[a]` | what the site lists for the ticker, newest first, and the true dates |
| `stamp[a]` | what can be read of the date: link and `.pdate`; the link's day only; nothing in the link; no `.pdate` |
| `since`, `page`, `items`, `seenLinks`, `articles`, `preFetchCount` | the parameter and local variables of `Fetch` |
| `arrived`, `broken` | auxiliary: articles listed since the search began; whether a page of results did not load |

The dates have a resolution: `Minute` for `.pdate`, `Day` for a link without a time.
The next search goes back to the newest date found by the last, as `ArticleFetch` has it.

| run | question | instance | result |
|---|---|---|---|
| `search` | is an article found twice while the listing moves? what may a search leave out? | 5 articles, 2 pages of 2 items, a clock of 3 with minutes of 2 and days of 3, 1 article with an odd date, 1 failure | holds |

`SearchFindsAll` lists all the ways in which a search leaves out an article that it
was called for: a page of results that did not load, three pages full of newer
ones, its own dates (a link without a date, a link with the day alone, a `.pdate`
that is the minute of a `since` with seconds), and as many items as a page has that are
unusable or were pushed onto it, since a page without a new article ends the
search. Anything else would be found. Two pages of two items have a first and a
last page and a page that is partly new; a fifth article moves items beyond the last page. With
two odd dates (`MaxOdd` 2, 8.9 million states) it holds as well.

`CafeFProofs`, for any listing, dates, number and size of pages:

* `SearchTypes`, and `NeverTwice` (`OncePerSearch`), from the invariant
  `Remembered`: what is in the result was remembered in `seenLinks`.
* `FindsAll`: `SearchFindsAll`. The listing grows at its top only, so that articles
  move down by the number of those that arrived. The invariant `SearchInv` has the parts
  `Sorted` (dates fall along the listing), `PushedInv` (those the search has come
  across lie on the pages it visited or were pushed below by at most the arrivals),
  `AheadInv` (those it has not come across lie below these pages), `HandledInv`
  (each article handled was found unless its dates forbid it) and `PageInv`: a page
  above an article still to come is full, and the items on it that were handled
  before are no more than the arrivals outside it. So a page that brings nothing new
  has `PageSize` unusable or pushed items to show for it, the excuse of
  `SearchFindsAll` for the early end (`CountBlocked`).
* `UndisturbedSearchIsExact`: `Exact`, which joins the model to `ArticleFetch`. A
  search returns nothing that is not wanted; and all that is, but for what is listed
  meanwhile, when its pages load, the dates are precise, fewer
  articles arrive than a page has and what is wanted fits the pages. That is the
  query `Fetch` of `ArticleFetch` makes in one step.

### 3.5 Synthesizer

A timer is the time it has left; timers fire when they are due.

| in the model | in the code |
|---|---|
| `pc[w]`, `model[w]` | where the one call of a queue worker is: in `limiter.Wait`, in `GenerateContent`, and the model asked |
| `token[w]`, `delay[w]` | the bucket of `rate.Limiter` (one token): time to the next token that nobody reserved, and what is left of `Wait` |
| `left[w]` | what is left of the timeout: 60 s for a fact, 2 min for a synthesis, none for the fallback |
| `result[w]` | what the last call returned |
| `ago[w]` | auxiliary: time since the last request |
| `busy[w]` | auxiliary: time the call of the worker has taken, until it asks the fallback |

| run | question | instance | result |
|---|---|---|---|
| `synthesizer` | do requests keep their interval? how long may a call take? which can hold a worker for ever? | 2 workers, 8 requests in a minute of 16 units, any answer or none, fairness | holds |

Fairness: timers fire and time goes on; nothing is assumed about Gemini. Each worker
process has a limiter of its own: several together exceed `GEMINI_RPM_LIMIT`,
which README.md:71 describes as that of the API. The queue worker is one goroutine, so a limiter has one
caller. The context given to the calls is Background (`main.go:70`) and never ends.

`InTime` bounds a call as a whole, which no single timeout does: the wait for the
fallback's token comes after an error of the pro model that may come late, but the
token is then due, as it has been refilled since the first request. Two units an
interval and eight intervals a minute are enough to have the waits and the timeouts end at
different times.

`SynthesizerProofs`, for any rate and number of workers: `TimersBounded`;
`RequestsSpaced` (`Spaced`) from `SpacingInv`: a worker that waits has the next token to
come, and one that does not used the last one at its last request; `CallsEndInTime`
(`InTime`) from `BusyInv`: what a call has taken and what is left of its wait or its timeout
stay within the bound together. The liveness is only checked.

### 3.6 Scheduler

| in the model | in the code |
|---|---|
| `main[p]`, `mode[p]` | where `main` of a process is: starting, serving, in `<-ctx.Done()`, in `pool.Wait`, exited; the flags of its last start |
| `registered[p]` | the entries of `Register`; none with `-work` and `-job` |
| `firing[p][e]` | the goroutine of the last firing of an entry: waiting in `Submit`, at its lock, in the body of `Run`, in its backoff; and its attempt |
| `holder[j]` | the key `lock:<job>` and, which the code does not record, who set it |
| `succeeded[p]`, `ran[p]` | `lastJobSuccess`; auxiliary: jobs whose run got past the lock |
| `unanswered` | auxiliary: jobs of which Redis set the key and the answer was lost |
| `overruns` | locks that expired under a run, bounded by `MaxOverruns` |

A cron goroutine blocks in `Submit` on the semaphore (`Submit`), keeps its slot
through all attempts and backoffs, and is refused (`Refused`, a nil error and
thus a success) when another run holds the lock. `AcquireUnanswered` is the SETNX that
Redis executes and whose answer is lost: the key stays, and the client's second
attempt finds it (`Refused`) or returns its error (`Fails`), after which the retry does.
`ReleaseLock` deletes the key whoever set it, or does nothing: its DEL gets the
context of the run and its error is dropped. `CronStopped` and `PoolDrained` are the two
waits of `Stop`.

| run | question | instance | result |
|---|---|---|---|
| `scheduler` | are runs of a job kept apart? does `Stop` return, and with nothing left? does every firing end? what does a recorded success stand for? | 1 process in any mode at each start, 4 entries (three of a locked job, one without a lock), 3 slots, 1 retry of one entry, 1 overrun, lost answers, crashes, fairness | holds |
| `scheduler_manual` | does `-job X` run X? | 1 `-job` process | violated: `RunJob` looks in a map that is filled later (README.md:108) |

`OneMorePerOverrun` states exactly what the lock is worth: as many runs too many
as locks have expired under their run, never more, although a late
`ReleaseLock` may delete the key of the next run. Three entries of one job are needed
to see this: one that outlived its lock, the next one, and the one that a
deleted key would let in.

`SuccessMeansRun` says that a recorded success stands for a run, of this process or of
another, with one exception that the code does not exclude: a job whose SETNX
was not answered (`unanswered`). Its own key refuses the next attempt, `Run` returns nil, and a
success is recorded though nobody ran it (`article_fetch.go:54-61`,
`scheduler.go:129-139`, `168`). Without the exception TLC finds this in a few steps; the
property, and `SuccessesWereRun`, say that nothing else has that effect.

Bounds. Four entries for three slots make one wait (the code has ten slots for five
entries, so that none does; the proofs hold for any numbers); entries of one job meet at
its lock, in one process or after a crash and restart. The code retries the
four locked entries twice and `published_cleanup` never; one retry of one entry is a
backoff beside firings that have none. A firing is not repeated
while it is at work: hours lie between two of an entry.

Fairness: weak fairness of `main` and of the steps of a run (jobs return), strong
fairness of `Submit`, as Go serves the senders that wait on a channel in their order.

`SchedulerProofs`, for any processes, modes, entries, jobs, slots and attempts:
`SchedulerTypes`; `StopLeavesNothing` (`StopIsClean`) from `AttemptInv` and `StopInv` (a process that
waits for its pool has no firing in `Submit`); `SuccessesWereRun`
(`SuccessMeansRun`) from `RanInv` (behind a lock, a run and a recorded success
there is a run of the job or a lost answer); `LockKeepsApart` (`OneMorePerOverrun`) from `LockInv`:
the runs of a job that do not hold its lock are no more than the locks that
expired under a run. `FiringEnds` and `StopReturns` are only checked.

### 3.7 Notifications

| in the model | in the code |
|---|---|
| `up`, `subscribed` | worker processes, and those with a live SUBSCRIBE |
| `channel[p]` | the Go channel of go-redis, in the order of the events |
| `notifying[p]` | the event in `Notify` and the recipients not yet visited |
| `hung` | processes in a POST that never returns |
| `backup`, `watchers[t]` | `TELEGRAM_CHAT_ID`, and the chats of `GetChatIDsBySymbol` |
| `told[p][d][c]` | messages of a process to a chat about a digest |
| `due[p][d]` | auxiliary: chats the process still owes the alert, while they keep watching and their own message does not fail |

The run `alerts` has one process, two digests, two chats, any choice of the
backup, and up to two failures of every kind with a shutdown. One process
is enough for these properties, which are about each process: processes share nothing but the
event, and that the PUBLISH may find nobody or only others subscribed is in the
model either way. It shows that no alert is missed but by the chat whose POST
failed (or with the process), none is repeated by a process, and that
each arrives unless a POST never returns.

Not promised and not checked: that an event reaches anybody (Redis keeps
nothing; between the start of the queue worker and the subscription, and while
go-redis reconnects, events are lost), that only one process tells a chat (every
worker process subscribes, those with `-work` too), and that a shutdown tells
those who are due (main.go:188 waits for the scheduler only).

Fairness: weak fairness of the subscriber goroutine; `hung` is where its POST
does not return.

`NotificationsProofs`, for any processes, digests, chats and channel sizes:
`NotificationTypes`, `OneMessage` (`OncePerProcess`) and `NobodySkipped`
(`OnlyFailedAreMissed`). The invariant: an event is in one place of a process
(`EventInv`), nobody was told of it before his turn (`FreshInv`), and who is to be
told was told, waits with the event, or is among the recipients left (`DueInv`).

### 3.8 Watchlist

A step is one statement of a handler or one callback of the page.

| in the model | in the code |
|---|---|
| `row` | `symbols` of the chat in `stock_config` |
| `symbols[p]`, `shown[p]`, `synced[p]` | `STATE.symbols`, the chips, the last message of a page |
| `request[i]` | a GET or POST the server is at: on its way, between SELECT and INSERT or UPDATE, answered; its page, or none when that waits no more |
| `view[p]`, `token[p]` | what a page shows, and `STATE.token` |
| `saved` | `verix_auth_token` in the localStorage all pages share |
| `issued`, `expired` | tokens in the order they are issued, in which they also expire: the newest issued, the newest past its expiry |
| `loaded`, `removed`, `raced`, `shared` | auxiliary: the first GET was answered; what the user took off; since the list was asked for something was sent beside a request under way, from another page or before the list, or the row was deleted; two pages were in use at a time |

Requests are independent, so that they overtake each other; a reload forgets
the answers, not what the handlers do. `ConnectionLost` is a fetch that rejects
(`index.html:355`, `413`) while the handler is at any of its steps: the page
shows an error for a post, the handler is not told (GORM gets no context of the
request), and its write lands whenever it does, after the user's next post too. `Create` fails when the key has been
inserted meanwhile, `UpdateNothing` is the UPDATE of a row deleted meanwhile.

`ShowLogin`, `TelegramAuth`, `LoggedIn` and `LoginLost` are the way in,
`Unauthorized` is `authMiddleware` and `Logout` what the page does about a 401. The
expiry is read in the step in which the handler reads the row.

The run `watchlist` (one page, two symbols, two requests at a time, two failures,
one DELETE, two tokens) shows that a user sees what is stored and never loses a symbol he
did not take off, through failures, connections lost before or after the write, reloads and the
removal of the last symbol, as long as he sends nothing while a request is under way; and, without any such
condition, that a post that is answered with success was in the row. "Under way" is the
server's view: a post the page was told has failed counts until its handler is done.
The page cannot know that, so waiting for its messages is not enough. When the connection of a
post breaks between its SELECT and its UPDATE (`repository.go:27`, `34`) and the
user posts again, the old list may be written last, under a page that reports
success, and drop a symbol nobody took off; the properties say nothing of this, since
the code does it. Nor does the page make the user wait: with two quick changes the earlier list may be
written last, and a symbol added before the first GET is answered (or after it
failed) replaces the stored list. These behaviours are in the model, where
they set `raced`; two open pages do the same. A reload while nothing is under way mends it, after a DELETE too. It also shows that the answer to an
expired token that is late, after its page was loaded anew and has logged in again, does
not undo that login (`LoginHolds`). Two tabs may do so: `logout` clears the
localStorage they share, whichever token was refused; this sets `shared`. Two
requests at a time make every pair that overtakes; two tokens are an old and a
new one. Two pages with one symbol and neither failures nor DELETEs hold as well (1.6 million states).

`WatchlistProofs`, for any pages, symbols, requests, tokens and failures:
`WatchlistTypes`; `SuccessStored` (`SuccessWasStored`) from `StoredInv` (without a DELETE
the row that was found stays); `PageShowsRow` (`PageIsRight`) and `KeepsSymbols`
(`OnlyRemovedAreDropped`) from `OrderlyInv`, which says, while `raced` is FALSE, how the list of
each request, waited for or given up, relates to the row, the page and what was
removed, and that a page that gave a post up shows an error; `LoginIsKept`
(`LoginHolds`) from `RequestInv` and `SessionInv` (with one page in use a request
the page waits for has the token of the page, which is the one that is saved).

## 4. Findings

| run | what the code does |
|---|---|
| `pipeline_session` | the articles of one ticker may get into two digests |
| `pipeline_unread` | drafts that were never read are deleted with those that were |
| `pipeline_abandoned` | a draft may stay in `extraction_queued` for ever and strand its ticker |
| `scheduler_manual` | `-job` never runs its job |

Smaller disagreements between the code and its texts, found while reading and
kept as hazards in `PROJECT.json`: the retry of `article_fetch.go:140`, the
readiness check of `main.go:160`, work-only processes that send messages
(README.md:102), one rate limit per process (README.md:71). So are two things no text
speaks of: the success recorded for a job whose SETNX was not answered (3.6), and the
list of a post that was given up and is written after the next one (3.8).

## 5. What is proved and what is only checked

Every invariant and every action property the passing runs check is proved for
every value of the constants, together with the refinements of `DigestLedger` and
`DigestWriters`. Some theorems have hypotheses, named in section 3.2; apart from them they
rest on the assumptions of the modules only, which TLC evaluates on every run.

Checked on the instances only: the liveness
properties (`QueueDrains`, `RescueReachesReady`, `ListedGetsDrafted`, `FiringEnds`,
`StopReturns`, `AlertArrives`, `OnlyFallbackHangs`), which stay with TLC since the
prover does not reason about fairness. Proved only, and on no run: `AlertsTraced`,
`Exact`.

## 6. What is not modelled

* Public articles: two read-only handlers of one query each. A reader who pages
  through them while digests are added may see one twice; no page of the
  repository does.
* Start-up of the database: connect, in the API with up to five attempts,
  migrate, or exit.
* That the hash of the Telegram widget and the signature of a token are verified
  and that a token is for the chat of the request: functions of one request
  without state.
* The age of the last success in `/readyz`: the scheduler model records that
  there was one.
* Content: prompts, facts, the text of digests and messages. An empty or
  unreadable answer of Gemini is a digest like any other, as in `parseResponse`.
* `middleware/telegram_auth.go`, `jobs/telegram_job.go`, the drafts' legacy
  operations (`MarkDraftsAsProcessed`, `ClearProcessedDrafts`), `Synthesize` and
  `synthesizeDirect`: nothing calls them.
* `published_cleanup` deletes digests older than a year; no component reads them
  for anything else than display. Its firings are in `Scheduler`.
