# ScrapeForge: a TLA+ verification of its core

This directory models the parts of ScrapeForge (`src/scrapeforge`) whose
correctness depends on interleaving, failure or timing, checks them with TLC on
small instances and proves the central results with TLAPS for every instance.
`PROJECT.json` lists components, runs, the source lines each definition stands
for, hazards and theorems.

## 1. The system

    client ──POST /jobs──► API ──┐ row (Postgres)        ┌─► scraper worker ──► object store
    clock ───tick────► scheduler ┴──► JOB queue (Redis) ─┘        │ pointer
                          │                                        ▼
                          └─► INGEST queue ─► community     RESULTS queue ─► transform worker
                                              ingest worker                     │
                                                   └──────► articles, jobs ◄────┘
    daily pipeline: ingest ─► summarize ─► embed ─► score ─► prune ─► digest mail

| Component | State | Operations | Talks to | What is hard |
|---|---|---|---|---|
| `core/queue` | three Redis lists per queue, `_inflight` per process | publish, reserve, ack, requeue, dead_letter, consume_once | every worker | competing workers, two-command settling, deaths, retry count |
| `worker/scraper_worker` | none but the message in hand | handle_scrape_job | engine, object store, both queues | calls that raise before or after their effect |
| `worker/transform_worker` | none but the pointer in hand | handle_result_pointer | object store, articles, jobs | early returns, duplicate pointers, lost updates |
| `api/routes/jobs` | – | submit_job | jobs, JOB queue | commit and publish are not one step |
| `core/db`, `core/storage/postgres` | jobs, articles | create_job, update_job_status, UPSERT | workers, API | read-modify-write, last writer wins |
| `core/objectstore` | objects by key | put, get | workers | overwrites under a key derived from the url |
| `core/engine`, `circuit_breaker`, `rate_limiter`, `proxy_rotator` | failures and pause, next slot and lock per domain | scrape, allow, record, acquire | scraper workers | state checked before an await and used after it |
| `core/registry`, `stealth_bridge`, `fingerprint_manager`, `drivers`, `scrapers/public`, `scrapers/community/_base` | registered domains, a profile and a session per call | discover, get_scraper, start, navigate, scrape | engine, proxies | which identity a request carries; which answer is told to whom |
| `worker/scheduler` | – | enqueue_due_sources | jobs, two queues | one failing source ends the tick |
| `worker/community_ingest_worker`, `scrapers/community/substack` | dedup set per run, offset | handle_ingest_job, scrape_publication | archive, object store, articles, jobs | partial progress and retry, paging over a list that changes |
| `core/storage/jsonl`, `scrapers/base` | data file, manifest, two sets, semaphore | write, seen, batch_scrape | CLI | crash between two appends, check before await |
| `worker/summarize_worker`, `pipeline/*` | summary, relevance, embedding, vectors, scores | summarize, embed, score, prune, sync | articles, profiles, LLM | stale reads across network calls, transactions of two runs |
| `digest` | – | build, deliver_all | articles, scores, SMTP | per-user failure isolation |
| `api/auth` | counters per key and minute | require_api_key | API routes | minute boundary |
| parsers, LLM and embedding adapters, CLIs | – | I/O, formatting | – | nothing a model checker reaches |

What makes each correct: a queue never duplicates a message by itself, counts
deliveries exactly and loses nothing silently; a job row ends done or error, or
there is a recorded reason why not; done means an article is stored; slots of a
domain are spaced and FIFO; the breaker's decision is the trip rule applied to
all reported outcomes; a summary or an embedding is of some text its article row
has had (not always the one it holds now: the UPSERT keeps both when it replaces
the text), and a profile vector is of the text its `source_hash` names; scores name
stored articles; a resumed run skips only what is stored and repeats nothing without
a reason; paging skips no post that stays; a request carries one identity, through
a proxy that answered; a digest reaches everyone whose own mail did not fail.

## 2. Modules

| Module | Models | State and actions |
|---|---|---|
| `MessageQueue` | the port `core/queue/base.py` as `memory.py` implements it | waiting list, messages in flight, dead letters; every operation one step. `Abandon` is a consumer that dies: no reaper exists, so its message leaves the queue |
| `RedisQueue` | `core/queue/redis_queue.py` under `consume_once` | the Redis lists, each worker's `msg` and `_inflight` bytes, and its place `pc`; one action per Redis command, so settling is `RequeueLrem` then `RequeueRpush`; `Die` and `Restart` |
| `JobPipeline` | `POST /jobs`, `scraper_worker`, `transform_worker`, jobs and articles tables, object store | two instances of `MessageQueue`; one action per await of a handler; `ScraperRaises`/`TransformerRaises` for an await that raised, before its effect or (one step later) after it; deaths |
| `ScrapeEngine` | `engine.scrape`, `circuit_breaker`, `rate_limiter` for one domain | clock, breaker (`failures`, `pausedUntil`), limiter (`lockQueue`, `wakeAt`, `nextAllowed`), the place of each call |
| `ScrapeCall` | `engine.scrape` past the slot: `registry`, `proxy_rotator`, `stealth_bridge`, `fingerprint_manager`, `curl_cffi_driver`, `scrape` of the public and community scrapers | the engine's registry, health and cooldown of each proxy, and for each call its candidates, proxy, session, outcome and what the breaker was told; one action per await: `Begin` up to the first, a health check, the request, the sink |
| `CommunityIngest` | `scheduler`, `community_ingest_worker`, `substack.scrape_publication` | an instance of `MessageQueue`, the archive and its author, the tick of the scheduler, and each worker's place, offset, results and sink |
| `LocalScrape` | `BaseScraper.batch_scrape`, the community commands and `JsonlSink` | data file, manifest, semaphore, each task's place in `write` and the page its scrape returned; three steps per write, `AppendFails`, `Die` |
| `Enrichment` | `pipeline/*`, `summarize_worker`, `digest` over one database | articles, profiles, vectors, scores as tables; runs as sequences of commands, each with its place, local variables and open transaction; statements take rows one by one, wait for rows of other transactions, and a circle of waits ends one run (`Deadlock`) |
| `RedisQueue_proofs`, `ScrapeEngine_proofs`, `JobPipeline_proofs`, `LocalScrape_proofs`, `ScrapeCall_proofs`, `CommunityIngest_proofs`, `Enrichment_proofs` | – | theorems |
| `QueueLemmas` | – | lemmas about numbers, sequences and the values of a queue that three of the proof modules share |
| `MC*` | – | instances for TLC |

`JobPipeline` composes with `MessageQueue`, not with `RedisQueue`: that
`RedisQueue` implements the port (theorem `RedisImplementsPort`) is what makes
the composition sound for safety. The port's `Abandon` covers both ways a dead
worker keeps a message from moving on, stranded in `:processing` or lost between
LREM and RPUSH. `CommunityIngest` composes with the same port; what its
scheduler sends to the JOB queue is `JobPipeline`'s `CreateJob` and `PublishJob`.
`ScrapeEngine` and `ScrapeCall` are the two halves of one method: the first has
the clock and leaves the outcome to choice, the second works the outcome out
and has no clock. The articles `JobPipeline` and `CommunityIngest` store are
what `Enrichment` reads.

Abstractions, by module:

* `RedisQueue`: a list entry is its id and attempts, as nothing else is compared.
  `:processing` is a set because LREM finds by value. A `QueueError` from a
  settling command ends the process (nothing catches it up to `main`), so a
  failed command is a death before or after its step.
* `JobPipeline`: a payload is a usable `page` or a `record`, that is whether
  `response_is_valid` accepts it, plus its rank among the PUTs. A url stands for
  the object key and the article id; jobs of one url with different buckets
  would have different keys and interfere less. `update_job_status` is split at
  its commit; the ORM writes only columns that differ from the row it had read,
  so `Commit` compares with that snapshot. Timestamps are left out. A transform
  that fails on a commit or any other call is `TransformerRaises`.
* `ScrapeEngine`: one domain, since breaker and limiter keep separate state for
  each. A step is never longer than what runs between two awaits (asking for a free
  lock does not suspend, so some are shorter); `Tick` may fall between any two,
  so a sleeper may wake arbitrarily late. The proxy check is an await of any
  length. The worker's engine has no sink, so no write follows a success.

* `ScrapeCall`: an answer is its code, whether the challenge marker is in it, and
  what its body is (a readable page, a thin one, a post, a post without text,
  other JSON, neither). Closing the session is part of the step that hears the
  answer, as no state is read in between. A machine is what each probe for
  Chrome finds, which modules cannot be imported and which custom domains are
  set; Chrome may be updated between calls. `mark_burned` is called by nothing
  in `src/scrapeforge` but belongs to the rotator's interface, so the model lets
  anybody call it. Cookies, storage and screenshots are left out.
* `CommunityIngest`: posts are numbers in the order they appear, and the archive is a
  descending sequence. There is one publication; publications share only the queue. A
  page is one step and each of its items another, as the body of a post is fetched in
  between. The author acts only while a worker pages (guard `Watched`): at other times
  the archive is read by nobody, and what changed would be there at the next page all
  the same. One message names one job, so the read and the commit of a status are one
  step.
* `LocalScrape`: an append is atomic (one write of a file opened for it). A
  command is a run with one permit that serves its list in order and never asks
  `seen()`, as the code of `community/cli.py` does not either. What a scrape of a
  url returns is a choice from `PagesOf`: a page under any url, because Reddit files
  a post under its permalink (`reddit.py:113-114`) and Substack under its canonical
  url (`substack.py:192`) while `seen()` is asked with the url of the list
  (`scrapers/base.py:106`), and with a content that may differ from one fetch to the
  next. `excused` counts, for each url, the lines that no answer of `seen()` could
  have prevented. `Die` is also a command whose next listing raises.
* `Enrichment`: a text is a version of its owner's content; what a model makes of
  it is that text. The call to a model and the write that follows are one step,
  because the answer depends on nothing but the question; the read is a step
  before. Relevance is a function of the article (`Dull`), nearness of a profile
  and an article is left to choice, and so is the order in a batch. `NewDay` and
  `Edit` occur only where a date or a source is about to be read: nobody sees
  them earlier. A command the workflow skips for want of a key is a program
  without it; `init-db` is the initial state. `sync-users` never deletes, so
  users who left keep their profile, as in the code.
  A transaction that touches several rows of articles or scores takes them one at a
  time, in any order. What it has deleted, updated or inserted is its own until it
  commits (`Keeps`, `KeepsScores`), and a new score shares the article it refers to
  (`Shares`), as a foreign key does. A DELETE of articles ends with its cascade to
  the scores (`models.py:214`), which waits for score rows that an open scoring has
  deleted; an INSERT of a score waits for the article a prune has deleted, or for
  another run's row of the same pair. `Circle` is a minimal set of runs that wait for
  each other: the database aborts one of them, and nothing catches that error. The
  UPSERTs of profiles and vectors stay one step: every run takes those rows in the
  order of one SELECT, and a deadlock would only be one more run that fails.

Definitions marked "Seeded defect" are plausible bugs that no action uses. Each
property is shown to fail when one of them replaces the real definition.

## 3. Runs

| Run | Instance | Shows |
|---|---|---|
| `redis_queue` | 3 messages, 2 workers, 1 retry, 2 deaths | `OneCopy`, `AttemptsExact`, `DeliveryBound`, `LremMatches`, `LossOnlyInSettleWindow`, `Settles` (liveness), `ImplementsPort` (refinement) |
| `redis_queue_loss` | same | refutes `RecoverableWithoutLoss` |
| `job_pipeline` | 2 jobs on one url, 1 scraper, 2 transform workers, 1 retry, 1 failing call, 1 death | `PointerResolves`, `DoneHasArticle`, `StuckJobIsExplained` |
| `job_pipeline_retries` | 1 job, 2 transform workers, 3 failing calls, 1 death | `StuckJobIsExplained`, `JobsFinish` (liveness) |
| `raw_page_kept`, `newest_data` | 2 jobs on one url, no failing call, no death | refute `RawPageIsKept`, `NewestDataStays` |
| `scrape_engine` | 4 calls, threshold 2, window, pause and interval 2 ticks, 8 ticks | `SlotsSpaced`, `SlotsInOrder`, `GateFollowsPolicy` |
| `requests_while_paused` | same | refutes `NoRequestWhilePaused` |
| `scrape_call` | 2 calls, 2 proxies, 4 sites, 4 machines, one burn mark, one Chrome update | `OneIdentity`, `OutcomeExplained`, `ProxyIsVouched` |
| `community_ingest` | 3 sources of different kinds, 1 tick, an archive of 3 to 4 posts in pages of 2, 1 deletion, 1 retry, 2 failing calls, 1 death | `TickCoversSources`, `NothingSkipped`, `DoneCountsArticles`, `StuckIngestIsExplained`, `IngestEnds` (liveness) |
| `local_scrape` | 4 tasks with a repeated url, a page that changes, one filed under another url, a repeated content, 2 permits, 3 runs, 2 failing calls, deaths at will | `LeftOutIsStored`, `RepeatsAreCounted`, `ContentsExplained`, `RunsFinish` (liveness) |
| `enrichment` | 2 articles, 2 users and the owner with a score each, batches of 1 (of 2 for vectors), cap 1, 2 days, 1 edit, 1 failing call, 9 pairs of programs | `MadeFromItsOwnText`, `DrainEndsForAReason`, `ScoresHold`, `DigestsReachEveryone`, `QuietPruneMeetsTheCap`, `RunsEnd` (liveness) |

Bounds. Three messages and two workers give a message behind another one, two
deliveries in parallel and a requeue into a non-empty list; with one retry a message
can fail, be requeued, be taken by the other worker and be dead-lettered, and two
deaths hit both workers or one of them twice. All jobs of a pipeline instance share
one url because urls do not interfere otherwise; two transform workers are needed
for every lost update; two failing calls per message exhaust a retry limit of 1, so
three let both queues dead-letter. With threshold 2 and four calls the breaker
trips, pauses, reopens and can trip again within eight ticks; window and pause of
two ticks make each boundary instant distinct. Two proxies are one to fail and one
to fall back to, and two calls are what it takes for a check to overwrite a burn
mark. The four machines have Chrome between two known aliases, below all of them,
hidden behind a key without version, and a custom domain that is registered twice
(the engine's constructor then raises). A page of two and four posts give a second
page, a post that shifts the offset while it is fetched, and a page without anything
to keep; one death and two failing calls give a retry after partial progress and a
dead letter. Three local runs are one that is cut, one that repeats and one that
skips; a page filed under the url of another position is what makes the manifest
answer for the wrong one. In `enrichment` every limit but the batch of vectors is 1,
so that two articles already need a second batch, exceed the cap and compete for the
top; the first pair is the whole workflow, the others put the commands that share a
table side by side. Two articles are what a deadlock of two prunes, or of a prune
with an embedding or a scoring, takes: each has one row and waits for the other's.
Two scorings wait for each other in a circle only from two scores a user on, which
the instance does not have. `scrape_engine`, `scrape_call` and
`requests_while_paused` use symmetry of the calls: none has liveness properties.
`CHECK_DEADLOCK FALSE` is set where the instance really ends: all messages settled,
all calls finished or the clock at its bound.

Fairness. `RedisQueue` and `JobPipeline` assume weak fairness of each worker's
own steps: workers poll for ever and every call they await has a timeout, so a
worker that did not fail goes on. `Restart` is weakly fair by
`restart: unless-stopped` in `docker-compose.yml`. No fairness is assumed of
publishers creating jobs, of failures or of deaths. `CommunityIngest` assumes
the same of its worker and of a tick the scheduler has begun, `LocalScrape` of
each task and of the end of `gather` (every scrape has a timeout), `Enrichment`
of each run, where a command that waits for a row of another transaction is not
enabled, and one in a circle of waits has `Deadlock` as its only step. No strong
fairness is needed.

### Disagreements with the documentation

* `RecoverableWithoutLoss`: a death between LREM and RPUSH loses the message,
  against "can be recovered without loss".
* `RawPageIsKept`: a failed scrape of the same url replaces the archived page,
  against "immutable, replayable".
* `NewestDataStays`: with two transform workers the older payload may be written
  last, against "always reflects the most-recently scraped data".
* `NoRequestWhilePaused`: calls admitted before a trip still go out, against
  "stops hammering".

Others are not runs of their own but the exact conditions of properties that hold:

* `OneIdentity`: the User-Agent stays the template's while the TLS target
  follows the Chrome that was detected; the two name the same Chrome only when
  the closest alias is the template's. `fingerprint_manager.py:8-10` promises a
  coherent identity.
* `OutcomeExplained`: nothing raises `ProxyError`, so status `proxy_failed` never
  occurs; an answer that never came raises a curl error out of `scrape`, although
  `drivers/base.py:56` promises a `DriverError`, and so does a page sent with code
  200 where a community site's JSON was expected. The breaker hears of neither.
* `StuckJobIsExplained`, `StuckIngestIsExplained`: rows whose message was
  dead-lettered, lost or never sent stay `queued` or `running`, and nothing
  in the repository takes them up again.
* `ScoresHold`: two runs of `score-users` at the same time can leave a user more
  than `EMBED_TOP_K` scores, as each deletes only the rows it saw. Such users are
  exempt (`mixed`).
* `RunsEnd` of `Enrichment`: a prune and a scoring, or two runs that change the same
  articles, can wait for each other; Postgres then aborts one of them and its command
  fails. No data is lost, but no code retries it before the next workflow run.
* `ContentsExplained`: two writes of the same content at the same time both pass
  the check for duplicates, which is before the first await.
* `RepeatsAreCounted`: `core/storage/base.py:35-36` says that "`write()` is idempotent
  per URL: re-writing the same URL (or content) is silently skipped". `JsonlSink.write`
  looks only for the content hash (`jsonl.py:82`), among those of its own run, and never
  for the url, so the property has to count what nobody asked `seen()` about: the
  community commands (`cli.py:51-55`), which append every article again in a second
  run, and a post filed under another url than the one asked for, which every resumed
  run scrapes and writes again.

## 4. Proofs

`RedisQueue_proofs`, from `RetriesAssumption`, `DeathsAssumption` and
`NoneAssumption` only. None of the invariants is inductive alone. The inductive
invariant is the conjunction of the type invariant, `OneCopy`, `LremMatches`,
`AttemptsExact` and the bounds, together with facts the run does not need: an
entry in `:processing` that no live worker holds is stranded with its id in no
other place, and every id in any place was published. `OneCopy` needs
`LremMatches` (otherwise a settled entry would stay in `:processing`),
`AttemptsExact` needs `OneCopy` (otherwise two copies would count deliveries of
each other), and `DeliveryBound` follows from `AttemptsExact` and the
comparison in `consume_once`. `LossOnlyInSettleWindow` and the refinement
`RedisImplementsPort` are then one step per action: LMOVE is the port's
`Reserve`, the last command of a settling call is `Ack`, `Requeue` or
`DeadLetter`, LREM of the two-command calls stutters, and a death is `Abandon`.

`ScrapeEngine_proofs`, from `ParametersAssumption`. `SlotsSpaced` needs that the
sleeper is the head of the lock queue, and that every granted slot is at least
one interval before `nextAllowed`, which the wake-up instant never precedes.
`SlotsInOrder` needs that the granted calls followed by the lock queue are
exactly the calls admitted, in order.

`JobPipeline_proofs`, from `UrlOfAssumption` and `NoneAssumption`, for any jobs,
urls, workers, faults and deaths. Four layers:

1. `QueueOK` says of one queue and its consumers that an id is in one place only,
   waiting or with one busy consumer. It is stated over the queue's values, so
   that the lemmas `PublishOK`, `ReserveOK`, `SettleOK` and `RequeueOK` serve both
   queues. That a busy worker's message is in flight is what enables its settling.
2. `IInv` adds what each place of a handler has established (`Rows`, `Fetched`,
   `Validated`): the payload is archived before the pointer is published, the
   page was validated before it is written, and an article is stored before
   a commit of `done`. `TypeOK`, `PointerResolves` and `DoneHasArticle` follow.
3. `Owed`, for `StuckJobIsExplained`: a row that is not terminal is lost for a
   named reason or worked on by somebody, where the work of a scraper ends with the
   pointer and that of a transform with its last commit. The point is the
   lost update: a commit of `done` by a transform that had read `done` writes
   nothing, so such a transform does not count as working (`Pending`); and whoever
   set the row back to `running` in between is itself still pending.
4. `Orderly`, for `FlowWithoutFailures`: with no failed call a job has at most one
   pointer, so one transform only writes its row, and the status is the one
   its place says.

`LocalScrape_proofs`, from `TasksAssumption` and `BoundsAssumption`. The counting
of permits is part of `TypeOK` and needs the finiteness of the set of tasks.
`LeftOutIsStored` needs that every url in the manifest has a line and that what
the sink remembers is in the file (`Stored`). `RepeatsAreCounted` is a bound, not
inductive by itself: a url outside the manifest has no unexcused line but those about
to be enlisted (`TornAreExcused`), so a batch that lets a position through starts
with none, and from then on its unexcused lines are at most the positions past their
append (`FreshAreAhead`), which are at most those listed. `ContentsExplained` needs
that a content with a line is in memory, on its way there, or among the overlaps
(`ContentsKnown`), and that two writes of one content at the same time are recorded
as such (`PairsExplained`). Nothing is assumed of `PagesOf`.

`ScrapeCall_proofs`, from `ParametersAssumption`. `Shapes` is the type invariant
with what a machine and a registry look like. `OneIdentity` is `Built`: a session
was made by `Launch` for its call and is unchanged since; that the alias chosen is
the closest one is a lemma about `ImpersonateTarget` for every ascending list of
aliases. `ProxyIsVouched` needs `Tried` (candidates, failed and left-out proxies
together are all proxies) and `Marked` (a resting proxy is burned or was
overwritten). `OutcomeExplained` rests on lemmas that say which answer gives which
outcome, for every registry; that the registry never changes while calls are under
way makes the statement about the past answer inductive.

`CommunityIngest_proofs`, from `SourcesAssumption`, `NumbersAssumption` and
`NoneAssumption`, for any sources, posts, limits, workers, ticks and faults. Its
`IInv` has five parts, each about one property and using those before it:

1. `Shapes`: the types, and `QueueOK` of the INGEST queue and its workers, by the
   same lemmas as above.
2. `Schedule`, for `TickCoversSources`: a source that is due has not been sent in
   this tick, only the current one may have its row already, and the others have
   row and message. A tick cut short by a failing call leaves exactly that one.
3. `Answers`, for `StuckIngestIsExplained`: a worker that is about to settle
   has an answer on record, or the call that should have recorded it raised.
4. `Counts`, for `DoneCountsArticles`: the running count is the size of the sink's
   set, whose members are stored; a post about to be written is in the object store.
5. `Pages`, for `NothingSkipped`, which is the deep one. The archive descends. A
   post that a scrape still owes (there at the start, neither found nor missed) is
   in the rest of the page or at a place beyond the offset, and it is older than
   everything served. New posts shift the archive towards the end, so a place beyond
   the offset stays beyond it; a deletion shifts it back, which is why the property
   excepts it. The order between what is owed and what was found is needed too:
   without it, a limit that is reached in the middle of a page could leave out a
   newer post than one it kept.

`Enrichment_proofs`, from `NamesAssumption`, `LimitsAssumption` and
`NoneAssumption`, for any articles, users, programs, batch sizes and number of
runs. One lemma per action says what it makes of its own job and of the others
(`Solo`, `Bystander`); `RunSteps` sums them up: a run begins again with nothing in
hand, or it proceeds and touches only what its command uses. `RowsStep` does the
same for the rows: a text stays among those its row has had, no summary is
taken away, and only an ingest or the commit of a prune changes a date or
whether a row is there. On that rest the parts of `IInv`:

* `Shapes` and `TextsKept`, for `MadeFromItsOwnText`: what a command has in hand has
  the text its article had when it was read, and history only grows, so the
  write after the network call is of a text the row has had, even if the row
  was replaced or deleted in between.
* `Scores`, for `ScoresHold`: at most one run has a transaction open for a user who
  is not in `mixed`, and that user's scores are among the rows its DELETE saw. That
  scores name stored articles is the work of the locks: an article a prune has deleted
  has no score left that it has not deleted or is about to (`Locking`), no two
  transactions have changed the same row, and none has deleted an article that a new
  score of another refers to (`Apart`, by `Shares`). The commit of a prune then takes
  no article from under a score, and an INSERT that finds its article gone is refused.
* `Mails`: a user with a digest has a letter waiting, was mailed, or failed.
* `Drains`, for `DrainEndsForAReason`: an article still pending in a batch that has
  persisted nothing is in the batch or has failed, or the batch was full. The lemma
  `NewestIsFull` (whoever is not among the newest n leaves n others that are)
  is what excludes an article that no batch reaches.
* `Prunes`, for the action property `QuietPruneMeetsTheCap`: each statement of an
  undisturbed prune finds what the one before it left, all that was chosen for the cap
  is deleted or about to be, so that count, selection and
  delete agree; every step of another run that could change them sets `disturbed`.

`GateFollowsPolicy`, at the end of `ScrapeEngine_proofs`, has an invariant of its own.
The breaker keeps a set of failures and one instant; the rule is about all outcomes.
`Reports`: each call reports once, so that outcomes can be counted by caller
(`CountsAgree` is the bijection). `Counted`: the failures kept are those
that counted at the last outcome, although each report drops only what
has left the window by then. `Trips`: the pause is that of some outcome that
tripped, and no tripped outcome's pause that is not over is longer; that is why
clearing an elapsed pause in `allow` and overwriting a running one are both sound.

Only model-checked: `Settles`, `JobsFinish`, `IngestEnds`, `RunsFinish` and `RunsEnd`. They
are liveness properties, which are outside the prover's reach; every invariant and
every action property of the passing runs is a theorem. Only proved:
`FlowWithoutFailures`, which no run checks. The theorems are
about `Spec`, without fairness, and so hold of the fair specifications.

## 5. Not modelled

* API authentication: `require_api_key` is one function without an await, so
  nothing interleaves with it. Its counter starts anew at each minute, so that a
  quota can be used up on both sides of a boundary; that is listed as a hazard
  without property. Query routes of the API: single reads.
* LLM and embedding adapters: stateless calls; what they answer or raise is a
  choice in `Enrichment`.
* Feed parsers, the Reddit listing, selectors, rendering of a digest, settings,
  CLIs, session factory and migrations: I/O, formatting and wiring.
* The object store's client: bucket creation and error mapping.
* Several engines in several scraper workers: each has its own limiter and
  breaker, so only what holds per process can hold.

## 6. Plan

Done: all modules of section 2, with a theorem for every safety property.

Left, in this order:

1. An abstract specification of a job's row, as `POST /jobs` promises it, implemented
   by `JobPipeline` while no call fails; today `FlowWithoutFailures` says it
   as an invariant.
2. An abstract breaker that keeps all outcomes, implemented by `ScrapeEngine`: the
   invariant of `GateFollowsPolicy` is its refinement mapping.
3. The feed parser and the Reddit listing as pure operators against a reference
   definition.
