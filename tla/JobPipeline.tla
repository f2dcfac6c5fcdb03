---------------------------- MODULE JobPipeline ----------------------------
(***************************************************************************)
(* The scrape pipeline: POST /jobs (or the scheduler) creates a job row    *)
(* and publishes a JobMessage; scraper workers fetch, archive the raw      *)
(* payload and publish a ResultPointer; transform workers read the raw     *)
(* payload back, write the article and own the status of the job.          *)
(*                                                                         *)
(* The two queues are two instances of the MessageQueue port, which        *)
(* RedisQueue implements.  Each await of a handler is a step, so that      *)
(* several workers interleave at the points where the code yields.  The    *)
(* raw payload is reduced to whether the transform's validation accepts    *)
(* it, and to its place in the order of the PUTs.                          *)
(***************************************************************************)
EXTENDS Naturals, Sequences

CONSTANTS Jobs,          \* job ids (uuid4) that may be submitted
          Urls,          \* target urls; object key and article id are hashes of them
          UrlOf,         \* the url each job asks for
          Scrapers,      \* scraper worker processes
          Transformers,  \* transform worker processes
          MaxRetries,    \* settings.QUEUE_MAX_RETRIES
          MaxFaults,     \* bound: calls that fail in one behaviour
          MaxDeaths,     \* bound: worker deaths in one behaviour
          None

ASSUME UrlOfAssumption == UrlOf \in [Jobs -> Urls]
ASSUME BoundsAssumption == MaxRetries \in Nat /\ MaxFaults \in Nat /\ MaxDeaths \in Nat

VARIABLES
    jobPublished, jobWaiting, jobInflight, jobDead,   \* JOB queue
    resPublished, resWaiting, resInflight, resDead,   \* RESULTS queue
    submission,   \* what the request handler has done for each job
    row,          \* the jobs table
    object,       \* the object store, by url
    article,      \* the articles table, by url: the payload it was made from
    scPc, scMsg, scGot,   \* each scraper worker: place, message, fetched payload
    trPc, trMsg, trGot,   \* each transform worker: place, message, payload read,
    trRow,                \* and the job row its session has read
    puts,         \* history: how many PUTs so far
    faults,       \* history: how many calls failed so far
    deaths,       \* history: worker deaths so far
    casualties    \* history: jobs whose message was in flight at a death

jobQueue == <<jobPublished, jobWaiting, jobInflight, jobDead>>
resQueue == <<resPublished, resWaiting, resInflight, resDead>>
stores   == <<row, object, article>>
scraperVars     == <<scPc, scMsg, scGot>>
transformerVars == <<trPc, trMsg, trGot, trRow>>
history  == <<puts, faults, deaths, casualties>>
vars == <<jobQueue, resQueue, submission, stores, scraperVars, transformerVars, history>>

\* A ResultPointer: one scrape attempt of a job and the status it ended with.
Pointer == [job : Jobs, attempt : 1..(MaxRetries + 1), status : {"success", "failed"}]

JobQ == INSTANCE MessageQueue WITH Ids <- Jobs, published <- jobPublished,
            waiting <- jobWaiting, inflight <- jobInflight, dead <- jobDead
ResQ == INSTANCE MessageQueue WITH Ids <- Pointer, published <- resPublished,
            waiting <- resWaiting, inflight <- resInflight, dead <- resDead

\* What a fetch ends with.  A success without usable HTML is a platform whose
\* articles carry no page; anything but a success is archived as a record.
Outcome == {[status |-> "success", kind |-> "page"],
            [status |-> "success", kind |-> "record"],
            [status |-> "failed",  kind |-> "record"]}
Raw == [kind : {"page", "record"}, nr : Nat]

\* A row of the jobs table: status, article_count, and whether error is set.
Row == [status : {"queued", "running", "done", "error"}, count : {0, 1}, error : BOOLEAN]

ASSUME NoneAssumption ==
    /\ None \notin Row \union Raw \union Outcome
    /\ None \notin JobQ!Message \union ResQ!Message

Terminal(j) == row[j] # None /\ row[j].status \in {"done", "error"}

Init ==
    /\ JobQ!QueueInit /\ ResQ!QueueInit
    /\ submission = [j \in Jobs |-> "none"]
    /\ row = [j \in Jobs |-> None]
    /\ object = [u \in Urls |-> None] /\ article = [u \in Urls |-> None]
    /\ scPc = [s \in Scrapers |-> "idle"]
    /\ scMsg = [s \in Scrapers |-> None] /\ scGot = [s \in Scrapers |-> None]
    /\ trPc = [t \in Transformers |-> "idle"]
    /\ trMsg = [t \in Transformers |-> None] /\ trGot = [t \in Transformers |-> None]
    /\ trRow = [t \in Transformers |-> None]
    /\ puts = 0 /\ faults = 0 /\ deaths = 0 /\ casualties = {}

-----------------------------------------------------------------------------
(* POST /jobs, and the scheduler for a single-url source: commit the row,  *)
(* then publish.                                                           *)
CreateJob(j) ==
    /\ submission[j] = "none"
    /\ row' = [row EXCEPT ![j] = [status |-> "queued", count |-> 0, error |-> FALSE]]
    /\ submission' = [submission EXCEPT ![j] = "created"]
    /\ UNCHANGED <<jobQueue, resQueue, object, article, scraperVars, transformerVars, history>>

PublishJob(j) ==
    /\ submission[j] = "created"
    /\ JobQ!Publish(j)
    /\ submission' = [submission EXCEPT ![j] = "published"]
    /\ UNCHANGED <<resQueue, stores, scraperVars, transformerVars, history>>

\* publish raised, or the process died before it: the row stays.
PublishJobFails(j) ==
    /\ submission[j] = "created" /\ faults < MaxFaults
    /\ faults' = faults + 1
    /\ submission' = [submission EXCEPT ![j] = "failed"]
    /\ UNCHANGED <<jobQueue, resQueue, stores, scraperVars, transformerVars,
                   puts, deaths, casualties>>

-----------------------------------------------------------------------------
(* The scraper worker: handle_scrape_job under consume_once.               *)
TakeJob(s) ==
    /\ scPc[s] = "idle"
    /\ JobQ!Reserve
    /\ scMsg' = [scMsg EXCEPT ![s] = JobQ!Delivered(Head(jobWaiting))]
    /\ scPc' = [scPc EXCEPT ![s] = "fetch"]
    /\ UNCHANGED <<resQueue, submission, stores, scGot, transformerVars, history>>

(* Seeded defect: the pointer is published before the payload is archived. *)
FetchThenPublish(s) ==
    /\ scPc[s] = "fetch"
    /\ \E o \in Outcome : scGot' = [scGot EXCEPT ![s] = o]
    /\ scPc' = [scPc EXCEPT ![s] = "publish"]
    /\ UNCHANGED <<jobQueue, resQueue, submission, stores, scMsg, transformerVars, history>>

(* Seeded defect: a failed fetch is acknowledged without a pointer.        *)
FetchDropsFailures(s) ==
    /\ scPc[s] = "fetch"
    /\ \E o \in Outcome :
          /\ scGot' = [scGot EXCEPT ![s] = o]
          /\ scPc' = [scPc EXCEPT ![s] = IF o.status = "failed" THEN "ack" ELSE "put"]
    /\ UNCHANGED <<jobQueue, resQueue, submission, stores, scMsg, transformerVars, history>>

Fetch(s) ==
    /\ scPc[s] = "fetch"
    /\ \E o \in Outcome : scGot' = [scGot EXCEPT ![s] = o]
    /\ scPc' = [scPc EXCEPT ![s] = "put"]
    /\ UNCHANGED <<jobQueue, resQueue, submission, stores, scMsg, transformerVars, history>>

\* put overwrites: the key depends on the bucket and the url only.
PutRaw(s) ==
    /\ scPc[s] = "put"
    /\ object' = [object EXCEPT ![UrlOf[scMsg[s].id]] =
                     [kind |-> scGot[s].kind, nr |-> puts + 1]]
    /\ puts' = puts + 1
    /\ scPc' = [scPc EXCEPT ![s] = "publish"]
    /\ UNCHANGED <<jobQueue, resQueue, submission, row, article, scMsg, scGot,
                   transformerVars, faults, deaths, casualties>>

PointerOf(s) == [job |-> scMsg[s].id, attempt |-> scMsg[s].attempts, status |-> scGot[s].status]

PublishPointer(s) ==
    /\ scPc[s] = "publish"
    /\ ResQ!Publish(PointerOf(s))
    /\ scPc' = [scPc EXCEPT ![s] = "ack"]
    /\ UNCHANGED <<jobQueue, submission, stores, scMsg, scGot, transformerVars, history>>

ScraperIdle(s) ==
    /\ scPc' = [scPc EXCEPT ![s] = "idle"]
    /\ scMsg' = [scMsg EXCEPT ![s] = None]
    /\ scGot' = [scGot EXCEPT ![s] = None]

AckJob(s) ==
    /\ scPc[s] = "ack"
    /\ JobQ!Ack(scMsg[s])
    /\ ScraperIdle(s)
    /\ UNCHANGED <<resQueue, submission, stores, transformerVars, history>>

\* An await of the handler raised.  At "publish" the PUT, and at "ack" the
\* RPUSH, had taken effect and only its answer was lost.
ScraperRaises(s) ==
    /\ scPc[s] # "idle" /\ faults < MaxFaults
    /\ JobQ!Requeue(scMsg[s]) \/ JobQ!DeadLetter(scMsg[s])
    /\ faults' = faults + 1
    /\ ScraperIdle(s)
    /\ UNCHANGED <<resQueue, submission, stores, transformerVars, puts, deaths, casualties>>

\* The process dies and Docker starts another one in its place.
ScraperDies(s) ==
    /\ scPc[s] # "idle" /\ deaths < MaxDeaths
    /\ JobQ!Abandon(scMsg[s])
    /\ deaths' = deaths + 1
    /\ casualties' = casualties \union {scMsg[s].id}
    /\ ScraperIdle(s)
    /\ UNCHANGED <<resQueue, submission, stores, transformerVars, puts, faults>>

-----------------------------------------------------------------------------
(* The transform worker: handle_result_pointer under consume_once.         *)
JobOf(t) == trMsg[t].id.job

TakePointer(t) ==
    /\ trPc[t] = "idle"
    /\ ResQ!Reserve
    /\ trMsg' = [trMsg EXCEPT ![t] = ResQ!Delivered(Head(resWaiting))]
    /\ trPc' = [trPc EXCEPT ![t] = "running_get"]
    /\ UNCHANGED <<jobQueue, submission, stores, trGot, trRow, scraperVars, history>>

(* update_job_status: session.get reads the row, the assignments and the   *)
(* commit follow.  The ORM writes only the columns whose value differs     *)
(* from the one it read, onto whatever the row holds by then.              *)
GetRow(t, from, to) ==
    /\ trPc[t] = from
    /\ trRow' = [trRow EXCEPT ![t] = row[JobOf(t)]]
    /\ trPc' = [trPc EXCEPT ![t] = to]
    /\ UNCHANGED <<jobQueue, resQueue, submission, stores, trMsg, trGot, scraperVars, history>>

Commit(t, values) ==
    /\ row' = [row EXCEPT ![JobOf(t)] =
                  [c \in DOMAIN @ |-> IF c \in DOMAIN values /\ values[c] # trRow[t][c]
                                      THEN values[c] ELSE @[c]]]
    /\ trRow' = [trRow EXCEPT ![t] = None]
    /\ UNCHANGED <<jobQueue, resQueue, submission, object, article, trMsg, trGot,
                   scraperVars, history>>

GetForRunning(t) == GetRow(t, "running_get", "running_commit")
GetForDone(t)    == GetRow(t, "done_get", "done_commit")
GetForError(t)   == GetRow(t, "error_get", "error_commit")

(* Seeded defect: the early return forgets to mark the job.                *)
MarkRunningOnly(t) ==
    /\ trPc[t] = "running_commit"
    /\ Commit(t, [status |-> "running"])
    /\ trPc' = [trPc EXCEPT ![t] = IF trMsg[t].id.status = "success" THEN "read" ELSE "ack"]

MarkRunning(t) ==
    /\ trPc[t] = "running_commit"
    /\ Commit(t, [status |-> "running"])
    /\ trPc' = [trPc EXCEPT ![t] =
                   IF trMsg[t].id.status = "success" THEN "read" ELSE "error_get"]

(* Seeded defect: the payload is not validated.                            *)
ReadRawUnchecked(t) ==
    /\ trPc[t] = "read"
    /\ trGot' = [trGot EXCEPT ![t] = object[UrlOf[JobOf(t)]]]
    /\ trPc' = [trPc EXCEPT ![t] = IF trGot'[t] # None THEN "write" ELSE "error_get"]
    /\ UNCHANGED <<jobQueue, resQueue, submission, stores, trMsg, trRow, scraperVars, history>>

\* store.get, then response_is_valid: an absent or unusable payload fails.
ReadRaw(t) ==
    /\ trPc[t] = "read"
    /\ trGot' = [trGot EXCEPT ![t] = object[UrlOf[JobOf(t)]]]
    /\ trPc' = [trPc EXCEPT ![t] =
                   IF trGot'[t] # None /\ trGot'[t].kind = "page" THEN "write" ELSE "error_get"]
    /\ UNCHANGED <<jobQueue, resQueue, submission, stores, trMsg, trRow, scraperVars, history>>

\* The UPSERT by url: last writer wins.
WriteArticle(t) ==
    /\ trPc[t] = "write"
    /\ article' = [article EXCEPT ![UrlOf[JobOf(t)]] = trGot[t]]
    /\ trPc' = [trPc EXCEPT ![t] = "done_get"]
    /\ UNCHANGED <<jobQueue, resQueue, submission, row, object, trMsg, trGot, trRow,
                   scraperVars, history>>

(* Seeded defect: the deliveries are counted, not the articles.            *)
MarkDoneCountsAttempts(t) ==
    /\ trPc[t] = "done_commit"
    /\ Commit(t, [status |-> "done", count |-> trMsg[t].attempts])
    /\ trPc' = [trPc EXCEPT ![t] = "ack"]

MarkDone(t) ==
    /\ trPc[t] = "done_commit"
    /\ Commit(t, [status |-> "done", count |-> 1])
    /\ trPc' = [trPc EXCEPT ![t] = "ack"]

\* error is assigned here and nowhere else, so nothing ever clears it.
MarkError(t) ==
    /\ trPc[t] = "error_commit"
    /\ Commit(t, [status |-> "error", count |-> 0, error |-> TRUE])
    /\ trPc' = [trPc EXCEPT ![t] = "ack"]

TransformerIdle(t) ==
    /\ trPc' = [trPc EXCEPT ![t] = "idle"]
    /\ trMsg' = [trMsg EXCEPT ![t] = None]
    /\ trGot' = [trGot EXCEPT ![t] = None]
    /\ trRow' = [trRow EXCEPT ![t] = None]

AckPointer(t) ==
    /\ trPc[t] = "ack"
    /\ ResQ!Ack(trMsg[t])
    /\ TransformerIdle(t)
    /\ UNCHANGED <<jobQueue, submission, stores, scraperVars, history>>

\* Any await raised, before its effect or, one step later, after it.
TransformerRaises(t) ==
    /\ trPc[t] # "idle" /\ faults < MaxFaults
    /\ ResQ!Requeue(trMsg[t]) \/ ResQ!DeadLetter(trMsg[t])
    /\ faults' = faults + 1
    /\ TransformerIdle(t)
    /\ UNCHANGED <<jobQueue, submission, stores, scraperVars, puts, deaths, casualties>>

TransformerDies(t) ==
    /\ trPc[t] # "idle" /\ deaths < MaxDeaths
    /\ ResQ!Abandon(trMsg[t])
    /\ deaths' = deaths + 1
    /\ casualties' = casualties \union {JobOf(t)}
    /\ TransformerIdle(t)
    /\ UNCHANGED <<jobQueue, submission, stores, scraperVars, puts, faults>>

-----------------------------------------------------------------------------
Submit(j)       == CreateJob(j) \/ PublishJob(j) \/ PublishJobFails(j)
ScraperStep(s)  == TakeJob(s) \/ Fetch(s) \/ PutRaw(s) \/ PublishPointer(s) \/ AckJob(s)
TransformStep(t) == \/ TakePointer(t) \/ GetForRunning(t) \/ MarkRunning(t)
                    \/ ReadRaw(t) \/ WriteArticle(t) \/ GetForDone(t) \/ MarkDone(t)
                    \/ GetForError(t) \/ MarkError(t) \/ AckPointer(t)

Next ==
    \/ \E j \in Jobs : Submit(j)
    \/ \E s \in Scrapers : ScraperStep(s) \/ ScraperRaises(s) \/ ScraperDies(s)
    \/ \E t \in Transformers : TransformStep(t) \/ TransformerRaises(t) \/ TransformerDies(t)

Spec == Init /\ [][Next]_vars

\* A handler that neither raised nor died goes on: every await of it has a
\* timeout, and both worker processes poll for ever.
Fairness ==
    /\ \A j \in Jobs : WF_vars(PublishJob(j) \/ PublishJobFails(j))
    /\ \A s \in Scrapers : WF_vars(ScraperStep(s))
    /\ \A t \in Transformers : WF_vars(TransformStep(t))

FairSpec == Spec /\ Fairness
-----------------------------------------------------------------------------
\* The work of a job is still somewhere: in a queue or with a live worker.
InProgress(j) ==
    \/ submission[j] = "created"
    \/ \E k \in 1..Len(jobWaiting) : jobWaiting[k].id = j
    \/ \E m \in jobInflight : m.id = j
    \/ \E k \in 1..Len(resWaiting) : resWaiting[k].id.job = j
    \/ \E m \in resInflight : m.id.job = j

\* Why the row of a job may stay unfinished for ever.
GivenUp(j) ==
    \/ submission[j] = "failed"
    \/ \E k \in 1..Len(jobDead) : jobDead[k].id = j
    \/ \E k \in 1..Len(resDead) : resDead[k].id.job = j
    \/ j \in casualties

(* Every variable has its type.                                            *)
TypeOK ==
    /\ submission \in [Jobs -> {"none", "created", "published", "failed"}]
    /\ row \in [Jobs -> Row \union {None}]
    /\ object \in [Urls -> Raw \union {None}]
    /\ article \in [Urls -> Raw \union {None}]
    /\ scPc \in [Scrapers -> {"idle", "fetch", "put", "publish", "ack"}]
    /\ scMsg \in [Scrapers -> JobQ!Message \union {None}]
    /\ scGot \in [Scrapers -> Outcome \union {None}]
    /\ trPc \in [Transformers -> {"idle", "running_get", "running_commit", "read", "write",
                      "done_get", "done_commit", "error_get", "error_commit", "ack"}]
    /\ trMsg \in [Transformers -> ResQ!Message \union {None}]
    /\ trGot \in [Transformers -> Raw \union {None}]
    /\ trRow \in [Transformers -> Row \union {None}]
    /\ casualties \subseteq Jobs

(* Claim check: whatever pointer is on its way to the transform, the       *)
(* payload it points to is in the object store, and the job row it will    *)
(* update exists.                                                          *)
PointerResolves ==
    \A p \in resPublished : object[UrlOf[p.job]] # None /\ row[p.job] # None

(* A job is done only when an article of its url is stored, and no article *)
(* is ever built from the record of a failed or page-less fetch.           *)
DoneHasArticle ==
    /\ \A j \in Jobs : row[j] # None /\ row[j].status = "done" => article[UrlOf[j]] # None
    /\ \A u \in Urls : article[u] # None => article[u].kind = "page"

(* A row that is not terminal and that nobody works on any more has a      *)
(* reason: its submission failed, its message or pointer was dead-lettered,*)
(* or a worker died with it.  In particular no early return of a handler,  *)
(* and no lost update between two handlers, leaves a job running for ever. *)
StuckJobIsExplained ==
    \A j \in Jobs : row[j] # None /\ ~Terminal(j) => InProgress(j) \/ GivenUp(j)

(* As long as no call has failed, a row goes queued, running, done|error   *)
(* and stops there, whatever dies and however the workers interleave.      *)
Flow == {<<"queued", "running">>, <<"running", "done">>, <<"running", "error">>}
FlowStep ==
    \A j \in Jobs : row[j] # None /\ row'[j].status # row[j].status =>
        faults > 0 \/ <<row[j].status, row'[j].status>> \in Flow
FlowWithoutFailures == [][FlowStep]_vars

(* Every job that got a row ends done or error, or for a known reason not. *)
JobsFinish == \A j \in Jobs : row[j] # None ~> Terminal(j) \/ GivenUp(j)

(* SPEC Invariant 18 says raw is "durable the instant it is fetched" and   *)
(* "immutable".  Refuted: the record of a later failed attempt of the same *)
(* url replaces the page.                                                  *)
RawPageIsKept ==
    [][\A u \in Urls : object[u] # None /\ object[u].kind = "page"
                          => object'[u].kind = "page"]_vars

(* PostgresSink says the UPSERT "always reflects the most-recently scraped *)
(* data".  Refuted with two transform workers: the slower one overwrites   *)
(* the article with the older payload it had read.                         *)
NewestDataStays ==
    [][\A u \in Urls : article[u] # None => article'[u].nr >= article[u].nr]_vars
=============================================================================
