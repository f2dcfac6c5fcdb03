-------------------------- MODULE CommunityIngest --------------------------
(***************************************************************************)
(* Scheduled ingestion of a community publication: the scheduler turns     *)
(* each enabled source into a job row and a message, the community-ingest  *)
(* worker pages through the archive of the publication while its author    *)
(* goes on publishing and deleting, stores each post, and owns the status  *)
(* of the job.                                                             *)
(*                                                                         *)
(* The INGEST queue is an instance of the MessageQueue port.  Posts are    *)
(* numbered in the order of publication, so the archive is a descending    *)
(* sequence.  Publications share nothing but the queue: there is one.  Only *)
(* one message names a job, so one worker at a time writes its row, and    *)
(* the read and the commit of update_job_status are one step.              *)
(***************************************************************************)
EXTENDS Naturals, Sequences, FiniteSets

CONSTANTS Sources,      \* ids of the enabled sources
          Platform,     \* params["platform"] of each source
          Limit,        \* params["limit"]
          PageSize,     \* SUBSTACK_ARCHIVE_PAGE_SIZE
          FirstPosts,   \* posts 1..FirstPosts are out at the start
          MaxPosts,     \* bound: posts ever published
          Paid,         \* posts whose audience is not "everyone"
          Thin,         \* public posts with too little text, or none
          MaxDeletions, \* bound: posts deleted by the author
          Workers,      \* community-ingest worker processes
          MaxRetries,   \* settings.QUEUE_MAX_RETRIES
          MaxTicks,     \* bound: scheduler ticks
          MaxFaults,    \* bound: failing calls in one behaviour
          MaxDeaths,    \* bound: worker deaths in one behaviour
          None

ASSUME SourcesAssumption ==
    /\ Sources \subseteq Nat
    /\ Platform \in [Sources -> {"substack", "unsupported", "absent"}]
ASSUME NumbersAssumption ==
    /\ {Limit, FirstPosts, MaxPosts, MaxDeletions} \subseteq Nat
    /\ {MaxRetries, MaxTicks, MaxFaults, MaxDeaths} \subseteq Nat
    /\ PageSize \in Nat \ {0} /\ FirstPosts <= MaxPosts

VARIABLES
    published, waiting, inflight, dead,   \* INGEST queue
    urlJobs,      \* jobs published to the JOB queue, which JobPipeline serves
    row,          \* the jobs table
    raw,          \* the object store: posts archived
    articles,     \* the articles table: posts stored
    tick, due,    \* scheduler: ticks so far, sources still to enqueue in this one
    schPc,        \* scheduler: place
    archive,      \* the publication: its posts, newest first
    newest,       \* number of the last post published
    wPc, wMsg,    \* each worker: place, message
    wOffset,      \*   scrape_publication: archive offset
    wPage,        \*   items of the page not yet served
    wFound,       \*   results still to persist
    wSeen,        \*   posts written through this sink
    wCount,       \*   persisted
    \* history
    wHad,         \* readable posts of the archive when the scrape began
    wMissed,      \* posts whose own fetch failed
    wFlaws,       \* what else cut the scrape short or disturbed it
    outcome,      \* for a done job: what its scrape had, and what it saved
    unsent,       \* jobs whose publish failed
    cut,          \* ticks that ended with an exception
    casualties,   \* jobs in flight at a worker's death
    unmarked,     \* jobs for which a write of the status failed
    faults, deaths, deletions

ingestQueue == <<published, waiting, inflight, dead>>
scheduler   == <<tick, due, schPc, unsent, cut>>
publication == <<archive, newest, deletions>>
paging      == <<wOffset, wPage, wFound, wHad, wMissed, wFlaws>>
saving      == <<wSeen, wCount>>
workers     == <<wPc, wMsg, paging, saving>>
troubles    == <<casualties, unmarked, faults, deaths>>
vars == <<ingestQueue, urlJobs, row, raw, articles, scheduler, publication,
          workers, outcome, troubles>>

Jobs  == (1..MaxTicks) \X Sources
Posts == 1..MaxPosts
IsIngest(j)    == Platform[j[2]] # "absent"
Supported(j)   == Platform[j[2]] = "substack"

IngestQ == INSTANCE MessageQueue WITH Ids <- Jobs

Row == [status : {"queued", "running", "done", "error"}, count : Nat, error : BOOLEAN]
ASSUME NoneAssumption == None \notin Row \union IngestQ!Message

Readable(p) == p \notin Paid \union Thin
InArchive == {archive[i] : i \in 1..Len(archive)}
Terminal(j) == row[j] # None /\ row[j].status \in {"done", "error"}

Idle(w) ==
    /\ wPc' = [wPc EXCEPT ![w] = "idle"]
    /\ wMsg' = [wMsg EXCEPT ![w] = None]
    /\ wOffset' = [wOffset EXCEPT ![w] = 0]
    /\ wPage' = [wPage EXCEPT ![w] = <<>>]
    /\ wFound' = [wFound EXCEPT ![w] = <<>>]
    /\ wSeen' = [wSeen EXCEPT ![w] = {}]
    /\ wCount' = [wCount EXCEPT ![w] = 0]
    /\ wHad' = [wHad EXCEPT ![w] = {}]
    /\ wMissed' = [wMissed EXCEPT ![w] = {}]
    /\ wFlaws' = [wFlaws EXCEPT ![w] = {}]

Init ==
    /\ IngestQ!QueueInit /\ urlJobs = {}
    /\ row = [j \in Jobs |-> None] /\ raw = {} /\ articles = {}
    /\ tick = 0 /\ due = {} /\ schPc = "sleep"
    /\ archive = [i \in 1..FirstPosts |-> FirstPosts + 1 - i] /\ newest = FirstPosts
    /\ wPc = [w \in Workers |-> "idle"] /\ wMsg = [w \in Workers |-> None]
    /\ wOffset = [w \in Workers |-> 0] /\ wPage = [w \in Workers |-> <<>>]
    /\ wFound = [w \in Workers |-> <<>>] /\ wSeen = [w \in Workers |-> {}]
    /\ wCount = [w \in Workers |-> 0]
    /\ wHad = [w \in Workers |-> {}] /\ wMissed = [w \in Workers |-> {}]
    /\ wFlaws = [w \in Workers |-> {}]
    /\ outcome = [j \in Jobs |-> None]
    /\ unsent = {} /\ cut = {} /\ casualties = {} /\ unmarked = {}
    /\ faults = 0 /\ deaths = 0 /\ deletions = 0

-----------------------------------------------------------------------------
(* run_scheduler and enqueue_due_sources.                                  *)
StartTick ==
    /\ schPc = "sleep" /\ tick < MaxTicks
    /\ tick' = tick + 1 /\ due' = Sources /\ schPc' = "create"
    /\ UNCHANGED <<ingestQueue, urlJobs, row, raw, articles, unsent, cut,
                   publication, workers, outcome, troubles>>

\* The sources are served by ascending id.
Current == <<tick, CHOOSE s \in due : \A other \in due : s <= other>>

CreateRow ==
    /\ schPc = "create" /\ due # {}
    /\ row' = [row EXCEPT ![Current] = [status |-> "queued", count |-> 0, error |-> FALSE]]
    /\ schPc' = "publish"
    /\ UNCHANGED <<ingestQueue, urlJobs, raw, articles, tick, due, unsent, cut,
                   publication, workers, outcome, troubles>>

Route(j) ==
    IF IsIngest(j) THEN IngestQ!Publish(j) /\ UNCHANGED urlJobs
    ELSE urlJobs' = urlJobs \union {j} /\ UNCHANGED ingestQueue

PublishMessage ==
    /\ schPc = "publish"
    /\ Route(Current)
    /\ due' = due \ {Current[2]} /\ schPc' = "create"
    /\ UNCHANGED <<row, raw, articles, tick, unsent, cut, publication, workers,
                   outcome, troubles>>

EndTick ==
    /\ schPc = "create" /\ due = {}
    /\ schPc' = "sleep"
    /\ UNCHANGED <<ingestQueue, urlJobs, row, raw, articles, tick, due, unsent, cut,
                   publication, workers, outcome, troubles>>

(* Seeded defect: a failing source is passed over in silence.              *)
TickSwallowsFailure ==
    /\ schPc \in {"create", "publish"} /\ due # {} /\ faults < MaxFaults
    /\ faults' = faults + 1
    /\ unsent' = IF schPc = "publish" THEN unsent \union {Current} ELSE unsent
    /\ due' = due \ {Current[2]} /\ schPc' = "create"
    /\ UNCHANGED <<ingestQueue, urlJobs, row, raw, articles, tick, cut, publication,
                   workers, outcome, casualties, unmarked, deaths>>

\* create_job or publish raised, the message sent or not, or the process was
\* killed: it leaves the loop, is restarted and begins the next tick.
TickFails ==
    /\ schPc \in {"create", "publish"} /\ due # {} /\ faults < MaxFaults
    /\ \/ /\ schPc = "publish" /\ Route(Current)
          /\ UNCHANGED unsent
       \/ /\ unsent' = IF schPc = "publish" THEN unsent \union {Current} ELSE unsent
          /\ UNCHANGED <<ingestQueue, urlJobs>>
    /\ faults' = faults + 1 /\ cut' = cut \union {tick}
    /\ due' = {} /\ schPc' = "sleep"
    /\ UNCHANGED <<row, raw, articles, tick, publication, workers, outcome,
                   casualties, unmarked, deaths>>

-----------------------------------------------------------------------------
(* The author of the publication.  The archive is read at "mark" and "page" *)
(* only, so what happens to it at other times is left to happen there.     *)
Watched == \E w \in Workers : wPc[w] \in {"mark", "page"}

PublishPost ==
    /\ Watched /\ newest < MaxPosts
    /\ newest' = newest + 1
    /\ archive' = <<newest'>> \o archive
    /\ UNCHANGED <<ingestQueue, urlJobs, row, raw, articles, scheduler, deletions,
                   workers, outcome, troubles>>

\* Every scrape with a page to come may now miss a post: the rest has moved up.
PageToCome(w) == wPc[w] \in {"page", "items"}

DeletePost ==
    /\ Watched /\ deletions < MaxDeletions
    /\ \E i \in 1..Len(archive) :
          archive' = SubSeq(archive, 1, i - 1) \o SubSeq(archive, i + 1, Len(archive))
    /\ deletions' = deletions + 1
    /\ wFlaws' = [w \in Workers |->
                     IF PageToCome(w) THEN wFlaws[w] \union {"deletion"} ELSE wFlaws[w]]
    /\ UNCHANGED <<ingestQueue, urlJobs, row, raw, articles, scheduler, newest, wPc,
                   wMsg, wOffset, wPage, wFound, wHad, wMissed, saving, outcome, troubles>>

-----------------------------------------------------------------------------
(* The community-ingest worker: handle_ingest_job under consume_once.      *)
JobOf(w) == wMsg[w].id

\* _resolve_scraper raises for a platform it does not know.
TakeMessage(w) ==
    /\ wPc[w] = "idle"
    /\ IngestQ!Reserve
    /\ wMsg' = [wMsg EXCEPT ![w] = IngestQ!Delivered(Head(waiting))]
    /\ wPc' = [wPc EXCEPT ![w] = IF Supported(Head(waiting).id) THEN "mark" ELSE "failed"]
    /\ UNCHANGED <<urlJobs, row, raw, articles, scheduler, publication, paging, saving,
                   outcome, troubles>>

\* while len(results) < limit: with a limit of zero there is no page.
MarkRunning(w) ==
    /\ wPc[w] = "mark"
    /\ row' = [row EXCEPT ![JobOf(w)].status = "running"]
    /\ wHad' = [wHad EXCEPT ![w] = {p \in InArchive : Readable(p)}]
    /\ wFlaws' = [wFlaws EXCEPT ![w] = IF Limit = 0 THEN {"limit"} ELSE {}]
    /\ wPc' = [wPc EXCEPT ![w] = IF Limit = 0 THEN "persist" ELSE "page"]
    /\ UNCHANGED <<ingestQueue, urlJobs, raw, articles, scheduler, publication, wMsg,
                   wOffset, wPage, wFound, wMissed, saving, outcome, troubles>>

\* scrape_publication: one archive page.  The offset grows by the items
\* returned; an empty page and a short one are the last.
PageAt(offset) ==
    LET last == IF offset + PageSize < Len(archive) THEN offset + PageSize ELSE Len(archive)
    IN  SubSeq(archive, offset + 1, last)

TakePage(w, page) ==
    /\ wPc[w] = "page"
    /\ wPage' = [wPage EXCEPT ![w] = page]
    /\ wOffset' = [wOffset EXCEPT ![w] = @ + Len(page)]
    /\ UNCHANGED <<ingestQueue, urlJobs, row, raw, articles, scheduler, publication, wMsg,
                   wFound, wHad, wMissed, wFlaws, saving, outcome, troubles>>

(* Seeded defect: only the limit ends the loop.                            *)
FetchPageUntilLimit(w) ==
    /\ TakePage(w, PageAt(wOffset[w]))
    /\ wPc' = [wPc EXCEPT ![w] = IF wPage'[w] = <<>> THEN "page" ELSE "items"]

FetchPage(w) ==
    /\ TakePage(w, PageAt(wOffset[w]))
    /\ wPc' = [wPc EXCEPT ![w] = IF wPage'[w] = <<>> THEN "persist"
                                 ELSE IF Len(wPage'[w]) < PageSize THEN "last" ELSE "items"]

\* One item of the page.  The limit ends both loops at once.
Serving(w) == wPc[w] \in {"items", "last"}
AfterItem(w, found) ==
    LET rest == Tail(wPage[w])
        full == Len(found) >= Limit
    IN  /\ wFound' = [wFound EXCEPT ![w] = found]
        /\ wPage' = [wPage EXCEPT ![w] = IF full THEN <<>> ELSE rest]
        /\ wFlaws' = [wFlaws EXCEPT ![w] = IF full THEN @ \union {"limit"} ELSE @]
        /\ wPc' = [wPc EXCEPT ![w] = IF full \/ (rest = <<>> /\ @ = "last") THEN "persist"
                                     ELSE IF rest = <<>> THEN "page" ELSE @]
        /\ UNCHANGED <<ingestQueue, urlJobs, row, raw, articles, scheduler, publication,
                       wMsg, wOffset, wHad, saving, outcome, casualties, unmarked, deaths>>

(* Seeded defect: an item nobody may read ends the page.                   *)
ServeItemsWhilePublic(w) ==
    /\ Serving(w)
    /\ IF Readable(Head(wPage[w])) THEN AfterItem(w, Append(wFound[w], Head(wPage[w])))
       ELSE /\ wPage' = [wPage EXCEPT ![w] = <<>>]
            /\ wPc' = [wPc EXCEPT ![w] = IF @ = "last" THEN "persist" ELSE "page"]
            /\ UNCHANGED <<ingestQueue, urlJobs, row, raw, articles, scheduler, publication,
                           wFound, wFlaws, wMsg, wOffset, wHad, saving, outcome,
                           casualties, unmarked, deaths>>
    /\ UNCHANGED <<wMissed, faults>>

\* Paid posts are passed over, and thin ones once their body is there.
ServeItem(w) ==
    /\ Serving(w)
    /\ AfterItem(w, IF Readable(Head(wPage[w])) THEN Append(wFound[w], Head(wPage[w]))
                    ELSE wFound[w])
    /\ UNCHANGED <<wMissed, faults>>

\* The post endpoint answered with something that is not an object.
MissItem(w) ==
    /\ Serving(w) /\ Readable(Head(wPage[w]))
    /\ faults < MaxFaults /\ faults' = faults + 1
    /\ wMissed' = [wMissed EXCEPT ![w] = @ \union {Head(wPage[w])}]
    /\ AfterItem(w, wFound[w])

\* The archive endpoint answered with an error envelope: end of the archive.
FetchEnvelope(w) ==
    /\ wPc[w] = "page" /\ faults < MaxFaults
    /\ faults' = faults + 1
    /\ wFlaws' = [wFlaws EXCEPT ![w] = @ \union {"envelope"}]
    /\ wPc' = [wPc EXCEPT ![w] = "persist"]
    /\ UNCHANGED <<ingestQueue, urlJobs, row, raw, articles, scheduler, publication, wMsg,
                   wOffset, wPage, wFound, wHad, wMissed, saving, outcome, casualties,
                   unmarked, deaths>>

Drop(w) == wFound' = [wFound EXCEPT ![w] = Tail(@)]

(* Seeded defect: a post listed twice is counted twice.                    *)
SkipSeenCounts(w) ==
    /\ wPc[w] = "persist" /\ wFound[w] # <<>> /\ Head(wFound[w]) \in wSeen[w]
    /\ Drop(w)
    /\ wCount' = [wCount EXCEPT ![w] = @ + 1]
    /\ UNCHANGED <<ingestQueue, urlJobs, row, raw, articles, scheduler, publication, wPc,
                   wMsg, wOffset, wPage, wHad, wMissed, wFlaws, wSeen, outcome, troubles>>

\* sink.seen: this sink has written the url before.
SkipSeen(w) ==
    /\ wPc[w] = "persist" /\ wFound[w] # <<>> /\ Head(wFound[w]) \in wSeen[w]
    /\ Drop(w)
    /\ UNCHANGED <<ingestQueue, urlJobs, row, raw, articles, scheduler, publication, wPc,
                   wMsg, wOffset, wPage, wHad, wMissed, wFlaws, saving, outcome, troubles>>

PutRaw(w) ==
    /\ wPc[w] = "persist" /\ wFound[w] # <<>> /\ Head(wFound[w]) \notin wSeen[w]
    /\ raw' = raw \union {Head(wFound[w])}
    /\ wPc' = [wPc EXCEPT ![w] = "write"]
    /\ UNCHANGED <<ingestQueue, urlJobs, row, articles, scheduler, publication, wMsg,
                   paging, saving, outcome, troubles>>

\* sink.write: the UPSERT carries the key of the raw object.
WriteArticle(w) ==
    /\ wPc[w] = "write"
    /\ articles' = articles \union {Head(wFound[w])}
    /\ wSeen' = [wSeen EXCEPT ![w] = @ \union {Head(wFound[w])}]
    /\ wCount' = [wCount EXCEPT ![w] = @ + 1]
    /\ Drop(w)
    /\ wPc' = [wPc EXCEPT ![w] = "persist"]
    /\ UNCHANGED <<ingestQueue, urlJobs, row, raw, scheduler, publication, wMsg, wOffset,
                   wPage, wHad, wMissed, wFlaws, outcome, troubles>>

\* error is never cleared: update_job_status leaves what it is not given.
MarkDone(w) ==
    /\ wPc[w] = "persist" /\ wFound[w] = <<>>
    /\ row' = [row EXCEPT ![JobOf(w)].status = "done", ![JobOf(w)].count = wCount[w]]
    /\ outcome' = [outcome EXCEPT ![JobOf(w)] =
                      [had |-> wHad[w], saved |-> wSeen[w],
                       missed |-> wMissed[w], flaws |-> wFlaws[w]]]
    /\ wPc' = [wPc EXCEPT ![w] = "ack"]
    /\ UNCHANGED <<ingestQueue, urlJobs, raw, articles, scheduler, publication, wMsg,
                   paging, saving, troubles>>

(* Seeded defect: a status the jobs table does not know.                   *)
RecordErrorAsFailed(w) ==
    /\ wPc[w] = "record"
    /\ row' = [row EXCEPT ![JobOf(w)] =
                  [status |-> "failed", count |-> wCount[w], error |-> TRUE]]
    /\ wPc' = [wPc EXCEPT ![w] = "failed"]
    /\ UNCHANGED <<ingestQueue, urlJobs, raw, articles, scheduler, publication, wMsg,
                   paging, saving, outcome, troubles>>

\* The except clause: record the partial count and the message, then raise.
RecordError(w) ==
    /\ wPc[w] = "record"
    /\ row' = [row EXCEPT ![JobOf(w)] =
                  [status |-> "error", count |-> wCount[w], error |-> TRUE]]
    /\ wPc' = [wPc EXCEPT ![w] = "failed"]
    /\ UNCHANGED <<ingestQueue, urlJobs, raw, articles, scheduler, publication, wMsg,
                   paging, saving, outcome, troubles>>

-----------------------------------------------------------------------------
Raise(w, to) ==
    /\ faults < MaxFaults /\ faults' = faults + 1
    /\ wPc' = [wPc EXCEPT ![w] = to]
    /\ UNCHANGED <<ingestQueue, urlJobs, scheduler, publication, wMsg, paging, saving,
                   outcome, casualties, deaths>>

(* Seeded defect: a failed scrape is raised without being recorded.        *)
ScrapeRaisesUnrecorded(w) ==
    /\ wPc[w] \in {"page", "items", "last", "persist", "write"} /\ (wPc[w] = "persist" => wFound[w] # <<>>)
    /\ Raise(w, "failed")
    /\ UNCHANGED <<row, raw, articles, unmarked>>

\* Inside the try: fetching, archiving or writing raised.  A write may have
\* taken effect all the same.
ScrapeRaises(w) ==
    /\ wPc[w] \in {"page", "items", "last", "persist", "write"} /\ (wPc[w] = "persist" => wFound[w] # <<>>)
    /\ Raise(w, "record")
    /\ articles' \in {articles} \union
          (IF wPc[w] = "write" THEN {articles \union {Head(wFound[w])}} ELSE {})
    /\ UNCHANGED <<row, raw, unmarked>>

\* Outside it: a write of the status raised, before its effect, or, at "page"
\* and "ack", once the row had changed and before the worker learned it.
StatusRaises(w) ==
    /\ \/ wPc[w] \in {"mark", "record", "ack"}
       \/ wPc[w] = "persist" /\ wFound[w] = <<>>
       \/ wPc[w] = "page" /\ wOffset[w] = 0
    /\ Raise(w, "failed")
    /\ unmarked' = unmarked \union {JobOf(w)}
    /\ UNCHANGED <<row, raw, articles>>

SettleFailed(w) ==
    /\ wPc[w] = "failed"
    /\ IngestQ!Requeue(wMsg[w]) \/ IngestQ!DeadLetter(wMsg[w])
    /\ Idle(w)
    /\ UNCHANGED <<urlJobs, row, raw, articles, scheduler, publication, outcome, troubles>>

AckMessage(w) ==
    /\ wPc[w] = "ack"
    /\ IngestQ!Ack(wMsg[w])
    /\ Idle(w)
    /\ UNCHANGED <<urlJobs, row, raw, articles, scheduler, publication, outcome, troubles>>

Die(w) ==
    /\ wPc[w] # "idle" /\ deaths < MaxDeaths
    /\ IngestQ!Abandon(wMsg[w])
    /\ deaths' = deaths + 1
    /\ casualties' = casualties \union {JobOf(w)}
    /\ Idle(w)
    /\ UNCHANGED <<urlJobs, row, raw, articles, scheduler, publication, outcome,
                   unmarked, faults>>

-----------------------------------------------------------------------------
EnqueueStep == CreateRow \/ PublishMessage \/ EndTick
WorkerStep(w) ==
    \/ TakeMessage(w) \/ MarkRunning(w) \/ FetchPage(w) \/ ServeItem(w) \/ SkipSeen(w)
    \/ PutRaw(w) \/ WriteArticle(w) \/ MarkDone(w) \/ RecordError(w) \/ SettleFailed(w) \/ AckMessage(w)
WorkerTrouble(w) ==
    \/ MissItem(w) \/ FetchEnvelope(w) \/ ScrapeRaises(w) \/ StatusRaises(w)
    \/ Die(w)

Next ==
    \/ StartTick \/ EnqueueStep \/ TickFails
    \/ PublishPost \/ DeletePost
    \/ \E w \in Workers : WorkerStep(w) \/ WorkerTrouble(w)

Spec == Init /\ [][Next]_vars

\* The scheduler finishes the tick it has begun, and a worker its handler:
\* every await has a timeout and both processes loop for ever.
Fairness == WF_vars(EnqueueStep) /\ \A w \in Workers : WF_vars(WorkerStep(w))
FairSpec == Spec /\ Fairness

-----------------------------------------------------------------------------
Sent(j) == j \in published \union urlJobs
InProgress(j) ==
    \/ schPc = "publish" /\ j = Current
    \/ \E k \in 1..Len(waiting) : waiting[k].id = j
    \/ \E m \in inflight : m.id = j
GivenUp(j) ==
    \/ j \in unsent \union casualties \union unmarked
    \/ ~Supported(j) /\ \E k \in 1..Len(dead) : dead[k].id = j

(* Every variable has its type.                                            *)
Flaws == {"limit", "deletion", "envelope"}
TypeOK ==
    /\ published \subseteq Jobs /\ urlJobs \subseteq Jobs
    /\ waiting \in Seq(IngestQ!Message) /\ dead \in Seq(IngestQ!Message)
    /\ inflight \in SUBSET IngestQ!Message
    /\ row \in [Jobs -> Row \union {None}]
    /\ raw \subseteq Posts /\ articles \subseteq Posts
    /\ tick \in 0..MaxTicks /\ due \subseteq Sources
    /\ schPc \in {"sleep", "create", "publish"}
    /\ archive \in Seq(Posts) /\ newest \in 0..MaxPosts
    /\ wPc \in [Workers -> {"idle", "mark", "page", "items", "last", "persist", "write",
                            "record", "ack", "failed"}]
    /\ wMsg \in [Workers -> IngestQ!Message \union {None}]
    /\ wOffset \in [Workers -> Nat] /\ wCount \in [Workers -> Nat]
    /\ wPage \in [Workers -> Seq(Posts)] /\ wFound \in [Workers -> Seq(Posts)]
    /\ wSeen \in [Workers -> SUBSET Posts] /\ wHad \in [Workers -> SUBSET Posts]
    /\ wMissed \in [Workers -> SUBSET Posts]
    /\ wFlaws \in [Workers -> SUBSET Flaws]

(* A tick that ended without an exception has put exactly one message for  *)
(* each enabled source into the queue of its kind; a tick cut short by an  *)
(* exception leaves at most one row that was committed and never sent.     *)
TickCoversSources ==
    \A t \in 1..tick :
        /\ (t < tick \/ schPc = "sleep") /\ t \notin cut =>
              \A s \in Sources : row[<<t, s>>] # None /\ Sent(<<t, s>>)
        /\ Cardinality({s \in Sources : row[<<t, s>>] # None /\ ~Sent(<<t, s>>)}) <= 1

(* However many posts appear while scrape_publication is paging, a done    *)
(* job has stored every readable post that was there when it began, from   *)
(* the newest down to where the limit or an error envelope stopped it.     *)
(* Exceptions: posts whose own fetch failed, and scrapes during which a    *)
(* post was deleted, as the offset then jumps over one.                    *)
NothingSkipped ==
    \A j \in Jobs : row[j] # None /\ row[j].status = "done" /\ "deletion" \notin outcome[j].flaws =>
        LET run  == outcome[j]
            lost == run.had \ (run.saved \union run.missed)
        IN  /\ \A p \in lost, q \in run.had \intersect run.saved : p < q
            /\ lost # {} => run.flaws \intersect {"limit", "envelope"} # {}

(* result_count of a done job is the number of different articles its last *)
(* delivery stored, even when paging listed a post twice; each of them has *)
(* an article row, and no article row is there without its raw object.     *)
DoneCountsArticles ==
    /\ \A j \in Jobs : row[j] # None /\ row[j].status = "done" =>
          /\ row[j].count = Cardinality(outcome[j].saved)
          /\ outcome[j].saved \subseteq articles
    /\ articles \subseteq raw

(* An ingest job whose row is not terminal and that nobody works on any    *)
(* more has a reason on record: its message was never sent or was lost     *)
(* with a worker, a write of its status failed, or nobody serves its       *)
(* platform.                                                               *)
StuckIngestIsExplained ==
    \A j \in Jobs : row[j] # None /\ IsIngest(j) /\ ~Terminal(j) => InProgress(j) \/ GivenUp(j)

(* Every ingest job with a row ends done or error, or for a known reason   *)
(* does not: no scrape pages for ever, and retries end.                    *)
IngestEnds == \A j \in Jobs : row[j] # None /\ IsIngest(j) ~> Terminal(j) \/ GivenUp(j)
=============================================================================
