----------------------------- MODULE Enrichment -----------------------------
(***************************************************************************)
(* The daily pipeline and its neighbours over one database: ingest writes  *)
(* articles, summarize and embed-articles read a batch, call a model over  *)
(* the network and write back, seed-owner and sync-users write profiles,   *)
(* embed-profiles their vectors, score-users ranks, prune deletes, and the *)
(* digest mails.  A run is a sequence of such commands; nothing keeps two  *)
(* runs apart: the workflow can be dispatched while its scheduled run is   *)
(* on, and the summarizer worker drains all the time.                      *)
(*                                                                         *)
(* A command that is skipped for want of a key is one its run does not     *)
(* have.  A model's answer depends only on what it was asked, so a network *)
(* call is one step with the write that follows it.  Texts are             *)
(* <<owner, version>>.                                                     *)
(*                                                                         *)
(* Transactions are those of PostgreSQL at READ COMMITTED: a statement     *)
(* sees the rows committed when it starts, takes the rows it changes one   *)
(* at a time, and looks again at a row it had to wait for.  What an open   *)
(* transaction has changed is kept in its run's job until the commit.  Of  *)
(* runs that wait for each other in a circle the database ends one.        *)
(***************************************************************************)
EXTENDS Integers, Sequences, FiniteSets

CONSTANTS Articles,      \* article ids
          Feeds,         \* sources of each ingest command: a sequence of sets of articles
          Weak,          \* posts without text or scored below --min-score
          Subscribers,   \* users of the hezzian app
          Owner,         \* 'owner'
          Dull,          \* articles the model rates below RETENTION_RELEVANCE_FLOOR
          Runs,          \* processes
          Programs,      \* what the runs may be: the commands of each
          SummaryBatch,  \* SUMMARY_BATCH_SIZE
          RefreshLimit,  \* summarize --refresh
          EmbedBatch,    \* EMBED_BATCH_SIZE
          MaxBatches,    \* EMBED_MAX_BATCHES
          TopK,          \* EMBED_TOP_K
          Window,        \* EMBED_SCORE_WINDOW_DAYS, and that of the digest
          RetentionDays, \* RETENTION_DAYS
          Cap,           \* RETENTION_MAX_ARTICLES
          MaxDays,       \* bound: days that pass
          MaxEdits,      \* bound: changes of articles and profiles at their source
          MaxFaults,     \* bound: failing calls in one behaviour
          None

IngestCommands == {"ingest", "ingest-reddit", "ingest-news"}
Commands == IngestCommands \union
            {"summarize", "refresh", "seed-owner", "sync-users", "embed-articles",
             "embed-profiles", "score-users", "prune", "digest"}
Users == Subscribers \union {Owner}

ASSUME NamesAssumption ==
    /\ Articles \union Users \subseteq Nat /\ IsFiniteSet(Articles)
    /\ Owner \notin Subscribers /\ Dull \subseteq Articles
    /\ Feeds \in [IngestCommands -> Seq(SUBSET Articles)] /\ Weak \subseteq Articles
    /\ Programs \subseteq [Runs -> Seq(Commands)]
ASSUME LimitsAssumption ==
    /\ {SummaryBatch, RefreshLimit, EmbedBatch, TopK, Window} \subseteq Nat
    /\ {MaxBatches, RetentionDays, Cap, MaxDays, MaxEdits, MaxFaults} \subseteq Nat

VARIABLES
    today,      \* the clock, in days
    source,     \* articles as their authors have them now: a version each
    app,        \* the hezzian tables: a version each, or None
    rows,       \* articles
    profile,    \* user_profiles: the text to embed
    vector,     \* user_profile_vectors
    score,      \* user_article_relevance: pairs
    todo,       \* each run: commands left, the current one first
    pc,         \*   place in the command
    job,        \*   local variables of the command
    \* history
    past,       \* texts each article row has had
    mixed,      \* users whose scores two runs replaced at the same time
    edits, faults

tables  == <<rows, profile, vector, score>>
outside == <<today, source, app, edits>>
vars == <<tables, outside, todo, pc, job, past, mixed, faults>>

Never == [a \in Articles |-> 0]
\* What a command starts with.  The last six fields are history.
Fresh == [work       |-> {},    \* items read and not yet dealt with
          feed       |-> 1,     \* ingest: index of the source
          seen       |-> {},    \* ingest: articles this sink has written
          count      |-> 0,     \* summarize: persisted in this batch; embed: batches
          readAt     |-> Never, \* embed: fetched_at of the rows when read
          clock      |-> 0,     \* prune, score: the day it began
          excess     |-> 0,     \* prune: rows over the cap
          oldest     |-> {},    \* prune: that many of the oldest
          user       |-> None,  \* score: user of the open transaction
          ranked     |-> {},    \* score: rows still to insert
          letters    |-> {},    \* digest: users still to mail
          \* rows the statement has still to delete
          rowsLeft   |-> {},    \*   articles
          scoresLeft |-> {},    \*   scores, of a user or by a cascade
          \* changed and not committed
          doomed     |-> {},    \*   articles deleted
          updated    |-> {},    \*   articles embedded
          removed    |-> {},    \*   scores deleted
          written    |-> {},    \*   scores inserted
          wanted     |-> {},    \* summarize: rows pending when the drain began
          failed     |-> {},    \* articles or users whose own call failed
          limited    |-> FALSE, \* summarize: a rate limit ended the batch
          disturbed  |-> FALSE, \* prune: another run wrote or deleted articles
          due        |-> {},    \* digest: users with a digest
          served     |-> {}]    \* digest: users mailed

\* What the tables hold, and what a command has read of them.
Texts(a) == {a} \X (0..MaxEdits)
Text == (Articles \union Users) \X (0..MaxEdits)
Row == [text : Text, at : 0..MaxDays, summary : Text \union {None}, embedding : Text \union {None}]
Vector == [of : Text, source_hash : Text]
Pair == Users \X Articles
ASSUME NoneAssumption == None \notin Nat \union Text \union Row

Item(id, text) == [id |-> id, text |-> text]
Items == {i \in [id : Articles \union Users, text : Text] : i.text \in Texts(i.id)}
At(r, command, place) == todo[r] # <<>> /\ Head(todo[r]) = command /\ pc[r] = place
Ingesting(r) == todo[r] # <<>> /\ Head(todo[r]) \in IngestCommands
GoTo(r, place) == pc' = [pc EXCEPT ![r] = place] /\ UNCHANGED todo

Stored == {a \in Articles : rows[a] # None}
\* order_by(fetched_at.desc(), id.desc()).limit(n)
Newer(a, b) == rows[a].at > rows[b].at \/ (rows[a].at = rows[b].at /\ a > b)
Newest(n, S) == {a \in S : Cardinality({b \in S : Newer(b, a)}) < n}

Init ==
    /\ today = 0 /\ source = [a \in Articles |-> 0] /\ app = [u \in Subscribers |-> 0]
    /\ rows = [a \in Articles |-> None] /\ profile = [u \in Users |-> None]
    /\ vector = [u \in Users |-> None] /\ score = {}
    /\ todo \in Programs
    /\ pc = [r \in Runs |-> "start"] /\ job = [r \in Runs |-> Fresh]
    /\ past = [a \in Articles |-> {}] /\ mixed = {}
    /\ edits = 0 /\ faults = 0

-----------------------------------------------------------------------------
(* The world outside.  The date is read by an UPSERT and at the start of    *)
(* prune, of score-users and of the loading of a digest, and the sources   *)
(* by scrapes and by sync-users: what changes at other times is left to    *)
(* change there.                                                           *)
DateIsRead(r) ==
    \/ (Ingesting(r) /\ pc[r] = "write") \/ At(r, "prune", "start")
    \/ At(r, "score-users", "start") \/ At(r, "digest", "load")
NewDay ==
    /\ \E r \in Runs : DateIsRead(r)
    /\ today < MaxDays /\ today' = today + 1
    /\ UNCHANGED <<tables, source, app, edits, todo, pc, job, past, mixed, faults>>

\* An author edits an article; a user edits a profile, or leaves.
Edit ==
    /\ edits < MaxEdits /\ edits' = edits + 1
    /\ \/ /\ \E r \in Runs : Ingesting(r) /\ pc[r] = "start"
          /\ \E a \in Articles : source' = [source EXCEPT ![a] = @ + 1]
          /\ UNCHANGED app
       \/ /\ \E r \in Runs : At(r, "sync-users", "start")
          /\ \E u \in Subscribers : \E p \in {app[u] + 1, None} :
                app[u] # None /\ app' = [app EXCEPT ![u] = p]
          /\ UNCHANGED source
    /\ UNCHANGED <<tables, today, todo, pc, job, past, mixed, faults>>

-----------------------------------------------------------------------------
(* A run of commands.                                                      *)
NextCommand(r) ==
    /\ todo[r] # <<>> /\ pc[r] = "end"
    /\ todo' = [todo EXCEPT ![r] = Tail(@)]
    /\ pc' = [pc EXCEPT ![r] = "start"] /\ job' = [job EXCEPT ![r] = Fresh]
    /\ UNCHANGED <<tables, outside, past, mixed, faults>>

\* A call that its command catches.
Fault == faults < MaxFaults /\ faults' = faults + 1

\* A call that no command catches, or a death of the process: the step of the
\* workflow fails and the steps after it do not run.  Transactions roll back.
RunFails(r) ==
    /\ todo' = [todo EXCEPT ![r] = <<>>]
    /\ pc' = [pc EXCEPT ![r] = "start"] /\ job' = [job EXCEPT ![r] = Fresh]
    /\ UNCHANGED <<tables, outside, past, mixed>>
Abort(r) == todo[r] # <<>> /\ pc[r] # "end" /\ Fault /\ RunFails(r)

-----------------------------------------------------------------------------
(* Row locks.  An open transaction keeps the rows it has changed, and a    *)
(* score row it has inserted, not replaced, shares the article it refers   *)
(* to: that article can be updated but not deleted.                        *)
Keeps(q) == job[q].doomed \union {item.id : item \in job[q].updated}
KeepsScores(q) == job[q].removed \union job[q].written
InHand(q) == score \ job[q].removed
Shares(q) == {s[2] : s \in job[q].written \ InHand(q)}
Locked == UNION {Keeps(q) : q \in Runs}

\* What run q makes run r wait for: to delete an article or a score, to update
\* an article, to insert a score.
HoldsRow(q, a) == a \in Keeps(q) \union Shares(q)
HoldsInsert(q, r, s) == s \in KeepsScores(q) \/ (s \notin InHand(r) /\ s[2] \in job[q].doomed)
WaitsFor(r, q) ==
    /\ q # r
    /\ \/ \E a \in job[r].rowsLeft : HoldsRow(q, a)
       \/ job[r].rowsLeft = {} /\ job[r].scoresLeft \intersect KeepsScores(q) # {}
       \/ At(r, "embed-articles", "update") /\ \E item \in job[r].work : item.id \in Keeps(q)
       \/ \E s \in job[r].ranked : HoldsInsert(q, r, s)

\* Runs that wait in a circle: the database ends the transaction of one, and the
\* error its run.
Circle(C) == C # {} /\ \A p \in C : \E q \in C : WaitsFor(p, q)
Deadlock(r) ==
    /\ \E C \in SUBSET Runs :
          r \in C /\ Circle(C) /\ \A D \in SUBSET C : Circle(D) => D = C
    /\ RunFails(r) /\ UNCHANGED faults

\* DELETE of scores, by user or by the cascade from deleted articles: a row at
\* a time, and a cascade after the articles of its statement.
DeleteScoreRow(r) ==
    /\ todo[r] # <<>> /\ Head(todo[r]) \in {"score-users", "prune"} /\ job[r].rowsLeft = {}
    /\ \E s \in job[r].scoresLeft :
          /\ \A q \in Runs \ {r} : s \notin KeepsScores(q)
          /\ job' = [job EXCEPT ![r].scoresLeft = @ \ {s}, ![r].removed = @ \union {s}]
    /\ UNCHANGED <<tables, outside, todo, pc, past, mixed, faults>>

-----------------------------------------------------------------------------
(* ingest, ingest-reddit, ingest-news: scrape a source, write what it has  *)
(* that is worth keeping and this sink has not written.                    *)
SourcesOf(r) == Feeds[Head(todo[r])]
Worth(r, a) == Head(todo[r]) = "ingest-reddit" => a \notin Weak

Scrape(r) ==
    /\ Ingesting(r) /\ pc[r] = "start" /\ job[r].feed <= Len(SourcesOf(r))
    /\ LET found == {a \in SourcesOf(r)[job[r].feed] : Worth(r, a)}
       IN  job' = [job EXCEPT ![r].work = {Item(a, <<a, source[a]>>) : a \in found}]
    /\ GoTo(r, "write")
    /\ UNCHANGED <<tables, outside, past, mixed, faults>>

\* The source fails: it is logged and the next one is served.
ScrapeFails(r) ==
    /\ Ingesting(r) /\ pc[r] = "start" /\ job[r].feed <= Len(SourcesOf(r)) /\ Fault
    /\ job' = [job EXCEPT ![r].feed = @ + 1]
    /\ UNCHANGED <<tables, outside, todo, pc, past, mixed>>

\* INSERT ... ON CONFLICT (id) DO UPDATE: what the models made is kept.
Upserted(a, text) ==
    [text |-> text, at |-> today,
     summary |-> IF rows[a] = None THEN None ELSE rows[a].summary,
     embedding |-> IF rows[a] = None THEN None ELSE rows[a].embedding]

WriteArticle(r) ==
    /\ Ingesting(r) /\ pc[r] = "write"
    /\ \E item \in job[r].work :
          /\ IF item.id \in job[r].seen
             THEN /\ job' = [job EXCEPT ![r].work = @ \ {item}]
                  /\ UNCHANGED <<rows, past>>
             ELSE /\ item.id \notin Locked
                  /\ rows' = [rows EXCEPT ![item.id] = Upserted(item.id, item.text)]
                  /\ past' = [past EXCEPT ![item.id] = @ \union {item.text}]
                  /\ job' = [q \in Runs |->
                        IF q = r THEN [job[q] EXCEPT !.work = @ \ {item}, !.seen = @ \union {item.id}]
                        ELSE [job[q] EXCEPT !.disturbed = @ \/ At(q, "prune", pc[q])]]
    /\ UNCHANGED <<profile, vector, score, outside, todo, pc, mixed, faults>>

NextSource(r) ==
    /\ Ingesting(r) /\ pc[r] = "write" /\ job[r].work = {}
    /\ job' = [job EXCEPT ![r].feed = @ + 1]
    /\ GoTo(r, "start")
    /\ UNCHANGED <<tables, outside, past, mixed, faults>>

IngestEnds(r) ==
    /\ Ingesting(r) /\ pc[r] = "start" /\ job[r].feed > Len(SourcesOf(r))
    /\ GoTo(r, "end")
    /\ UNCHANGED <<tables, outside, job, past, mixed, faults>>

Ingest(r) == Scrape(r) \/ ScrapeFails(r) \/ WriteArticle(r) \/ NextSource(r) \/ IngestEnds(r)

-----------------------------------------------------------------------------
(* summarize: batches of the newest articles without a summary, until one  *)
(* persists nothing.  summarize --refresh: one batch, summary or not.      *)
(* Seeded defect: the drain forgets its WHERE summary IS NULL.             *)
EveryStored == Stored

Pending == {a \in Stored : rows[a].summary = None}
Summarizing(r) == todo[r] # <<>> /\ Head(todo[r]) \in {"summarize", "refresh"}

SelectArticles(r) ==
    /\ Summarizing(r) /\ pc[r] = "start"
    /\ LET refresh == Head(todo[r]) = "refresh"
           chosen == IF refresh THEN Newest(RefreshLimit, Stored) ELSE Newest(SummaryBatch, Pending)
       IN  job' = [job EXCEPT ![r].work = {Item(a, rows[a].text) : a \in chosen},
                              ![r].count = 0, ![r].failed = {},
                              ![r].wanted = IF refresh \/ @ # {} THEN @ ELSE Pending]
    /\ GoTo(r, "summarize")
    /\ UNCHANGED <<tables, outside, past, mixed, faults>>

\* The row may be gone: the UPDATE then changes nothing, and counts.
SummarizeArticle(r) ==
    /\ Summarizing(r) /\ pc[r] = "summarize"
    /\ \E item \in job[r].work :
          /\ item.id \notin Locked
          /\ rows' = IF rows[item.id] = None THEN rows
                     ELSE [rows EXCEPT ![item.id].summary = item.text]
          /\ job' = [job EXCEPT ![r].work = @ \ {item}, ![r].count = @ + 1]
    /\ UNCHANGED <<profile, vector, score, outside, todo, pc, past, mixed, faults>>

\* LLMError: the article is skipped.
SummaryFails(r) ==
    /\ Summarizing(r) /\ pc[r] = "summarize" /\ Fault
    /\ \E item \in job[r].work :
          job' = [job EXCEPT ![r].work = @ \ {item}, ![r].failed = @ \union {item.id}]
    /\ UNCHANGED <<tables, outside, todo, pc, past, mixed>>

\* LLMRateLimitError: the batch is left.
SummaryLimited(r) ==
    /\ Summarizing(r) /\ pc[r] = "summarize" /\ job[r].work # {} /\ Fault
    /\ job' = [job EXCEPT ![r].work = {}, ![r].limited = TRUE]
    /\ UNCHANGED <<tables, outside, todo, pc, past, mixed>>

(* Seeded defect: a drain is one batch.                                    *)
BatchEndsAtOnce(r) ==
    /\ Summarizing(r) /\ pc[r] = "summarize" /\ job[r].work = {}
    /\ GoTo(r, "end")
    /\ UNCHANGED <<tables, outside, job, past, mixed, faults>>

BatchEnds(r) ==
    /\ Summarizing(r) /\ pc[r] = "summarize" /\ job[r].work = {}
    /\ GoTo(r, IF Head(todo[r]) = "summarize" /\ job[r].count > 0 THEN "start" ELSE "end")
    /\ UNCHANGED <<tables, outside, job, past, mixed, faults>>

Summarize(r) == \/ SelectArticles(r) \/ SummarizeArticle(r) \/ SummaryFails(r)
                \/ SummaryLimited(r) \/ BatchEnds(r)

-----------------------------------------------------------------------------
(* embed-articles: up to MaxBatches batches of rows without an embedding.  *)
EmbeddingPending == {a \in Stored : rows[a].embedding = None}

SelectRows(r) ==
    /\ At(r, "embed-articles", "start")
    /\ LET chosen == IF job[r].count < MaxBatches THEN Newest(EmbedBatch, EmbeddingPending) ELSE {}
       IN  /\ job' = [job EXCEPT ![r].work = {Item(a, rows[a].text) : a \in chosen},
                                 ![r].readAt = [a \in Articles |-> IF a \in chosen THEN rows[a].at ELSE 0]]
           /\ GoTo(r, IF chosen = {} THEN "end" ELSE "embed")
    /\ UNCHANGED <<tables, outside, past, mixed, faults>>

\* The provider answers, and a transaction begins.
EmbedTexts(r) ==
    /\ At(r, "embed-articles", "embed")
    /\ GoTo(r, "update")
    /\ UNCHANGED <<tables, outside, job, past, mixed, faults>>

\* EmbeddingRateLimitError is swallowed: the next run resumes.
EmbedLimited(r) ==
    /\ At(r, "embed-articles", "embed") /\ Fault
    /\ GoTo(r, "end")
    /\ UNCHANGED <<tables, outside, job, past, mixed>>

\* UPDATE ... WHERE id, in the order the rows were read; a row that is gone is
\* not updated.
UpdateRow(r) ==
    /\ At(r, "embed-articles", "update")
    /\ \E item \in job[r].work :
          /\ \A i \in job[r].work \ {item} :
                LET at == job[r].readAt
                IN  at[item.id] > at[i.id] \/ (at[item.id] = at[i.id] /\ item.id > i.id)
          /\ \A q \in Runs \ {r} : item.id \notin Keeps(q)
          /\ job' = [job EXCEPT ![r].work = @ \ {item},
                                ![r].updated = @ \union {i \in {item} : i.id \in Stored}]
    /\ UNCHANGED <<tables, outside, todo, pc, past, mixed, faults>>

(* Seeded defect: the rows to update are selected again after the call.    *)
EmbedCommitsSelectedAgain(r) ==
    /\ At(r, "embed-articles", "update") /\ job[r].work = {}
    /\ \E f \in [job[r].updated -> Newest(EmbedBatch, EmbeddingPending)] :
          rows' = [a \in Articles |->
                      IF \E item \in job[r].updated : f[item] = a
                      THEN [rows[a] EXCEPT !.embedding = (CHOOSE item \in job[r].updated : f[item] = a).text]
                      ELSE rows[a]]
    /\ job' = [job EXCEPT ![r].updated = {}, ![r].count = @ + 1]
    /\ GoTo(r, "start")
    /\ UNCHANGED <<profile, vector, score, outside, past, mixed, faults>>

EmbedCommits(r) ==
    /\ At(r, "embed-articles", "update") /\ job[r].work = {}
    /\ rows' = [a \in Articles |->
                   IF rows[a] # None /\ \E item \in job[r].updated : item.id = a
                   THEN [rows[a] EXCEPT !.embedding = (CHOOSE item \in job[r].updated : item.id = a).text]
                   ELSE rows[a]]
    /\ job' = [job EXCEPT ![r].updated = {}, ![r].count = @ + 1]
    /\ GoTo(r, "start")
    /\ UNCHANGED <<profile, vector, score, outside, past, mixed, faults>>

EmbedArticles(r) == SelectRows(r) \/ EmbedTexts(r) \/ EmbedLimited(r) \/ UpdateRow(r) \/ EmbedCommits(r)

-----------------------------------------------------------------------------
(* seed-owner, sync-users, embed-profiles.                                 *)
SeedOwner(r) ==
    /\ At(r, "seed-owner", "start")
    /\ profile' = [profile EXCEPT ![Owner] = <<Owner, 0>>]
    /\ GoTo(r, "end")
    /\ UNCHANGED <<rows, vector, score, outside, job, past, mixed, faults>>

FetchUsers(r) ==
    /\ At(r, "sync-users", "start")
    /\ job' = [job EXCEPT ![r].work =
                  {Item(u, <<u, app[u]>>) : u \in {v \in Subscribers : app[v] # None}}]
    /\ GoTo(r, "upsert")
    /\ UNCHANGED <<tables, outside, past, mixed, faults>>

TextOf(items, id, default) ==
    IF \E item \in items : item.id = id THEN (CHOOSE item \in items : item.id = id).text
    ELSE default

\* A user who has left the app keeps the profile.
UpsertUsers(r) ==
    /\ At(r, "sync-users", "upsert")
    /\ profile' = [u \in Users |-> TextOf(job[r].work, u, profile[u])]
    /\ job' = [job EXCEPT ![r].work = {}]
    /\ GoTo(r, "end")
    /\ UNCHANGED <<rows, vector, score, outside, past, mixed, faults>>

\* A profile is changed when its hash is not the stored one.
ReadProfiles(r) ==
    /\ At(r, "embed-profiles", "start")
    /\ LET changed == {u \in Users : /\ profile[u] # None
                                     /\ vector[u] = None \/ vector[u].source_hash # profile[u]}
       IN  /\ job' = [job EXCEPT ![r].work = {Item(u, profile[u]) : u \in changed}]
           /\ GoTo(r, IF changed = {} THEN "end" ELSE "upsert")
    /\ UNCHANGED <<tables, outside, past, mixed, faults>>

(* Seeded defect: the hash is taken of the profile as it is after the call. *)
UpsertVectorsFreshHash(r) ==
    /\ At(r, "embed-profiles", "upsert")
    /\ vector' = [u \in Users |->
                     IF \E item \in job[r].work : item.id = u
                     THEN [of |-> TextOf(job[r].work, u, None), source_hash |-> profile[u]]
                     ELSE vector[u]]
    /\ job' = [job EXCEPT ![r].work = {}]
    /\ GoTo(r, "end")
    /\ UNCHANGED <<rows, profile, score, outside, past, mixed, faults>>

UpsertVectors(r) ==
    /\ At(r, "embed-profiles", "upsert")
    /\ vector' = [u \in Users |->
                     LET text == TextOf(job[r].work, u, None)
                     IN  IF text = None THEN vector[u] ELSE [of |-> text, source_hash |-> text]]
    /\ job' = [job EXCEPT ![r].work = {}]
    /\ GoTo(r, "end")
    /\ UNCHANGED <<rows, profile, score, outside, past, mixed, faults>>

SyncUsers(r) == FetchUsers(r) \/ UpsertUsers(r)
EmbedProfiles(r) == ReadProfiles(r) \/ UpsertVectors(r)

-----------------------------------------------------------------------------
(* score-users: for each vector read at the start, one transaction deletes *)
(* the scores of the user, ranks and inserts.                              *)
ReadVectors(r) ==
    /\ At(r, "score-users", "start")
    /\ job' = [job EXCEPT ![r].clock = today,
                          ![r].work = {Item(u, vector[u].of) : u \in {v \in Users : vector[v] # None}}]
    /\ GoTo(r, "delete")
    /\ UNCHANGED <<tables, outside, past, mixed, faults>>

ScoresOf(u) == {s \in score : s[1] = u}

(* Seeded defect: scores are added without deleting the old ones.          *)
KeepOldScores(r) ==
    /\ At(r, "score-users", "delete")
    /\ \E item \in job[r].work :
          /\ job' = [job EXCEPT ![r].work = @ \ {item}, ![r].user = item.id]
          /\ mixed' = IF \E q \in Runs : job[q].user = item.id THEN mixed \union {item.id}
                      ELSE mixed
    /\ GoTo(r, "rank")
    /\ UNCHANGED <<tables, outside, past, faults>>

\* The DELETE begins: it sees the rows committed now.
DeleteScores(r) ==
    /\ At(r, "score-users", "delete")
    /\ \E item \in job[r].work :
          /\ job' = [job EXCEPT ![r].work = @ \ {item}, ![r].user = item.id,
                                ![r].scoresLeft = ScoresOf(item.id)]
          /\ mixed' = IF \E q \in Runs : job[q].user = item.id THEN mixed \union {item.id}
                      ELSE mixed
    /\ GoTo(r, "rank")
    /\ UNCHANGED <<tables, outside, past, faults>>

\* How near two vectors are is left open: any TopK of the articles in the window.
Eligible(r) == {a \in Stored : rows[a].embedding # None /\ rows[a].at >= job[r].clock - Window}
RankArticles(r) ==
    /\ At(r, "score-users", "rank") /\ job[r].scoresLeft = {}
    /\ \E T \in SUBSET Eligible(r) :
          /\ Cardinality(T) <= TopK /\ (T = Eligible(r) \/ Cardinality(T) = TopK)
          /\ job' = [job EXCEPT ![r].ranked = {<<job[r].user, a>> : a \in T}]
    /\ GoTo(r, "insert")
    /\ UNCHANGED <<tables, outside, past, mixed, faults>>

\* INSERT ... ON CONFLICT (user_id, article_id) DO UPDATE.
InsertScore(r) ==
    /\ At(r, "score-users", "insert")
    /\ \E s \in job[r].ranked :
          /\ s[2] \in Stored /\ \A q \in Runs \ {r} : ~HoldsInsert(q, r, s)
          /\ job' = [job EXCEPT ![r].ranked = @ \ {s}, ![r].written = @ \union {s}]
    /\ UNCHANGED <<tables, outside, todo, pc, past, mixed, faults>>

\* An article was pruned after the ranking: the foreign key refuses the row,
\* and the IntegrityError ends the run.
InsertRefused(r) ==
    /\ At(r, "score-users", "insert") /\ \E s \in job[r].ranked : s[2] \notin Stored
    /\ RunFails(r) /\ UNCHANGED faults

\* Another run's DELETE finds the rows it was waiting for gone.
ScoresCommit(r) ==
    /\ At(r, "score-users", "insert") /\ job[r].ranked = {}
    /\ score' = InHand(r) \union job[r].written
    /\ job' = [q \in Runs |->
                  IF q = r THEN [job[q] EXCEPT !.user = None, !.removed = {}, !.written = {}]
                  ELSE [job[q] EXCEPT !.scoresLeft = @ \ job[r].removed]]
    /\ GoTo(r, "delete")
    /\ UNCHANGED <<rows, profile, vector, outside, past, mixed, faults>>

ScoringEnds(r) ==
    /\ At(r, "score-users", "delete") /\ job[r].work = {}
    /\ GoTo(r, "end")
    /\ UNCHANGED <<tables, outside, job, past, mixed, faults>>

ScoreUsers(r) == \/ ReadVectors(r) \/ DeleteScores(r) \/ RankArticles(r) \/ InsertScore(r)
                 \/ InsertRefused(r) \/ ScoresCommit(r) \/ ScoringEnds(r)

-----------------------------------------------------------------------------
(* prune: one transaction of five statements, three of them DELETEs.       *)
Aged(a, now) == rows[a].at < now - RetentionDays
Half == IF RetentionDays \div 2 > 1 THEN RetentionDays \div 2 ELSE 1
Irrelevant(a, now) == rows[a].summary # None /\ a \in Dull /\ rows[a].at < now - Half
Left(r) == Stored \ job[r].doomed
Deleted(r) == job[r].rowsLeft = {} /\ job[r].scoresLeft = {}

\* The first DELETE begins.
PruneAged(r) ==
    /\ At(r, "prune", "start")
    /\ job' = [job EXCEPT ![r].clock = today, ![r].disturbed = FALSE,
                          ![r].rowsLeft = {a \in Stored : Aged(a, today)}]
    /\ GoTo(r, "age")
    /\ UNCHANGED <<tables, outside, past, mixed, faults>>

PruneIrrelevant(r) ==
    /\ At(r, "prune", "age") /\ Deleted(r)
    /\ job' = [job EXCEPT ![r].rowsLeft = {a \in Left(r) : Irrelevant(a, job[r].clock)}]
    /\ GoTo(r, "relevance")
    /\ UNCHANGED <<tables, outside, past, mixed, faults>>

\* A row that no longer meets the condition is left; the DELETE for the cap is
\* by id, and takes a row that was refreshed since.
Condemned(r, a) ==
    /\ pc[r] = "age" => Aged(a, job[r].clock)
    /\ pc[r] = "relevance" => Irrelevant(a, job[r].clock)
DeleteRow(r) ==
    /\ At(r, "prune", pc[r])
    /\ \E a \in job[r].rowsLeft :
          /\ \A q \in Runs \ {r} : ~HoldsRow(q, a)
          /\ LET gone == {b \in {a} : Condemned(r, b)}
             IN  job' = [job EXCEPT ![r].rowsLeft = @ \ {a}, ![r].doomed = @ \union gone,
                                    ![r].scoresLeft = @ \union {s \in score : s[2] \in gone}]
    /\ UNCHANGED <<tables, outside, todo, pc, past, mixed, faults>>

(* Seeded defect: a table under the cap has a negative excess.             *)
CountRowsSigned(r) ==
    /\ At(r, "prune", "relevance") /\ Deleted(r)
    /\ LET over == Cardinality(Left(r)) - Cap
       IN  /\ job' = [job EXCEPT ![r].excess = over]
           /\ GoTo(r, IF over > 0 THEN "oldest" ELSE "commit")
    /\ UNCHANGED <<tables, outside, past, mixed, faults>>

(* Seeded defect: the count includes the rows just deleted.                *)
CountAllRows(r) ==
    /\ At(r, "prune", "relevance") /\ Deleted(r)
    /\ LET over == Cardinality(Stored) - Cap
       IN  /\ job' = [job EXCEPT ![r].excess = IF over > 0 THEN over ELSE 0]
           /\ GoTo(r, IF over > 0 THEN "oldest" ELSE "commit")
    /\ UNCHANGED <<tables, outside, past, mixed, faults>>

CountRows(r) ==
    /\ At(r, "prune", "relevance") /\ Deleted(r)
    /\ LET over == Cardinality(Left(r)) - Cap
       IN  /\ job' = [job EXCEPT ![r].excess = IF over > 0 THEN over ELSE 0]
           /\ GoTo(r, IF over > 0 THEN "oldest" ELSE "commit")
    /\ UNCHANGED <<tables, outside, past, mixed, faults>>

\* order_by(fetched_at.asc()).limit(excess): equal times in any order.
ReadOldest(r) ==
    /\ At(r, "prune", "oldest")
    /\ \E T \in SUBSET Left(r) :
          /\ Cardinality(T) <= job[r].excess /\ (T = Left(r) \/ Cardinality(T) = job[r].excess)
          /\ \A a \in T, b \in Left(r) \ T : rows[a].at <= rows[b].at
          /\ job' = [job EXCEPT ![r].oldest = T]
    /\ GoTo(r, "cap")
    /\ UNCHANGED <<tables, outside, past, mixed, faults>>

PruneOldest(r) ==
    /\ At(r, "prune", "cap")
    /\ job' = [job EXCEPT ![r].rowsLeft = job[r].oldest \intersect Left(r)]
    /\ GoTo(r, "commit")
    /\ UNCHANGED <<tables, outside, past, mixed, faults>>

PruneCommits(r) ==
    /\ At(r, "prune", "commit") /\ Deleted(r)
    /\ LET gone == job[r].doomed
       IN  /\ rows' = [a \in Articles |-> IF a \in gone THEN None ELSE rows[a]]
           /\ score' = InHand(r)
           /\ job' = [q \in Runs |->
                         IF q = r THEN [job[q] EXCEPT !.doomed = {}, !.removed = {}, !.oldest = {}]
                         ELSE [job[q] EXCEPT !.disturbed = @ \/ At(q, "prune", pc[q]),
                                             !.rowsLeft = @ \ gone, !.wanted = @ \ gone,
                                             !.scoresLeft = @ \ job[r].removed]]
    /\ GoTo(r, "end")
    /\ UNCHANGED <<profile, vector, outside, past, mixed, faults>>

Prune(r) == \/ PruneAged(r) \/ PruneIrrelevant(r) \/ DeleteRow(r) \/ CountRows(r)
            \/ ReadOldest(r) \/ PruneOldest(r) \/ PruneCommits(r)

-----------------------------------------------------------------------------
(* digest send-all: every batch is loaded before the first mail.           *)
LoadUsers(r) ==
    /\ At(r, "digest", "start")
    /\ job' = [job EXCEPT ![r].work = {Item(u, profile[u]) : u \in {v \in Subscribers : profile[v] # None}}]
    /\ GoTo(r, "load")
    /\ UNCHANGED <<tables, outside, past, mixed, faults>>

\* Whether a score reaches the floor is left open.
LoadArticles(r) ==
    /\ At(r, "digest", "load")
    /\ \E item \in job[r].work :
          LET matches == {a \in Stored : /\ <<item.id, a>> \in score
                                         /\ rows[a].summary # None
                                         /\ rows[a].at >= today - Window}
          IN  \E some \in {matches # {}, FALSE} :
                 LET letter == IF some THEN {item.id} ELSE {}
                 IN  job' = [job EXCEPT ![r].work = @ \ {item}, ![r].letters = @ \union letter,
                                        ![r].due = @ \union letter]
    /\ UNCHANGED <<tables, outside, todo, pc, past, mixed, faults>>

Loaded(r) ==
    /\ At(r, "digest", "load") /\ job[r].work = {}
    /\ GoTo(r, "send")
    /\ UNCHANGED <<tables, outside, job, past, mixed, faults>>

SendDigest(r) ==
    /\ At(r, "digest", "send")
    /\ \E u \in job[r].letters :
          job' = [job EXCEPT ![r].letters = @ \ {u}, ![r].served = @ \union {u}]
    /\ UNCHANGED <<tables, outside, todo, pc, past, mixed, faults>>

(* Seeded defect: the first failing send ends the batch.                   *)
SendFailsAndStops(r) ==
    /\ At(r, "digest", "send") /\ Fault
    /\ \E u \in job[r].letters : job' = [job EXCEPT ![r].letters = {}, ![r].failed = @ \union {u}]
    /\ UNCHANGED <<tables, outside, todo, pc, past, mixed>>

SendFails(r) ==
    /\ At(r, "digest", "send") /\ Fault
    /\ \E u \in job[r].letters :
          job' = [job EXCEPT ![r].letters = @ \ {u}, ![r].failed = @ \union {u}]
    /\ UNCHANGED <<tables, outside, todo, pc, past, mixed>>

DigestEnds(r) ==
    /\ At(r, "digest", "send") /\ job[r].letters = {}
    /\ GoTo(r, "end")
    /\ UNCHANGED <<tables, outside, job, past, mixed, faults>>

Digest(r) == \/ LoadUsers(r) \/ LoadArticles(r) \/ Loaded(r)
             \/ SendDigest(r) \/ SendFails(r) \/ DigestEnds(r)

-----------------------------------------------------------------------------
Command(r) == \/ Ingest(r) \/ Summarize(r) \/ EmbedArticles(r)
              \/ SeedOwner(r) \/ SyncUsers(r) \/ EmbedProfiles(r)
              \/ ScoreUsers(r) \/ Prune(r) \/ DeleteScoreRow(r) \/ Deadlock(r)
              \/ Digest(r) \/ NextCommand(r)

Next == NewDay \/ Edit \/ \E r \in Runs : Command(r) \/ Abort(r)

Spec == Init /\ [][Next]_vars

\* Every call a command makes has a timeout, and a runner executes its steps.
FairSpec == Spec /\ \A r \in Runs : WF_vars(Command(r))

-----------------------------------------------------------------------------
(* Properties.                                                             *)
Places == {"start", "write", "summarize", "embed", "update", "upsert", "delete", "rank", "insert",
           "age", "relevance", "oldest", "cap", "commit", "load", "send", "end"}
Job == [work : SUBSET Items, feed : Nat \ {0}, seen : SUBSET Articles, count : Nat,
        readAt : [Articles -> 0..MaxDays], clock : 0..MaxDays, excess : Nat,
        oldest : SUBSET Articles, user : Users \union {None}, ranked : SUBSET Pair,
        letters : SUBSET Users, rowsLeft : SUBSET Articles, scoresLeft : SUBSET Pair,
        doomed : SUBSET Articles, updated : SUBSET Items, removed : SUBSET Pair,
        written : SUBSET Pair, wanted : SUBSET Articles,
        failed : SUBSET (Articles \union Users), limited : BOOLEAN, disturbed : BOOLEAN,
        due : SUBSET Users, served : SUBSET Users]

(* Every variable has its type, and every text the owner it was written    *)
(* for.                                                                    *)
TypeOK ==
    /\ today \in 0..MaxDays /\ edits \in 0..MaxEdits /\ faults \in 0..MaxFaults
    /\ source \in [Articles -> 0..MaxEdits] /\ app \in [Subscribers -> (0..MaxEdits) \union {None}]
    /\ rows \in [Articles -> Row \union {None}] /\ vector \in [Users -> Vector \union {None}]
    /\ profile \in [Users -> Text \union {None}] /\ past \in [Articles -> SUBSET Text]
    /\ \A a \in Articles : past[a] \subseteq Texts(a)
    /\ \A u \in Users : /\ profile[u] # None => profile[u] \in Texts(u)
                        /\ vector[u] # None => vector[u].of \in Texts(u)
    /\ score \subseteq Pair /\ mixed \subseteq Users
    /\ todo \in [Runs -> Seq(Commands)] /\ pc \in [Runs -> Places] /\ job \in [Runs -> Job]

(* What a model made is of a text its owner had: a summary and an          *)
(* embedding of a text this very article row has held (postgres.py keeps   *)
(* both when it replaces the text), and a profile vector of exactly the    *)
(* text its source_hash names, so that embed_profiles sees every vector    *)
(* that a change of the profile has overtaken.                             *)
MadeFromItsOwnText ==
    /\ \A a \in Stored :
          /\ rows[a].text \in past[a]
          /\ rows[a].summary # None => rows[a].summary \in past[a]
          /\ rows[a].embedding # None => rows[a].embedding \in past[a]
    /\ \A u \in Users : vector[u] # None => vector[u].of = vector[u].source_hash

(* A drain that ends leaves an article that was pending at its start and   *)
(* has stayed without a summary only if its own call failed in the last    *)
(* batch, a whole batch of newer articles failed, or the provider limited  *)
(* the rate (run_summarize_worker: "until none remain").                   *)
DrainEndsForAReason ==
    \A r \in Runs : At(r, "summarize", "end") =>
        \A a \in job[r].wanted \intersect Pending :
           \/ a \in job[r].failed \/ job[r].limited
           \/ Cardinality(job[r].failed) >= SummaryBatch

(* A prune that no other run disturbed leaves at most Cap articles, keeps  *)
(* none older than one it deleted for the cap, and deletes for the cap no  *)
(* more than it must, although it counts, selects and deletes in different *)
(* statements.                                                             *)
QuietPruneMeetsTheCap ==
    [][\A r \in Runs : PruneCommits(r) /\ ~job[r].disturbed =>
          LET forCap == job[r].doomed \intersect job[r].oldest
          IN  /\ Cardinality(Stored') <= Cap
              /\ forCap # {} => Cardinality(Stored') = Cap
              /\ \A a \in forCap, b \in Stored' : rows[a].at <= rows[b].at]_vars

(* Scores name stored articles: no interleaving of the inserts of          *)
(* score_users with a prune that deletes articles and, row by row, their   *)
(* scores leaves one behind.  And a user has at most TopK of them unless   *)
(* two runs replaced them at the same time (score_users deletes and        *)
(* inserts in one transaction, which is not enough).                       *)
ScoresHold ==
    /\ \A s \in score : s[2] \in Stored
    /\ \A u \in Users \ mixed : Cardinality(ScoresOf(u)) <= TopK

(* A digest run that ends has mailed every user with a digest except those *)
(* whose own send failed (deliver_all: "one user's bad render/send is      *)
(* logged and counted, never aborting the batch").                         *)
DigestsReachEveryone ==
    \A r \in Runs : At(r, "digest", "end") => job[r].due \ job[r].served \subseteq job[r].failed

(* All runs come to an end: no drain goes round for ever, no run waits for *)
(* a row for ever, and of transactions that wait for each other (a prune   *)
(* and a scoring, two scorings of one user, an embedding and a prune) the  *)
(* database ends one and the others go on.                                 *)
RunsEnd == <>(\A r \in Runs : todo[r] = <<>>)
=============================================================================
