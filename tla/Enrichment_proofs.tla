-------------------------- MODULE Enrichment_proofs --------------------------
(***************************************************************************)
(* Proofs about Enrichment, for any articles, users, programs and numbers  *)
(* of runs: types, whose text a model's answer is of, what scores name and *)
(* how many there are, why a drain ends, whom a digest reaches, and what a *)
(* quiet prune leaves.                                                     *)
(***************************************************************************)
EXTENDS Enrichment, QueueLemmas, FiniteSetTheorems

Doing(r, commands) == todo[r] # <<>> /\ Head(todo[r]) \in commands
Reading  == {"summarize", "refresh", "embed-articles"}
OfUsers  == {"sync-users", "embed-profiles", "score-users", "digest"}
IdsOfWork(r) == {item.id : item \in job[r].work}

(* The versions out there are as many as the edits.                        *)
Versions == /\ \A a \in Articles : source[a] <= edits
            /\ \A u \in Subscribers : app[u] # None => app[u] <= edits

(* A command works on articles or on users, and what it has read of an     *)
(* article's text that text has been.                                      *)
Fits(r) == /\ Doing(r, IngestCommands \union Reading) => IdsOfWork(r) \subseteq Articles
           /\ Doing(r, OfUsers) => IdsOfWork(r) \subseteq Users
Owned(r) == /\ Doing(r, Reading) => \A item \in job[r].work : item.text \in past[item.id]
            /\ \A item \in job[r].updated : item.id \in Articles /\ item.text \in past[item.id]
Shapes == TypeOK /\ Versions /\ \A r \in Runs : Fits(r)
TextsKept == MadeFromItsOwnText /\ \A r \in Runs : Owned(r)

(* A user whose transaction is open has no scores but those its DELETE     *)
(* saw, unless another run opened one for the same user.                   *)
Scoring(r) ==
    /\ job[r].user # None => At(r, "score-users", "rank") \/ At(r, "score-users", "insert")
    /\ At(r, "score-users", "rank") \/ At(r, "score-users", "insert") => job[r].user # None
    /\ job[r].user \in Users \ mixed => ScoresOf(job[r].user) \subseteq job[r].removed \union job[r].scoresLeft
    /\ At(r, "score-users", "insert") =>
          /\ job[r].scoresLeft = {} /\ Cardinality(job[r].ranked \union job[r].written) <= TopK
          /\ \A s \in job[r].ranked \union job[r].written : s[1] = job[r].user
Alone == \A q, r \in Runs : q # r /\ job[q].user = job[r].user /\ job[r].user # None =>
             job[r].user \in mixed

(* Of an article that a prune has deleted, it has deleted every score or   *)
(* is about to; the rows two runs have changed are different ones, and no  *)
(* run has deleted an article that a new score of another refers to.       *)
Locking(r) ==
    /\ job[r].written # {} => At(r, "score-users", "insert")
    /\ job[r].doomed # {} => Doing(r, {"prune"})
    /\ \A s \in score : s[2] \in job[r].doomed => s \in job[r].removed \union job[r].scoresLeft
    /\ \A s \in job[r].written : s[2] \in Stored
Apart(q, r) == KeepsScores(q) \intersect KeepsScores(r) = {} /\ Shares(q) \intersect job[r].doomed = {}
Locks == (\A r \in Runs : Locking(r)) /\ \A q, r \in Runs : q # r => Apart(q, r)

Scores == ScoresHold /\ Alone /\ Locks /\ \A r \in Runs : Scoring(r)

(* A user with a digest has a letter waiting, was mailed or failed.        *)
Mailing(r) ==
    /\ Doing(r, {"digest"}) => job[r].due \subseteq job[r].letters \union job[r].served \union job[r].failed
    /\ At(r, "digest", "end") => job[r].letters = {}
Mails == \A r \in Runs : Mailing(r)

(* An article still pending in a batch that has persisted nothing is in    *)
(* the batch or has failed, or is older than a full batch that did.        *)
Batch(r) == IdsOfWork(r) \union job[r].failed
Draining(r) ==
    /\ job[r].wanted \subseteq Stored
    /\ ~Doing(r, {"summarize"}) => job[r].wanted = {}
    /\ At(r, "summarize", "summarize") =>
          \A a \in job[r].wanted \intersect Pending :
             \/ a \in Batch(r) \/ job[r].limited \/ job[r].count > 0
             \/ Cardinality(Batch(r)) >= SummaryBatch
Drains == DrainEndsForAReason /\ \A r \in Runs : Draining(r)

(* An undisturbed prune finds at each statement what it left at the last,  *)
(* and deletes all it has chosen for the cap.                              *)
Before(r) == Left(r) \union job[r].oldest
CapMet(r) ==
    \/ Cardinality(Before(r)) <= Cap /\ job[r].oldest = {}
    \/ /\ Cardinality(Before(r)) > Cap /\ job[r].oldest \subseteq Stored
       /\ Cardinality(job[r].oldest) = Cardinality(Before(r)) - Cap
       /\ \A a \in job[r].oldest, b \in Before(r) \ job[r].oldest : rows[a].at <= rows[b].at
AllTaken(r) == job[r].oldest \subseteq job[r].doomed \union job[r].rowsLeft
Pruning(r) ==
    /\ At(r, "prune", "start") \/ At(r, "prune", "age") \/ At(r, "prune", "relevance")
          \/ At(r, "prune", "oldest") => job[r].oldest = {}
    /\ At(r, "prune", "oldest") \/ At(r, "prune", "cap") => job[r].rowsLeft = {}
    /\ At(r, "prune", "commit") => job[r].rowsLeft \subseteq job[r].oldest
    /\ At(r, "prune", "oldest") /\ ~job[r].disturbed =>
          Cardinality(Left(r)) > Cap /\ job[r].excess = Cardinality(Left(r)) - Cap
    /\ At(r, "prune", "cap") /\ ~job[r].disturbed => CapMet(r)
    /\ At(r, "prune", "commit") /\ ~job[r].disturbed => CapMet(r) /\ AllTaken(r)
Prunes == \A r \in Runs : Pruning(r)

IInv == Shapes /\ TextsKept /\ Scores /\ Mails /\ Drains /\ Prunes
-----------------------------------------------------------------------------
(* The world, a run and its job.                                           *)

LEMMA ItemOf ==
    ASSUME NEW i \in Articles \union Users, NEW t \in Texts(i)
    PROVE  Item(i, t) \in Items /\ Item(i, t).id = i /\ Item(i, t).text = t
BY DEF Item, Items, Texts, Text

(* A run that loses its place begins again with nothing in hand.           *)
LEMMA FreshJob == Fresh \in Job
<1>1. 0 \in 0 .. MaxDays /\ Never \in [Articles -> 0 .. MaxDays]
  BY LimitsAssumption DEF Never
<1> QED
  BY <1>1 DEF Fresh, Job

(* What two states of a job have in common.                                *)
SameUser(j, k)  == k.user = j.user /\ k.ranked = j.ranked /\ k.written = j.written
SameScore(j, k) == SameUser(j, k) /\ k.removed = j.removed /\ k.scoresLeft = j.scoresLeft
SameHeld(j, k)  == SameScore(j, k) /\ k.updated = j.updated
SameMail(j, k)  == k.letters = j.letters /\ k.due = j.due /\ k.served = j.served
SameDrain(j, k) == k.wanted = j.wanted /\ k.count = j.count /\ k.limited = j.limited
SamePrune(j, k) == /\ k.doomed = j.doomed /\ k.oldest = j.oldest /\ k.excess = j.excess
                   /\ k.disturbed = j.disturbed /\ k.rowsLeft = j.rowsLeft
Same(j, k) == SameHeld(j, k) /\ SameMail(j, k) /\ SameDrain(j, k) /\ SamePrune(j, k)

(* What a step of one run leaves of another.                               *)
Bystander(q) ==
    /\ todo'[q] = todo[q] /\ pc'[q] = pc[q]
    /\ job'[q].work = job[q].work /\ job'[q].failed = job[q].failed
    /\ SameUser(job[q], job'[q]) /\ SameMail(job[q], job'[q])
    /\ job'[q].removed = job[q].removed /\ job'[q].updated = job[q].updated
    /\ job'[q].count = job[q].count /\ job'[q].limited = job[q].limited
    /\ job'[q].wanted \subseteq job[q].wanted
    /\ job'[q].doomed = job[q].doomed /\ job'[q].oldest = job[q].oldest
    /\ job'[q].excess = job[q].excess /\ (job[q].disturbed => job'[q].disturbed)
    /\ job'[q].scoresLeft \subseteq job[q].scoresLeft /\ job'[q].rowsLeft \subseteq job[q].rowsLeft
    /\ Doing(q, {"prune"}) /\ ~job'[q].disturbed => job'[q].rowsLeft = job[q].rowsLeft

(* Only a commit takes from another run rows it has still to delete.       *)
Commits(r) == ScoresCommit(r) \/ PruneCommits(r)
Steady(r) == \A q \in Runs \ {r} : job'[q].scoresLeft = job[q].scoresLeft

LEMMA FeedJobs ==
    ASSUME NEW j \in Job, NEW n \in Nat \ {0}
    PROVE  /\ [j EXCEPT !.feed = n] \in Job /\ Same(j, [j EXCEPT !.feed = n])
           /\ [j EXCEPT !.feed = n].work = j.work /\ [j EXCEPT !.feed = n].failed = j.failed
BY DEF Job, Same, SameHeld, SameScore, SameUser, SameMail, SameDrain, SamePrune

LEMMA WorkJobs ==
    ASSUME NEW j \in Job, NEW w \in SUBSET Items
    PROVE  /\ [j EXCEPT !.work = w] \in Job /\ Same(j, [j EXCEPT !.work = w])
           /\ [j EXCEPT !.work = w].work = w /\ [j EXCEPT !.work = w].failed = j.failed
BY DEF Job, Same, SameHeld, SameScore, SameUser, SameMail, SameDrain, SamePrune

WithSeen(j, w, s) == [j EXCEPT !.work = w, !.seen = s]
LEMMA SeenJobs ==
    ASSUME NEW j \in Job, NEW w \in SUBSET Items, NEW s \in SUBSET Articles
    PROVE  LET k == WithSeen(j, w, s)
           IN  k \in Job /\ Same(j, k) /\ k.failed = j.failed /\ k.work = w
BY DEF WithSeen, Job, Same, SameHeld, SameScore, SameUser, SameMail, SameDrain, SamePrune

LEMMA WatchingJobs ==
    ASSUME NEW j \in Job, NEW b \in BOOLEAN, NEW w \in SUBSET Articles
    PROVE  /\ [j EXCEPT !.disturbed = b] \in Job
           /\ SameHeld(j, [j EXCEPT !.disturbed = b]) /\ SameMail(j, [j EXCEPT !.disturbed = b])
           /\ SameDrain(j, [j EXCEPT !.disturbed = b])
           /\ [j EXCEPT !.disturbed = b].work = j.work /\ [j EXCEPT !.disturbed = b].failed = j.failed
           /\ [j EXCEPT !.disturbed = b].doomed = j.doomed /\ [j EXCEPT !.disturbed = b].oldest = j.oldest
           /\ [j EXCEPT !.disturbed = b].excess = j.excess /\ ([j EXCEPT !.disturbed = b].disturbed <=> b)
           /\ [j EXCEPT !.disturbed = b].rowsLeft = j.rowsLeft
BY DEF Job, SameHeld, SameScore, SameUser, SameMail, SameDrain

(* One job is replaced, the other runs stand by.                           *)
LEMMA OneJob ==
    ASSUME TypeOK, NEW r \in Runs, NEW j \in Job, job' = [job EXCEPT ![r] = j],
           todo' = todo, \/ pc' = pc
                         \/ \E place \in Places : pc' = [pc EXCEPT ![r] = place]
    PROVE  /\ job' \in [Runs -> Job] /\ job'[r] = j /\ pc' \in [Runs -> Places]
           /\ Steady(r) /\ \A q \in Runs \ {r} : Bystander(q)
<1>1. job' \in [Runs -> Job] /\ job'[r] = j /\ \A q \in Runs \ {r} : job'[q] = job[q]
  BY DEF TypeOK
<1>2. pc' \in [Runs -> Places] /\ \A q \in Runs \ {r} : pc'[q] = pc[q]
  BY DEF TypeOK
<1> QED
  BY <1>1, <1>2 DEF Bystander, Steady, SameUser, SameMail
-----------------------------------------------------------------------------
(* What a step of each command does to its run, and leaves of the others.  *)

LEMMA IngestStep ==
    ASSUME Shapes, NEW r \in Runs, Ingest(r)
    PROVE  /\ Doing(r, IngestCommands) /\ todo' = todo
           /\ job' \in [Runs -> Job] /\ pc' \in [Runs -> Places]
           /\ Same(job[r], job'[r]) /\ job'[r].failed = job[r].failed
           /\ \A item \in job'[r].work : item.id \in Articles
           /\ Steady(r) /\ \A q \in Runs \ {r} : Bystander(q)
<1> DEFINE j == job[r]
<1>1. /\ TypeOK /\ j \in Job /\ Doing(r, IngestCommands) /\ Places = Places \union {"start", "write", "end"}
      /\ \A item \in j.work : item.id \in Articles
  <2>1. Doing(r, IngestCommands)
    BY DEF Ingest, Scrape, ScrapeFails, WriteArticle, NextSource, IngestEnds, Ingesting, Doing
  <2>2. \A item \in j.work : item.id \in Articles
    BY <2>1 DEF Shapes, Fits, Doing, IdsOfWork
  <2>3. TypeOK /\ j \in Job /\ Places = Places \union {"start", "write", "end"}
    BY DEF Shapes, TypeOK, Places
  <2> QED
    BY <2>1, <2>2, <2>3
<1>2. j.feed \in Nat \ {0} /\ j.work \in SUBSET Items /\ j.seen \in SUBSET Articles
  BY <1>1 DEF Job
<1>3. CASE Scrape(r)
  <2> DEFINE found == {a \in SourcesOf(r)[job[r].feed] : Worth(r, a)}
             items == {Item(a, <<a, source[a]>>) : a \in found}
             k == [j EXCEPT !.work = items]
  <2>1. found \subseteq Articles
    <3>1. SourcesOf(r) \in Seq(SUBSET Articles)
      BY <1>1, NamesAssumption DEF SourcesOf, Doing
    <3>2. j.feed \in 1 .. Len(SourcesOf(r))
      BY <1>2, <1>3, <3>1, LenProperties DEF Scrape
    <3>3. SourcesOf(r)[j.feed] \in SUBSET Articles
      BY <3>1, <3>2, ElementOfSeq
    <3> QED
      BY <3>3
  <2>2. \A a \in found : <<a, source[a]>> \in Texts(a)
    BY <1>1, <2>1 DEF TypeOK, Texts
  <2>3. items \in SUBSET Items /\ \A item \in items : item.id \in Articles
    <3>1. \A a \in found : Item(a, <<a, source[a]>>) \in Items /\ Item(a, <<a, source[a]>>).id = a
      BY <2>1, <2>2, ItemOf
    <3> HIDE DEF found
    <3> QED
      BY <2>1, <3>1
  <2>4. todo' = todo /\ \E place \in Places : pc' = [pc EXCEPT ![r] = place]
    BY <1>1, <1>3 DEF Scrape, GoTo
  <2>5. job' = [job EXCEPT ![r] = k]
    BY <1>1, <1>3 DEF Scrape, TypeOK
  <2> HIDE DEF items, found
  <2>6. k \in Job /\ Same(j, k) /\ k.failed = j.failed /\ k.work = items
    BY <1>1, <2>3, WorkJobs
  <2> HIDE DEF k
  <2> QED
    BY <1>1, <2>3, <2>4, <2>5, <2>6, OneJob
<1>4. CASE ScrapeFails(r) \/ NextSource(r)
  <2> DEFINE k == [j EXCEPT !.feed = j.feed + 1]
  <2>1. k \in Job /\ Same(j, k) /\ k.failed = j.failed /\ k.work = j.work
    BY <1>1, <1>2, FeedJobs
  <2>2. job' = [job EXCEPT ![r] = k]
    BY <1>1, <1>4 DEF ScrapeFails, NextSource, TypeOK
  <2>3. todo' = todo /\ (pc' = pc \/ \E place \in Places : pc' = [pc EXCEPT ![r] = place])
    BY <1>1, <1>4 DEF ScrapeFails, NextSource, GoTo
  <2> HIDE DEF k
  <2> QED
    BY <1>1, <2>1, <2>2, <2>3, OneJob
<1>5. CASE IngestEnds(r)
  <2>1. job' = [job EXCEPT ![r] = j] /\ todo' = todo /\ \E place \in Places : pc' = [pc EXCEPT ![r] = place]
    BY <1>1, <1>5 DEF IngestEnds, GoTo, TypeOK
  <2> QED
    BY <1>1, <2>1, OneJob DEF Same, SameHeld, SameScore, SameUser, SameMail, SameDrain, SamePrune
<1>6. CASE WriteArticle(r)
  <2>1. PICK item \in j.work :
           \/ job' = [job EXCEPT ![r].work = @ \ {item}]
           \/ job' = [q \in Runs |->
                 IF q = r THEN [job[q] EXCEPT !.work = @ \ {item}, !.seen = @ \union {item.id}]
                 ELSE [job[q] EXCEPT !.disturbed = @ \/ At(q, "prune", pc[q])]]
    BY <1>6 DEF WriteArticle
  <2> DEFINE w == j.work \ {item}
             s == j.seen \union {item.id}
  <2>2. w \in SUBSET Items /\ s \in SUBSET Articles /\ \A i \in w : i.id \in Articles
    BY <1>1, <1>2
  <2>3. todo' = todo /\ pc' = pc
    BY <1>6 DEF WriteArticle
  <2>4. CASE job' = [job EXCEPT ![r].work = @ \ {item}]
    <3> DEFINE k == [j EXCEPT !.work = w]
    <3>1. job' = [job EXCEPT ![r] = k]
      BY <1>1, <2>4 DEF TypeOK
    <3> HIDE DEF w
    <3>2. k \in Job /\ Same(j, k) /\ k.failed = j.failed /\ k.work = w
      BY <1>1, <2>2, WorkJobs
    <3> HIDE DEF k
    <3> QED
      BY <1>1, <2>2, <2>3, <3>1, <3>2, OneJob
  <2>5. CASE job' = [q \in Runs |->
                 IF q = r THEN [job[q] EXCEPT !.work = @ \ {item}, !.seen = @ \union {item.id}]
                 ELSE [job[q] EXCEPT !.disturbed = @ \/ At(q, "prune", pc[q])]]
    <3> DEFINE k == WithSeen(j, w, s)
               other(q) == [job[q] EXCEPT !.disturbed = job[q].disturbed \/ At(q, "prune", pc[q])]
    <3>1. job' = [q \in Runs |-> IF q = r THEN k ELSE other(q)]
      BY <2>5 DEF WithSeen
    <3> HIDE DEF w, s, other
    <3>2. k \in Job /\ Same(j, k) /\ k.failed = j.failed /\ k.work = w
      <4>1. j \in Job /\ w \in SUBSET Items /\ s \in SUBSET Articles
        <5> HIDE DEF j, k
        <5> QED
          BY <1>1, <2>2
      <4> HIDE DEF j
      <4> QED
        BY <4>1, SeenJobs
    <3> HIDE DEF k
    <3> USE DEF other
    <3>3. ASSUME NEW q \in Runs \ {r} PROVE other(q) \in Job /\ Bystander(q) /\ job'[q].scoresLeft = job[q].scoresLeft
      <4> DEFINE b == job[q].disturbed \/ At(q, "prune", pc[q])
      <4>1. job[q] \in Job /\ b \in BOOLEAN /\ job'[q] = [job[q] EXCEPT !.disturbed = b]
        BY <1>1, <3>1 DEF TypeOK
      <4> HIDE DEF b
      <4>2. /\ job'[q] \in Job
            /\ SameHeld(job[q], job'[q]) /\ SameMail(job[q], job'[q]) /\ SameDrain(job[q], job'[q])
            /\ job'[q].rowsLeft = job[q].rowsLeft /\ job'[q].work = job[q].work /\ job'[q].failed = job[q].failed
            /\ job'[q].doomed = job[q].doomed /\ job'[q].oldest = job[q].oldest
            /\ job'[q].excess = job[q].excess /\ (job'[q].disturbed <=> b)
        BY <4>1, WatchingJobs
      <4>3. job[q].disturbed => job'[q].disturbed
        BY <4>2 DEF b
      <4>4. other(q) \in Job
        BY <3>1, <4>2
      <4> QED
        BY <2>3, <4>2, <4>3, <4>4 DEF Bystander, SameHeld, SameScore, SameDrain
    <3> HIDE DEF other
    <3>4. job' \in [Runs -> Job] /\ job'[r] = k
      BY <3>1, <3>2, <3>3
    <3> QED
      BY <1>1, <2>2, <2>3, <3>2, <3>3, <3>4 DEF TypeOK, Steady
  <2> QED
    BY <2>1, <2>4, <2>5
<1> QED
  BY <1>3, <1>4, <1>5, <1>6 DEF Ingest
-----------------------------------------------------------------------------
(* What a step of each other command makes of its run's job.               *)

Solo(r) == /\ job' \in [Runs -> Job] /\ pc' \in [Runs -> Places] /\ todo' = todo
           /\ ~Commits(r) => Steady(r)
           /\ \A q \in Runs \ {r} : Bystander(q)

LEMMA Goes ==
    ASSUME TypeOK, NEW r \in Runs, NEW j \in Job, job' = [job EXCEPT ![r] = j],
           NEW place \in Places, GoTo(r, place)
    PROVE  Solo(r) /\ job'[r] = j /\ pc'[r] = place
<1>1. todo' = todo /\ pc' = [pc EXCEPT ![r] = place] /\ pc'[r] = place
  BY DEF TypeOK, GoTo
<1> QED
  BY <1>1, OneJob DEF Solo

LEMMA Stays ==
    ASSUME TypeOK, NEW r \in Runs, NEW j \in Job, job' = [job EXCEPT ![r] = j], todo' = todo, pc' = pc
    PROVE  Solo(r) /\ job'[r] = j /\ pc'[r] = pc[r]
BY OneJob DEF Solo

LEMMA PlacesAre ==
    Places = Places \union {"start", "write", "summarize", "embed", "update", "upsert", "delete",
                            "rank", "insert", "age", "relevance", "oldest", "cap", "commit", "load",
                            "send", "end"}
BY DEF Places

LEMMA Passes ==
    ASSUME TypeOK, NEW r \in Runs, UNCHANGED job, NEW place \in Places, GoTo(r, place)
    PROVE  Solo(r) /\ job'[r] = job[r] /\ pc'[r] = place
<1>1. job[r] \in Job /\ job' = [job EXCEPT ![r] = job[r]]
  BY DEF TypeOK
<1> QED
  BY <1>1, Goes

(* Rows read for a model have texts of their own.                          *)
LEMMA Chosen ==
    ASSUME TypeOK, MadeFromItsOwnText, NEW S \in SUBSET Stored
    PROVE  LET items == {Item(a, rows[a].text) : a \in S}
           IN  /\ items \in SUBSET Items /\ {i.id : i \in items} = S /\ S \subseteq Articles
               /\ \A i \in items : i.id \in S /\ i.text \in past[i.id]
<1> DEFINE items == {Item(a, rows[a].text) : a \in S}
<1>1. ASSUME NEW a \in S
      PROVE  /\ a \in Articles /\ Item(a, rows[a].text) \in Items /\ Item(a, rows[a].text).id = a
             /\ Item(a, rows[a].text).text \in past[a]
  <2>1. a \in Articles /\ a \in Articles \union Users /\ rows[a].text \in past[a] /\ rows[a].text \in Texts(a)
    BY DEF TypeOK, Stored, MadeFromItsOwnText
  <2> QED
    BY <2>1, ItemOf
<1> QED
  BY <1>1
LEMMA SelectArticlesStep ==
    ASSUME Shapes, TextsKept, NEW r \in Runs, SelectArticles(r)
    PROVE  LET refresh == Head(todo[r]) = "refresh"
               chosen == IF refresh THEN Newest(RefreshLimit, Stored) ELSE Newest(SummaryBatch, Pending)
           IN  /\ Solo(r) /\ SameHeld(job[r], job'[r]) /\ SameMail(job[r], job'[r])
               /\ SamePrune(job[r], job'[r]) /\ pc'[r] = "summarize"
               /\ IdsOfWork(r)' = chosen /\ chosen \subseteq Articles
               /\ \A i \in job'[r].work : i.text \in past[i.id]
               /\ job'[r].failed = {}
               /\ job'[r].wanted = IF refresh \/ job[r].wanted # {} THEN job[r].wanted ELSE Pending
<1> DEFINE j == job[r]
           refresh == Head(todo[r]) = "refresh"
           chosen == IF refresh THEN Newest(RefreshLimit, Stored) ELSE Newest(SummaryBatch, Pending)
           w == {Item(a, rows[a].text) : a \in chosen}
           x == IF refresh \/ j.wanted # {} THEN j.wanted ELSE Pending
           k == [j EXCEPT !.work = w, !.count = 0, !.failed = {}, !.wanted = x]
<1>1. TypeOK /\ MadeFromItsOwnText /\ j \in Job
  BY DEF Shapes, TextsKept, TypeOK
<1>2. chosen \in SUBSET Stored /\ x \in SUBSET Articles
  BY <1>1 DEF Newest, Pending, Stored, Job
<1>3. job' = [job EXCEPT ![r] = k] /\ GoTo(r, "summarize")
  BY <1>1 DEF SelectArticles, TypeOK
<1> HIDE DEF chosen
<1>4. /\ w \in SUBSET Items /\ {i.id : i \in w} = chosen /\ chosen \subseteq Articles
      /\ \A i \in w : i.text \in past[i.id]
  BY <1>1, <1>2, Chosen
<1> HIDE DEF w, x
<1>5. /\ k \in Job /\ SameHeld(j, k) /\ SameMail(j, k) /\ SamePrune(j, k)
      /\ k.work = w /\ k.count = 0 /\ k.failed = {} /\ k.wanted = x
  <2> HIDE DEF j
  <2> QED
    BY <1>1, <1>2, <1>4 DEF Job, SameHeld, SameScore, SameUser, SameMail, SamePrune
<1> HIDE DEF k
<1>6. Solo(r) /\ job'[r] = k /\ pc'[r] = "summarize"
  BY <1>1, <1>3, <1>5, Goes, PlacesAre
<1> USE <1>4, <1>5, <1>6
<1>7. IdsOfWork(r)' = chosen /\ job'[r].wanted = x
  BY DEF IdsOfWork
<1> QED
  BY <1>7 DEF chosen, x
LEMMA SummarizeArticleStep ==
    ASSUME TypeOK, NEW r \in Runs, SummarizeArticle(r)
    PROVE  \E item \in job[r].work :
              /\ Solo(r) /\ SameHeld(job[r], job'[r]) /\ SameMail(job[r], job'[r])
              /\ SamePrune(job[r], job'[r]) /\ pc'[r] = pc[r]
              /\ item.id \notin Locked
              /\ rows' = IF rows[item.id] = None THEN rows
                         ELSE [rows EXCEPT ![item.id].summary = item.text]
              /\ job'[r].work = job[r].work \ {item} /\ job'[r].count > 0
              /\ job'[r].failed = job[r].failed /\ job'[r].wanted = job[r].wanted
<1>1. PICK item \in job[r].work :
         /\ item.id \notin Locked
         /\ rows' = IF rows[item.id] = None THEN rows
                    ELSE [rows EXCEPT ![item.id].summary = item.text]
         /\ job' = [job EXCEPT ![r].work = @ \ {item}, ![r].count = @ + 1]
  BY DEF SummarizeArticle
<1> DEFINE j == job[r]
           w == j.work \ {item}
           n == j.count + 1
           k == [j EXCEPT !.work = w, !.count = n]
<1>2. j \in Job /\ todo' = todo /\ pc' = pc
  BY DEF TypeOK, SummarizeArticle
<1>3. job' = [job EXCEPT ![r] = k]
  BY <1>1, <1>2 DEF TypeOK, Job
<1>4. w \in SUBSET Items /\ n \in Nat /\ n > 0
  BY <1>2 DEF Job
<1> HIDE DEF w, n
<1>5. /\ k \in Job /\ SameHeld(j, k) /\ SameMail(j, k) /\ SamePrune(j, k)
      /\ k.work = w /\ k.count > 0 /\ k.failed = j.failed /\ k.wanted = j.wanted
  <2> HIDE DEF j
  <2> QED
    BY <1>2, <1>4 DEF Job, SameHeld, SameScore, SameUser, SameMail, SamePrune
<1> HIDE DEF k
<1>6. Solo(r) /\ job'[r] = k /\ pc'[r] = pc[r]
  BY <1>2, <1>3, <1>5, Stays
<1> QED
  BY <1>1, <1>5, <1>6 DEF w

LEMMA SummaryFailsStep ==
    ASSUME TypeOK, NEW r \in Runs, SummaryFails(r)
    PROVE  \E item \in job[r].work :
              /\ Solo(r) /\ Same(job[r], job'[r]) /\ pc'[r] = pc[r]
              /\ job'[r].work = job[r].work \ {item} /\ job'[r].failed = job[r].failed \union {item.id}
<1>1. PICK item \in job[r].work :
         job' = [job EXCEPT ![r].work = @ \ {item}, ![r].failed = @ \union {item.id}]
  BY DEF SummaryFails
<1> DEFINE j == job[r]
           w == j.work \ {item}
           f == j.failed \union {item.id}
           k == [j EXCEPT !.work = w, !.failed = f]
<1>2. j \in Job /\ todo' = todo /\ pc' = pc
  BY DEF TypeOK, SummaryFails
<1>3. job' = [job EXCEPT ![r] = k]
  BY <1>1, <1>2 DEF TypeOK, Job
<1>4. w \in SUBSET Items /\ f \in SUBSET (Articles \union Users)
  BY <1>2 DEF Job, Items
<1> HIDE DEF w, f
<1>5. k \in Job /\ Same(j, k) /\ k.work = w /\ k.failed = f
  <2> HIDE DEF j
  <2> QED
    BY <1>2, <1>4 DEF Job, Same, SameHeld, SameScore, SameUser, SameMail, SameDrain, SamePrune
<1> HIDE DEF k
<1>6. Solo(r) /\ job'[r] = k /\ pc'[r] = pc[r]
  BY <1>2, <1>3, <1>5, Stays
<1> QED
  BY <1>5, <1>6 DEF w, f

LEMMA SummaryLimitedStep ==
    ASSUME TypeOK, NEW r \in Runs, SummaryLimited(r)
    PROVE  /\ Solo(r) /\ SameHeld(job[r], job'[r]) /\ SameMail(job[r], job'[r])
           /\ SamePrune(job[r], job'[r]) /\ pc'[r] = pc[r]
           /\ job'[r].work = {} /\ job'[r].limited /\ job'[r].wanted = job[r].wanted
<1> DEFINE j == job[r]
           k == [j EXCEPT !.work = {}, !.limited = TRUE]
<1>1. j \in Job /\ todo' = todo /\ pc' = pc /\ job' = [job EXCEPT ![r] = k]
  BY DEF TypeOK, SummaryLimited
<1>2. /\ k \in Job /\ SameHeld(j, k) /\ SameMail(j, k) /\ SamePrune(j, k)
      /\ k.work = {} /\ k.limited /\ k.wanted = j.wanted
  <2> HIDE DEF j
  <2> QED
    BY <1>1 DEF Job, SameHeld, SameScore, SameUser, SameMail, SamePrune
<1> HIDE DEF k
<1> QED
  BY <1>1, <1>2, Stays

(* An embedding: rows are read, updated one by one and committed.          *)
LEMMA SelectRowsStep ==
    ASSUME Shapes, TextsKept, NEW r \in Runs, SelectRows(r)
    PROVE  /\ Solo(r) /\ SameHeld(job[r], job'[r]) /\ SameMail(job[r], job'[r])
           /\ SamePrune(job[r], job'[r]) /\ job'[r].wanted = job[r].wanted
           /\ \A i \in job'[r].work : i.id \in Articles /\ i.text \in past[i.id]
<1> DEFINE j == job[r]
           chosen == IF j.count < MaxBatches THEN Newest(EmbedBatch, EmbeddingPending) ELSE {}
           w == {Item(a, rows[a].text) : a \in chosen}
           at == [a \in Articles |-> IF a \in chosen THEN rows[a].at ELSE 0]
           k == [j EXCEPT !.work = w, !.readAt = at]
<1>1. TypeOK /\ MadeFromItsOwnText /\ j \in Job
  BY DEF Shapes, TextsKept, TypeOK
<1>2. chosen \in SUBSET Stored
  BY DEF Newest, EmbeddingPending
<1>3. job' = [job EXCEPT ![r] = k] /\ \E place \in {"end", "embed"} : GoTo(r, place)
  BY <1>1 DEF SelectRows, TypeOK
<1>4. at \in [Articles -> 0 .. MaxDays]
  <2> HIDE DEF chosen
  <2>1. \A a \in chosen : rows[a].at \in 0 .. MaxDays
    BY <1>1, <1>2 DEF TypeOK, Row, Stored
  <2>2. 0 \in 0 .. MaxDays
    BY LimitsAssumption
  <2> QED
    BY <2>1, <2>2
<1> HIDE DEF chosen, at
<1>5. w \in SUBSET Items /\ chosen \subseteq Articles /\ \A i \in w : i.id \in chosen /\ i.text \in past[i.id]
  BY <1>1, <1>2, Chosen
<1> HIDE DEF w
<1>6. /\ k \in Job /\ SameHeld(j, k) /\ SameMail(j, k) /\ SamePrune(j, k)
      /\ k.work = w /\ k.wanted = j.wanted
  <2> HIDE DEF j
  <2> QED
    BY <1>1, <1>4, <1>5 DEF Job, SameHeld, SameScore, SameUser, SameMail, SamePrune
<1> HIDE DEF k
<1>7. Solo(r) /\ job'[r] = k
  BY <1>1, <1>3, <1>6, Goes, PlacesAre
<1> QED
  BY <1>5, <1>6, <1>7

LEMMA UpdateRowStep ==
    ASSUME TypeOK, NEW r \in Runs, UpdateRow(r)
    PROVE  \E item \in job[r].work :
              /\ Solo(r) /\ SameScore(job[r], job'[r]) /\ SameMail(job[r], job'[r])
              /\ SamePrune(job[r], job'[r]) /\ job'[r].wanted = job[r].wanted
              /\ job'[r].work \subseteq job[r].work
              /\ job'[r].updated \subseteq job[r].updated \union {item}
<1>1. PICK item \in job[r].work :
         job' = [job EXCEPT ![r].work = @ \ {item}, ![r].updated = @ \union {i \in {item} : i.id \in Stored}]
  BY DEF UpdateRow
<1> DEFINE j == job[r]
           w == j.work \ {item}
           d == j.updated \union {i \in {item} : i.id \in Stored}
           k == [j EXCEPT !.work = w, !.updated = d]
<1>2. j \in Job /\ todo' = todo /\ pc' = pc
  BY DEF TypeOK, UpdateRow
<1>3. job' = [job EXCEPT ![r] = k]
  BY <1>1, <1>2 DEF TypeOK, Job
<1>4. w \in SUBSET Items /\ w \subseteq j.work /\ d \in SUBSET Items /\ d \subseteq j.updated \union {item}
  BY <1>2 DEF Job
<1> HIDE DEF w, d
<1>5. /\ k \in Job /\ SameScore(j, k) /\ SameMail(j, k) /\ SamePrune(j, k)
      /\ k.work = w /\ k.updated = d /\ k.wanted = j.wanted
  <2> HIDE DEF j
  <2> QED
    BY <1>2, <1>4 DEF Job, SameScore, SameUser, SameMail, SamePrune
<1> HIDE DEF k
<1>6. Solo(r) /\ job'[r] = k
  BY <1>2, <1>3, <1>5, Stays
<1> QED
  BY <1>4, <1>5, <1>6

LEMMA EmbedCommitsStep ==
    ASSUME TypeOK, NEW r \in Runs, EmbedCommits(r)
    PROVE  /\ Solo(r) /\ SameScore(job[r], job'[r]) /\ SameMail(job[r], job'[r])
           /\ SamePrune(job[r], job'[r]) /\ job'[r].wanted = job[r].wanted
           /\ job'[r].work = job[r].work /\ job'[r].updated = {}
<1> DEFINE j == job[r]
           n == j.count + 1
           k == [j EXCEPT !.updated = {}, !.count = n]
<1>1. j \in Job /\ job' = [job EXCEPT ![r] = k] /\ GoTo(r, "start")
  BY DEF EmbedCommits, TypeOK, Job
<1>2. n \in Nat
  BY <1>1 DEF Job
<1> HIDE DEF n
<1>3. /\ k \in Job /\ SameScore(j, k) /\ SameMail(j, k) /\ SamePrune(j, k)
      /\ k.work = j.work /\ k.updated = {} /\ k.wanted = j.wanted
  <2> HIDE DEF j
  <2> QED
    BY <1>1, <1>2 DEF Job, SameScore, SameUser, SameMail, SamePrune
<1> HIDE DEF k
<1>4. Solo(r) /\ job'[r] = k
  BY <1>1, <1>3, Goes, PlacesAre
<1> QED
  BY <1>3, <1>4

(* Commands that read profiles or letters, and write what comes of them.   *)
LEMMA UsersStep ==
    ASSUME Shapes, NEW r \in Runs,
           FetchUsers(r) \/ UpsertUsers(r) \/ ReadProfiles(r) \/ UpsertVectors(r) \/ LoadUsers(r)
    PROVE  /\ Solo(r) /\ Same(job[r], job'[r]) /\ job'[r].failed = job[r].failed
           /\ pc'[r] \notin {"start", "send"}
           /\ \A i \in job'[r].work : i.id \in Users
<1> DEFINE With(w) == [job EXCEPT ![r] = [job[r] EXCEPT !.work = w]]
           Working(w) == w \in SUBSET Items /\ \A i \in w : i.id \in Users
           next == {"load", "upsert", "end"}
<1>1. TypeOK /\ Working({}) /\ job[r] \in Job
  BY DEF Shapes, TypeOK
<1>2. ASSUME FetchUsers(r)
      PROVE  \E w : Working(w) /\ job' = With(w) /\ \E place \in next : GoTo(r, place)
  <2> DEFINE S == {v \in Subscribers : app[v] # None}
             w == {Item(u, <<u, app[u]>>) : u \in S}
  <2>1. ASSUME NEW u \in S
        PROVE  u \in Users /\ Item(u, <<u, app[u]>>) \in Items /\ Item(u, <<u, app[u]>>).id = u
    <3>1. u \in Users /\ u \in Articles \union Users /\ <<u, app[u]>> \in Texts(u)
      BY <1>1 DEF TypeOK, Texts, Users
    <3> QED
      BY <3>1, ItemOf
  <2>2. job' = With(w) /\ GoTo(r, "upsert")
    BY <1>1, <1>2 DEF FetchUsers, TypeOK
  <2> HIDE DEF S
  <2>3. Working(w)
    BY <2>1
  <2> HIDE DEF w
  <2> QED
    BY <2>2, <2>3
<1>3. ASSUME ReadProfiles(r)
      PROVE  \E w : Working(w) /\ job' = With(w) /\ \E place \in next : GoTo(r, place)
  <2> DEFINE S == {u \in Users : /\ profile[u] # None
                                 /\ vector[u] = None \/ vector[u].source_hash # profile[u]}
             w == {Item(u, profile[u]) : u \in S}
  <2>1. ASSUME NEW u \in S
        PROVE  u \in Users /\ Item(u, profile[u]) \in Items /\ Item(u, profile[u]).id = u
    <3>1. u \in Users /\ u \in Articles \union Users /\ profile[u] \in Texts(u)
      BY <1>1 DEF TypeOK
    <3> QED
      BY <3>1, ItemOf
  <2>2. job' = With(w) /\ \E place \in {"end", "upsert"} : GoTo(r, place)
    BY <1>1, <1>3 DEF ReadProfiles, TypeOK
  <2> HIDE DEF S
  <2>3. Working(w)
    BY <2>1
  <2> HIDE DEF w
  <2> QED
    BY <2>2, <2>3
<1>4. ASSUME LoadUsers(r)
      PROVE  \E w : Working(w) /\ job' = With(w) /\ \E place \in next : GoTo(r, place)
  <2> DEFINE S == {v \in Subscribers : profile[v] # None}
             w == {Item(u, profile[u]) : u \in S}
  <2>1. ASSUME NEW u \in S
        PROVE  u \in Users /\ Item(u, profile[u]) \in Items /\ Item(u, profile[u]).id = u
    <3>1. u \in Users /\ u \in Articles \union Users /\ profile[u] \in Texts(u)
      BY <1>1 DEF TypeOK, Users
    <3> QED
      BY <3>1, ItemOf
  <2>2. job' = With(w) /\ GoTo(r, "load")
    BY <1>1, <1>4 DEF LoadUsers, TypeOK
  <2> HIDE DEF S
  <2>3. Working(w)
    BY <2>1
  <2> HIDE DEF w
  <2> QED
    BY <2>2, <2>3
<1>5. ASSUME UpsertUsers(r) \/ UpsertVectors(r)
      PROVE  \E w : Working(w) /\ job' = With(w) /\ \E place \in next : GoTo(r, place)
  <2>1. job' = With({}) /\ GoTo(r, "end")
    BY <1>1, <1>5 DEF UpsertUsers, UpsertVectors, TypeOK
  <2> HIDE DEF With, Working
  <2> QED
    BY <1>1, <2>1
<1> HIDE DEF With, Working, next
<1>6. PICK w : Working(w) /\ job' = With(w) /\ \E place \in next : GoTo(r, place)
  BY <1>2, <1>3, <1>4, <1>5
<1> DEFINE j == job[r]
           k == [j EXCEPT !.work = w]
<1>7. k \in Job /\ Same(j, k) /\ k.work = w /\ k.failed = j.failed
  <2>1. j \in Job /\ w \in SUBSET Items
    BY <1>1, <1>6 DEF Working
  <2> HIDE DEF j
  <2> QED
    BY <2>1, WorkJobs
<1>8. job' = [job EXCEPT ![r] = k]
  BY <1>6 DEF With
<1> HIDE DEF k
<1>9. Solo(r) /\ job'[r] = k /\ pc'[r] \in next
  BY <1>1, <1>6, <1>7, <1>8, Goes, PlacesAre DEF next
<1> QED
  BY <1>6, <1>7, <1>9 DEF Working, next

LEMMA ReadVectorsStep ==
    ASSUME Shapes, NEW r \in Runs, ReadVectors(r)
    PROVE  /\ Solo(r) /\ Same(job[r], job'[r]) /\ pc'[r] = "delete"
           /\ \A i \in job'[r].work : i.id \in Users
<1> DEFINE j == job[r]
           S == {v \in Users : vector[v] # None}
           w == {Item(u, vector[u].of) : u \in S}
           k == [j EXCEPT !.clock = today, !.work = w]
<1>1. TypeOK /\ j \in Job /\ today \in 0 .. MaxDays
  BY DEF Shapes, TypeOK
<1>2. ASSUME NEW u \in S
      PROVE  u \in Users /\ Item(u, vector[u].of) \in Items /\ Item(u, vector[u].of).id = u
  <2>1. u \in Users /\ u \in Articles \union Users /\ vector[u].of \in Texts(u)
    BY <1>1 DEF TypeOK
  <2> QED
    BY <2>1, ItemOf
<1>3. job' = [job EXCEPT ![r] = k] /\ GoTo(r, "delete")
  BY <1>1 DEF ReadVectors, TypeOK
<1> HIDE DEF S
<1>4. w \in SUBSET Items /\ \A i \in w : i.id \in Users
  BY <1>2
<1> HIDE DEF w
<1>5. k \in Job /\ Same(j, k) /\ k.work = w
  <2> HIDE DEF j
  <2> QED
    BY <1>1, <1>4 DEF Job, Same, SameHeld, SameScore, SameUser, SameMail, SameDrain, SamePrune
<1> HIDE DEF k
<1>6. Solo(r) /\ job'[r] = k /\ pc'[r] = "delete"
  BY <1>1, <1>3, <1>5, Goes, PlacesAre
<1> QED
  BY <1>4, <1>5, <1>6

(* One user's scores are replaced.  A scoring leaves these as they are.    *)
SameBeside(j, k) == SameMail(j, k) /\ SameDrain(j, k) /\ SamePrune(j, k) /\ k.updated = j.updated

LEMMA DeleteScoresStep ==
    ASSUME Shapes, NEW r \in Runs, DeleteScores(r)
    PROVE  \E item \in job[r].work :
              /\ item.id \in Users
              /\ Solo(r) /\ SameBeside(job[r], job'[r]) /\ pc'[r] = "rank"
              /\ job'[r].work \subseteq job[r].work
              /\ job'[r].removed = job[r].removed /\ job'[r].written = job[r].written
              /\ job'[r].user = item.id /\ job'[r].scoresLeft = ScoresOf(item.id)
              /\ mixed' = IF \E q \in Runs : job[q].user = item.id THEN mixed \union {item.id} ELSE mixed
<1>1. TypeOK /\ job[r] \in Job /\ GoTo(r, "rank") /\ Doing(r, {"score-users"})
  BY DEF Shapes, TypeOK, DeleteScores, Doing, At
<1>2. PICK item \in job[r].work :
         /\ job' = [job EXCEPT ![r].work = @ \ {item}, ![r].user = item.id,
                               ![r].scoresLeft = ScoresOf(item.id)]
         /\ mixed' = IF \E q \in Runs : job[q].user = item.id THEN mixed \union {item.id} ELSE mixed
  BY DEF DeleteScores
<1>3. item.id \in Users
  BY <1>1 DEF Shapes, Fits, Doing, IdsOfWork, OfUsers
<1> DEFINE j == job[r]
           w == j.work \ {item}
           u == item.id
           s == ScoresOf(u)
           k == [j EXCEPT !.work = w, !.user = u, !.scoresLeft = s]
<1>4. job' = [job EXCEPT ![r] = k]
  BY <1>1, <1>2 DEF TypeOK
<1>5. w \in SUBSET Items /\ s \in SUBSET Pair /\ u \in Users /\ w \subseteq j.work
  BY <1>1, <1>3 DEF TypeOK, Job, ScoresOf
<1> HIDE DEF w, u, s
<1>6. /\ k \in Job /\ SameBeside(j, k) /\ k.removed = j.removed /\ k.written = j.written
      /\ k.work = w /\ k.user = u /\ k.scoresLeft = s
  <2>1. j \in Job
    BY <1>1
  <2> HIDE DEF j
  <2> QED
    BY <1>5, <2>1 DEF Job, SameBeside, SameMail, SameDrain, SamePrune
<1> HIDE DEF k
<1>7. Solo(r) /\ job'[r] = k /\ pc'[r] = "rank"
  BY <1>1, <1>4, <1>6, Goes, PlacesAre
<1> QED
  BY <1>2, <1>3, <1>5, <1>6, <1>7 DEF u, s

LEMMA RankArticlesStep ==
    ASSUME Shapes, Scores, NEW r \in Runs, RankArticles(r)
    PROVE  \E T \in SUBSET Eligible(r) :
              /\ Solo(r) /\ SameBeside(job[r], job'[r]) /\ pc'[r] = "insert" /\ job'[r].work = job[r].work
              /\ job[r].user \in Users /\ job'[r].user = job[r].user
              /\ job'[r].removed = job[r].removed /\ job'[r].scoresLeft = job[r].scoresLeft
              /\ job'[r].written = job[r].written
              /\ Cardinality(T) <= TopK
              /\ job'[r].ranked = {<<job[r].user, a>> : a \in T}
<1>1. TypeOK /\ job[r] \in Job /\ GoTo(r, "insert")
  BY DEF Shapes, TypeOK, RankArticles
<1>2. PICK T \in SUBSET Eligible(r) :
         Cardinality(T) <= TopK /\ job' = [job EXCEPT ![r].ranked = {<<job[r].user, a>> : a \in T}]
  BY DEF RankArticles
<1>3. job[r].user \in Users
  BY <1>1 DEF Scores, Scoring, RankArticles, Job
<1> DEFINE j == job[r]
           s == {<<j.user, a>> : a \in T}
           k == [j EXCEPT !.ranked = s]
<1>4. job' = [job EXCEPT ![r] = k]
  BY <1>1, <1>2 DEF TypeOK
<1>5. s \in SUBSET Pair
  BY <1>3 DEF Eligible, Stored, Pair
<1> HIDE DEF s
<1>6. /\ k \in Job /\ SameBeside(j, k) /\ k.work = j.work /\ k.user = j.user
      /\ k.removed = j.removed /\ k.scoresLeft = j.scoresLeft /\ k.written = j.written /\ k.ranked = s
  <2>1. j \in Job
    BY <1>1
  <2> HIDE DEF j
  <2> QED
    BY <1>5, <2>1 DEF Job, SameBeside, SameMail, SameDrain, SamePrune
<1> HIDE DEF k
<1>7. Solo(r) /\ job'[r] = k /\ pc'[r] = "insert"
  BY <1>1, <1>4, <1>6, Goes, PlacesAre
<1> QED
  BY <1>2, <1>3, <1>6, <1>7 DEF s

LEMMA InsertScoreStep ==
    ASSUME TypeOK, NEW r \in Runs, InsertScore(r)
    PROVE  \E s \in job[r].ranked :
              /\ Solo(r) /\ SameBeside(job[r], job'[r]) /\ pc'[r] = pc[r] /\ job'[r].work = job[r].work
              /\ s[2] \in Stored /\ \A q \in Runs \ {r} : ~HoldsInsert(q, r, s)
              /\ job'[r].user = job[r].user /\ job'[r].removed = job[r].removed
              /\ job'[r].scoresLeft = job[r].scoresLeft
              /\ job'[r].ranked = job[r].ranked \ {s} /\ job'[r].written = job[r].written \union {s}
<1>1. PICK s \in job[r].ranked :
         /\ s[2] \in Stored /\ \A q \in Runs \ {r} : ~HoldsInsert(q, r, s)
         /\ job' = [job EXCEPT ![r].ranked = @ \ {s}, ![r].written = @ \union {s}]
  BY DEF InsertScore
<1> DEFINE j == job[r]
           n == j.ranked \ {s}
           w == j.written \union {s}
           k == [j EXCEPT !.ranked = n, !.written = w]
<1>2. j \in Job /\ todo' = todo /\ pc' = pc
  BY DEF TypeOK, InsertScore
<1>3. job' = [job EXCEPT ![r] = k]
  BY <1>1, <1>2 DEF TypeOK, Job
<1>4. n \in SUBSET Pair /\ w \in SUBSET Pair
  BY <1>1, <1>2 DEF Job
<1> HIDE DEF n, w
<1>5. /\ k \in Job /\ SameBeside(j, k) /\ k.work = j.work /\ k.user = j.user
      /\ k.removed = j.removed /\ k.scoresLeft = j.scoresLeft /\ k.ranked = n /\ k.written = w
  <2> HIDE DEF j
  <2> QED
    BY <1>2, <1>4 DEF Job, SameBeside, SameMail, SameDrain, SamePrune
<1> HIDE DEF k
<1>6. Solo(r) /\ job'[r] = k /\ pc'[r] = pc[r]
  BY <1>2, <1>3, <1>5, Stays
<1> QED
  BY <1>1, <1>5, <1>6 DEF n, w

LEMMA ScoresCommitStep ==
    ASSUME TypeOK, NEW r \in Runs, ScoresCommit(r)
    PROVE  /\ Solo(r) /\ SameBeside(job[r], job'[r]) /\ pc'[r] = "delete" /\ job'[r].work = job[r].work
           /\ job'[r].user = None /\ job'[r].removed = {} /\ job'[r].written = {}
           /\ job'[r].scoresLeft = job[r].scoresLeft
           /\ \A q \in Runs \ {r} : job'[q].scoresLeft = job[q].scoresLeft \ job[r].removed
<1> DEFINE j == job[r]
           gone == j.removed
           k == [j EXCEPT !.user = None, !.removed = {}, !.written = {}]
           other(q) == [job[q] EXCEPT !.scoresLeft = job[q].scoresLeft \ gone]
<1>1. /\ j \in Job /\ GoTo(r, "delete") /\ pc' = [pc EXCEPT ![r] = "delete"] /\ todo' = todo
      /\ Commits(r)
  BY DEF TypeOK, ScoresCommit, GoTo, Commits
<1>2. job' = [q \in Runs |-> IF q = r THEN k ELSE other(q)]
  BY DEF ScoresCommit
<1>3. /\ k \in Job /\ SameBeside(j, k) /\ k.work = j.work /\ k.user = None /\ k.removed = {}
      /\ k.written = {} /\ k.scoresLeft = j.scoresLeft
  <2> HIDE DEF j
  <2> QED
    BY <1>1 DEF Job, SameBeside, SameMail, SameDrain, SamePrune
<1> HIDE DEF k, gone
<1>4. ASSUME NEW q \in Runs \ {r}
      PROVE  other(q) \in Job /\ Bystander(q) /\ job'[q].scoresLeft = job[q].scoresLeft \ gone
  <2> DEFINE i == job[q]
             x == i.scoresLeft \ gone
             o == [i EXCEPT !.scoresLeft = x]
  <2>1. i \in Job
    BY DEF TypeOK
  <2>2. x \in SUBSET Pair /\ x \subseteq i.scoresLeft
    BY <2>1 DEF Job
  <2>3. job'[q] = o /\ other(q) = o
    BY <1>2
  <2>4. todo'[q] = todo[q] /\ pc'[q] = pc[q]
    BY <1>1 DEF TypeOK
  <2> HIDE DEF x
  <2>5. /\ o \in Job /\ SameUser(i, o) /\ SameMail(i, o) /\ SameDrain(i, o) /\ SamePrune(i, o)
        /\ o.work = i.work /\ o.failed = i.failed /\ o.removed = i.removed /\ o.updated = i.updated
        /\ o.scoresLeft = x
    <3> HIDE DEF i
    <3> QED
      BY <2>1, <2>2 DEF Job, SameUser, SameMail, SameDrain, SamePrune
  <2> HIDE DEF o, other
  <2> QED
    BY <2>2, <2>3, <2>4, <2>5 DEF Bystander, SameDrain, SamePrune, x
<1> HIDE DEF other
<1>5. job' \in [Runs -> Job] /\ job'[r] = k
  BY <1>2, <1>3, <1>4
<1>6. pc' \in [Runs -> Places] /\ pc'[r] = "delete"
  BY <1>1, PlacesAre DEF TypeOK
<1> QED
  BY <1>1, <1>3, <1>4, <1>5, <1>6 DEF Solo, gone

(* A row of scores, of a user or of a deleted article, is deleted.         *)
LEMMA DeleteScoreRowStep ==
    ASSUME TypeOK, NEW r \in Runs, DeleteScoreRow(r)
    PROVE  \E s \in job[r].scoresLeft :
              /\ Solo(r) /\ SameBeside(job[r], job'[r]) /\ SameUser(job[r], job'[r])
              /\ pc'[r] = pc[r] /\ job'[r].work = job[r].work
              /\ \A q \in Runs \ {r} : s \notin KeepsScores(q)
              /\ job'[r].scoresLeft = job[r].scoresLeft \ {s}
              /\ job'[r].removed = job[r].removed \union {s}
<1>1. PICK s \in job[r].scoresLeft :
         /\ \A q \in Runs \ {r} : s \notin KeepsScores(q)
         /\ job' = [job EXCEPT ![r].scoresLeft = @ \ {s}, ![r].removed = @ \union {s}]
  BY DEF DeleteScoreRow
<1> DEFINE j == job[r]
           n == j.scoresLeft \ {s}
           w == j.removed \union {s}
           k == [j EXCEPT !.scoresLeft = n, !.removed = w]
<1>2. j \in Job /\ todo' = todo /\ pc' = pc
  BY DEF TypeOK, DeleteScoreRow
<1>3. job' = [job EXCEPT ![r] = k]
  BY <1>1, <1>2 DEF TypeOK, Job
<1>4. n \in SUBSET Pair /\ w \in SUBSET Pair
  BY <1>1, <1>2 DEF Job
<1> HIDE DEF n, w
<1>5. /\ k \in Job /\ SameBeside(j, k) /\ SameUser(j, k) /\ k.work = j.work
      /\ k.scoresLeft = n /\ k.removed = w
  <2> HIDE DEF j
  <2> QED
    BY <1>2, <1>4 DEF Job, SameBeside, SameUser, SameMail, SameDrain, SamePrune
<1> HIDE DEF k
<1>6. Solo(r) /\ job'[r] = k /\ pc'[r] = pc[r]
  BY <1>2, <1>3, <1>5, Stays
<1> QED
  BY <1>1, <1>5, <1>6 DEF n, w

(* One prune.  Its statements leave these as they are.                     *)
SameOutside(j, k) == SameUser(j, k) /\ SameMail(j, k) /\ SameDrain(j, k) /\ k.updated = j.updated

LEMMA PruneBegins ==
    ASSUME TypeOK, NEW r \in Runs, PruneAged(r)
    PROVE  /\ Solo(r) /\ SameOutside(job[r], job'[r]) /\ SameScore(job[r], job'[r])
           /\ pc'[r] = "age" /\ job'[r].oldest = job[r].oldest /\ job'[r].doomed = job[r].doomed
<1> DEFINE j == job[r]
           s == {a \in Stored : Aged(a, today)}
           k == [j EXCEPT !.clock = today, !.disturbed = FALSE, !.rowsLeft = s]
<1>1. j \in Job /\ GoTo(r, "age") /\ job' = [job EXCEPT ![r] = k] /\ today \in 0 .. MaxDays
  BY DEF TypeOK, PruneAged
<1>2. s \in SUBSET Articles
  BY DEF Stored
<1> HIDE DEF s
<1>3. k \in Job /\ SameOutside(j, k) /\ SameScore(j, k) /\ k.oldest = j.oldest /\ k.doomed = j.doomed
  <2> HIDE DEF j
  <2> QED
    BY <1>1, <1>2 DEF Job, SameOutside, SameScore, SameUser, SameMail, SameDrain
<1> HIDE DEF k
<1> QED
  BY <1>1, <1>3, Goes, PlacesAre

(* The next statement: what is left to delete is read anew.                *)
LEMMA StatementStep ==
    ASSUME TypeOK, NEW r \in Runs, PruneIrrelevant(r) \/ PruneOldest(r)
    PROVE  /\ Solo(r) /\ SameOutside(job[r], job'[r]) /\ SameScore(job[r], job'[r])
           /\ job'[r].oldest = job[r].oldest /\ job'[r].doomed = job[r].doomed
           /\ job'[r].disturbed = job[r].disturbed /\ job'[r].excess = job[r].excess
           /\ PruneIrrelevant(r) => pc'[r] = "relevance"
           /\ PruneOldest(r) => pc'[r] = "commit" /\ job'[r].rowsLeft = job[r].oldest \intersect Left(r)
<1> DEFINE j == job[r]
           With(s) == [j EXCEPT !.rowsLeft = s]
<1>1. j \in Job /\ Left(r) \subseteq Articles
  BY DEF TypeOK, Left, Stored
<1>2. ASSUME NEW s \in SUBSET Articles
      PROVE  /\ With(s) \in Job /\ SameOutside(j, With(s)) /\ SameScore(j, With(s))
             /\ With(s).oldest = j.oldest /\ With(s).doomed = j.doomed
             /\ With(s).disturbed = j.disturbed /\ With(s).excess = j.excess /\ With(s).rowsLeft = s
  <2>1. j \in Job
    BY <1>1
  <2> HIDE DEF j
  <2> QED
    BY <2>1 DEF Job, SameOutside, SameScore, SameUser, SameMail, SameDrain
<1>3. CASE PruneIrrelevant(r)
  <2> DEFINE s == {a \in Left(r) : Irrelevant(a, job[r].clock)}
  <2>1. s \in SUBSET Articles /\ job' = [job EXCEPT ![r] = With(s)] /\ GoTo(r, "relevance")
    BY <1>1, <1>3 DEF PruneIrrelevant, TypeOK
  <2>2. ~PruneOldest(r)
    BY <1>3 DEF PruneIrrelevant, PruneOldest, At
  <2> HIDE DEF s, With
  <2>3. Solo(r) /\ job'[r] = With(s) /\ pc'[r] = "relevance"
    BY <1>2, <2>1, Goes, PlacesAre
  <2> QED
    BY <1>2, <2>1, <2>2, <2>3
<1>4. CASE PruneOldest(r)
  <2> DEFINE s == job[r].oldest \intersect Left(r)
  <2>1. s \in SUBSET Articles /\ job' = [job EXCEPT ![r] = With(s)] /\ GoTo(r, "commit")
    BY <1>1, <1>4 DEF PruneOldest, TypeOK
  <2>2. ~PruneIrrelevant(r)
    BY <1>4 DEF PruneIrrelevant, PruneOldest, At
  <2> HIDE DEF s, With
  <2>3. Solo(r) /\ job'[r] = With(s) /\ pc'[r] = "commit"
    BY <1>2, <2>1, Goes, PlacesAre
  <2> QED
    BY <1>2, <2>1, <2>2, <2>3 DEF s
<1> QED
  BY <1>3, <1>4

LEMMA DeleteRowStep ==
    ASSUME TypeOK, NEW r \in Runs, DeleteRow(r)
    PROVE  \E a \in job[r].rowsLeft : \E gone \in SUBSET {a} :
              /\ Solo(r) /\ SameOutside(job[r], job'[r]) /\ pc'[r] = pc[r]
              /\ \A q \in Runs \ {r} : ~HoldsRow(q, a)
              /\ job'[r].removed = job[r].removed /\ job'[r].oldest = job[r].oldest
              /\ job'[r].disturbed = job[r].disturbed /\ job'[r].excess = job[r].excess
              /\ job'[r].rowsLeft = job[r].rowsLeft \ {a}
              /\ job'[r].doomed = job[r].doomed \union gone
              /\ job'[r].scoresLeft = job[r].scoresLeft \union {s \in score : s[2] \in gone}
              /\ pc[r] = "commit" => gone = {a}
<1>1. PICK a \in job[r].rowsLeft :
         LET gone == {b \in {a} : Condemned(r, b)}
         IN  /\ \A q \in Runs \ {r} : ~HoldsRow(q, a)
             /\ job' = [job EXCEPT ![r].rowsLeft = @ \ {a}, ![r].doomed = @ \union gone,
                                   ![r].scoresLeft = @ \union {s \in score : s[2] \in gone}]
  BY DEF DeleteRow
<1> DEFINE j == job[r]
           gone == {b \in {a} : Condemned(r, b)}
           n == j.rowsLeft \ {a}
           d == j.doomed \union gone
           c == j.scoresLeft \union {s \in score : s[2] \in gone}
           k == [j EXCEPT !.rowsLeft = n, !.doomed = d, !.scoresLeft = c]
<1>2. j \in Job /\ todo' = todo /\ pc' = pc /\ score \subseteq Pair
  BY DEF TypeOK, DeleteRow
<1>3. job' = [job EXCEPT ![r] = k]
  BY <1>1, <1>2 DEF TypeOK, Job
<1>4. n \in SUBSET Articles /\ d \in SUBSET Articles /\ c \in SUBSET Pair
  BY <1>2 DEF Job
<1>5. gone \in SUBSET {a} /\ (pc[r] = "commit" => gone = {a})
  BY DEF Condemned
<1> HIDE DEF n, d, c
<1>6. /\ k \in Job /\ SameOutside(j, k) /\ k.removed = j.removed /\ k.oldest = j.oldest
      /\ k.disturbed = j.disturbed /\ k.excess = j.excess
      /\ k.rowsLeft = n /\ k.doomed = d /\ k.scoresLeft = c
  <2> HIDE DEF j
  <2> QED
    BY <1>2, <1>4 DEF Job, SameOutside, SameUser, SameMail, SameDrain
<1> HIDE DEF k
<1>7. Solo(r) /\ job'[r] = k /\ pc'[r] = pc[r]
  BY <1>2, <1>3, <1>6, Stays
<1> HIDE DEF gone
<1> QED
  BY <1>1, <1>5, <1>6, <1>7 DEF n, d, c

LEMMA CountRowsStep ==
    ASSUME TypeOK, NEW r \in Runs, CountRows(r)
    PROVE  LET over == Cardinality(Left(r)) - Cap
           IN  /\ Solo(r) /\ SameOutside(job[r], job'[r]) /\ SameScore(job[r], job'[r])
               /\ Cardinality(Left(r)) \in Nat
               /\ pc'[r] = (IF over > 0 THEN "oldest" ELSE "commit")
               /\ job'[r].doomed = job[r].doomed /\ job'[r].oldest = job[r].oldest
               /\ job'[r].disturbed = job[r].disturbed /\ job'[r].rowsLeft = job[r].rowsLeft
               /\ job'[r].excess = IF over > 0 THEN over ELSE 0
<1> DEFINE j == job[r]
           over == Cardinality(Left(r)) - Cap
           n == IF over > 0 THEN over ELSE 0
           place == IF over > 0 THEN "oldest" ELSE "commit"
           k == [j EXCEPT !.excess = n]
<1>1. j \in Job /\ GoTo(r, place) /\ job' = [job EXCEPT ![r] = k]
  BY DEF TypeOK, CountRows
<1>2. Cardinality(Left(r)) \in Nat /\ place \in Places /\ n \in Nat
  <2>1. IsFiniteSet(Left(r))
    BY NamesAssumption, FS_Subset DEF Left, Stored
  <2> QED
    BY <2>1, FS_CardinalityType, LimitsAssumption, PlacesAre
<1> HIDE DEF n, place
<1>3. /\ k \in Job /\ SameOutside(j, k) /\ SameScore(j, k) /\ k.excess = n
      /\ k.doomed = j.doomed /\ k.oldest = j.oldest /\ k.disturbed = j.disturbed /\ k.rowsLeft = j.rowsLeft
  <2> HIDE DEF j
  <2> QED
    BY <1>1, <1>2 DEF Job, SameOutside, SameScore, SameUser, SameMail, SameDrain
<1> HIDE DEF k
<1>4. Solo(r) /\ job'[r] = k /\ pc'[r] = place
  BY <1>1, <1>2, <1>3, Goes
<1> QED
  BY <1>2, <1>3, <1>4 DEF n, place

LEMMA ReadOldestStep ==
    ASSUME TypeOK, NEW r \in Runs, ReadOldest(r)
    PROVE  \E T \in SUBSET Left(r) :
              /\ Solo(r) /\ SameOutside(job[r], job'[r]) /\ SameScore(job[r], job'[r]) /\ pc'[r] = "cap"
              /\ job'[r].doomed = job[r].doomed /\ job'[r].oldest = T
              /\ job'[r].disturbed = job[r].disturbed /\ job'[r].rowsLeft = job[r].rowsLeft
              /\ Cardinality(T) <= job[r].excess /\ (T = Left(r) \/ Cardinality(T) = job[r].excess)
              /\ \A a \in T, b \in Left(r) \ T : rows[a].at <= rows[b].at
<1>1. PICK T \in SUBSET Left(r) :
         /\ Cardinality(T) <= job[r].excess /\ (T = Left(r) \/ Cardinality(T) = job[r].excess)
         /\ \A a \in T, b \in Left(r) \ T : rows[a].at <= rows[b].at
         /\ job' = [job EXCEPT ![r].oldest = T]
  BY DEF ReadOldest
<1> DEFINE j == job[r]
           k == [j EXCEPT !.oldest = T]
<1>2. j \in Job /\ GoTo(r, "cap") /\ job' = [job EXCEPT ![r] = k] /\ T \in SUBSET Articles
  BY <1>1 DEF TypeOK, ReadOldest, Left, Stored
<1>3. /\ k \in Job /\ SameOutside(j, k) /\ SameScore(j, k) /\ k.oldest = T
      /\ k.doomed = j.doomed /\ k.disturbed = j.disturbed /\ k.rowsLeft = j.rowsLeft
  <2> HIDE DEF j
  <2> QED
    BY <1>2 DEF Job, SameOutside, SameScore, SameUser, SameMail, SameDrain
<1> HIDE DEF k
<1>4. Solo(r) /\ job'[r] = k /\ pc'[r] = "cap"
  BY <1>2, <1>3, Goes, PlacesAre
<1> QED
  BY <1>1, <1>3, <1>4

LEMMA PruneCommitsStep ==
    ASSUME TypeOK, NEW r \in Runs, PruneCommits(r)
    PROVE  /\ Solo(r) /\ SameOutside(job[r], job'[r]) /\ pc'[r] = "end"
           /\ job'[r].removed = {} /\ job'[r].doomed = {} /\ job'[r].scoresLeft = job[r].scoresLeft
           /\ \A q \in Runs \ {r} :
                 /\ job'[q].wanted = job[q].wanted \ job[r].doomed
                 /\ job'[q].scoresLeft = job[q].scoresLeft \ job[r].removed
                 /\ Doing(q, {"prune"}) => job'[q].disturbed
<1> DEFINE j == job[r]
           gone == j.doomed
           taken == j.removed
           k == [j EXCEPT !.doomed = {}, !.removed = {}, !.oldest = {}]
           other(q) == [job[q] EXCEPT !.disturbed = job[q].disturbed \/ At(q, "prune", pc[q]),
                                      !.rowsLeft = job[q].rowsLeft \ gone,
                                      !.wanted = job[q].wanted \ gone,
                                      !.scoresLeft = job[q].scoresLeft \ taken]
<1>1. /\ j \in Job /\ GoTo(r, "end") /\ pc' = [pc EXCEPT ![r] = "end"] /\ todo' = todo
      /\ Commits(r)
  BY DEF TypeOK, PruneCommits, GoTo, Commits
<1>2. job' = [q \in Runs |-> IF q = r THEN k ELSE other(q)]
  <2>1. \A q \in Runs : [job[q] EXCEPT !.disturbed = @ \/ At(q, "prune", pc[q]),
                                       !.rowsLeft = @ \ gone, !.wanted = @ \ gone,
                                       !.scoresLeft = @ \ taken] = other(q)
    BY DEF TypeOK, Job
  <2> HIDE DEF k
  <2> QED
    BY <2>1 DEF PruneCommits, k
<1>3. /\ k \in Job /\ SameOutside(j, k) /\ k.removed = {} /\ k.doomed = {}
      /\ k.scoresLeft = j.scoresLeft
  <2> HIDE DEF j
  <2> QED
    BY <1>1 DEF Job, SameOutside, SameUser, SameMail, SameDrain
<1> HIDE DEF k, gone, taken
<1>4. ASSUME NEW q \in Runs \ {r}
      PROVE  /\ other(q) \in Job /\ Bystander(q)
             /\ job'[q].wanted = job[q].wanted \ gone /\ (Doing(q, {"prune"}) => job'[q].disturbed)
             /\ job'[q].scoresLeft = job[q].scoresLeft \ taken
  <2> DEFINE i == job[q]
             b == i.disturbed \/ At(q, "prune", pc[q])
             x == i.wanted \ gone
             y == i.rowsLeft \ gone
             z == i.scoresLeft \ taken
             o == [i EXCEPT !.disturbed = b, !.rowsLeft = y, !.wanted = x, !.scoresLeft = z]
  <2>1. i \in Job
    BY DEF TypeOK
  <2>2. /\ b \in BOOLEAN /\ x \in SUBSET Articles /\ x \subseteq i.wanted
        /\ y \in SUBSET Articles /\ y \subseteq i.rowsLeft /\ z \in SUBSET Pair /\ z \subseteq i.scoresLeft
    BY <2>1 DEF Job
  <2>3. (i.disturbed => b) /\ (Doing(q, {"prune"}) => b)
    BY DEF Doing, At
  <2>4. job'[q] = o
    BY <1>2
  <2>5. todo'[q] = todo[q] /\ pc'[q] = pc[q]
    BY <1>1 DEF TypeOK
  <2> HIDE DEF b, x, y, z
  <2>6. /\ o \in Job /\ SameUser(i, o) /\ SameMail(i, o) /\ o.removed = i.removed /\ o.updated = i.updated
        /\ o.work = i.work /\ o.failed = i.failed /\ o.count = i.count /\ o.limited = i.limited
        /\ o.wanted = x /\ (o.disturbed <=> b) /\ o.rowsLeft = y /\ o.scoresLeft = z
        /\ o.doomed = i.doomed /\ o.oldest = i.oldest /\ o.excess = i.excess
    <3> HIDE DEF i
    <3> QED
      BY <2>1, <2>2 DEF Job, SameUser, SameMail
  <2>7. other(q) = o
    BY DEF b, x, y, z
  <2> HIDE DEF o, other
  <2> QED
    BY <2>2, <2>3, <2>4, <2>5, <2>6, <2>7 DEF Bystander, x, z
<1> HIDE DEF other
<1>5. job' \in [Runs -> Job] /\ job'[r] = k
  BY <1>2, <1>3, <1>4
<1>6. pc' \in [Runs -> Places] /\ pc'[r] = "end"
  BY <1>1, PlacesAre DEF TypeOK
<1> QED
  BY <1>1, <1>3, <1>4, <1>5, <1>6 DEF Solo, gone, taken

(* One digest.                                                             *)
LEMMA LoadArticlesStep ==
    ASSUME Shapes, NEW r \in Runs, LoadArticles(r)
    PROVE  \E letter \in SUBSET Users :
              /\ Solo(r) /\ SameHeld(job[r], job'[r]) /\ SameDrain(job[r], job'[r])
              /\ SamePrune(job[r], job'[r]) /\ pc'[r] = pc[r]
              /\ job'[r].work \subseteq job[r].work
              /\ job'[r].letters = job[r].letters \union letter
              /\ job'[r].due = job[r].due \union letter
              /\ job'[r].served = job[r].served /\ job'[r].failed = job[r].failed
<1>1. TypeOK /\ todo' = todo /\ pc' = pc /\ Doing(r, {"digest"})
  BY DEF Shapes, LoadArticles, Doing, At
<1>2. PICK item \in job[r].work : \E letter \in {{}, {item.id}} :
         job' = [job EXCEPT ![r].work = @ \ {item}, ![r].letters = @ \union letter,
                            ![r].due = @ \union letter]
  BY DEF LoadArticles
<1>3. PICK letter \in {{}, {item.id}} :
         job' = [job EXCEPT ![r].work = @ \ {item}, ![r].letters = @ \union letter,
                            ![r].due = @ \union letter]
  BY <1>2
<1>4. letter \in SUBSET Users
  BY <1>1 DEF Shapes, Fits, Doing, IdsOfWork, OfUsers
<1> DEFINE j == job[r]
           w == j.work \ {item}
           l == j.letters \union letter
           d == j.due \union letter
           k == [j EXCEPT !.work = w, !.letters = l, !.due = d]
<1>5. j \in Job
  BY <1>1 DEF TypeOK
<1>6. job' = [job EXCEPT ![r] = k]
  BY <1>1, <1>3, <1>5 DEF TypeOK, Job
<1>7. w \in SUBSET Items /\ w \subseteq j.work /\ l \in SUBSET Users /\ d \in SUBSET Users
  BY <1>4, <1>5 DEF Job
<1> HIDE DEF w, l, d
<1>8. /\ k \in Job /\ SameHeld(j, k) /\ SameDrain(j, k) /\ SamePrune(j, k)
      /\ k.work = w /\ k.letters = l /\ k.due = d /\ k.served = j.served /\ k.failed = j.failed
  <2> HIDE DEF j
  <2> QED
    BY <1>5, <1>7 DEF Job, SameHeld, SameScore, SameUser, SameDrain, SamePrune
<1> HIDE DEF k
<1>9. Solo(r) /\ job'[r] = k /\ pc'[r] = pc[r]
  BY <1>1, <1>6, <1>8, Stays
<1> QED
  BY <1>4, <1>7, <1>8, <1>9 DEF l, d

LEMMA SendDigestStep ==
    ASSUME TypeOK, NEW r \in Runs, SendDigest(r)
    PROVE  \E u \in job[r].letters :
              /\ Solo(r) /\ SameHeld(job[r], job'[r]) /\ SameDrain(job[r], job'[r])
              /\ SamePrune(job[r], job'[r]) /\ pc'[r] = pc[r]
              /\ job'[r].work = job[r].work /\ job'[r].letters = job[r].letters \ {u}
              /\ job'[r].due = job[r].due /\ job'[r].served = job[r].served \union {u}
              /\ job'[r].failed = job[r].failed
<1>1. PICK u \in job[r].letters :
         job' = [job EXCEPT ![r].letters = @ \ {u}, ![r].served = @ \union {u}]
  BY DEF SendDigest
<1> DEFINE j == job[r]
           l == j.letters \ {u}
           s == j.served \union {u}
           k == [j EXCEPT !.letters = l, !.served = s]
<1>2. j \in Job /\ todo' = todo /\ pc' = pc
  BY DEF TypeOK, SendDigest
<1>3. job' = [job EXCEPT ![r] = k]
  BY <1>1, <1>2 DEF TypeOK, Job
<1>4. l \in SUBSET Users /\ s \in SUBSET Users
  BY <1>2 DEF Job
<1> HIDE DEF l, s
<1>5. /\ k \in Job /\ SameHeld(j, k) /\ SameDrain(j, k) /\ SamePrune(j, k)
      /\ k.work = j.work /\ k.letters = l /\ k.due = j.due /\ k.served = s /\ k.failed = j.failed
  <2> HIDE DEF j
  <2> QED
    BY <1>2, <1>4 DEF Job, SameHeld, SameScore, SameUser, SameDrain, SamePrune
<1> HIDE DEF k
<1>6. Solo(r) /\ job'[r] = k /\ pc'[r] = pc[r]
  BY <1>2, <1>3, <1>5, Stays
<1> QED
  BY <1>5, <1>6 DEF l, s

LEMMA SendFailsStep ==
    ASSUME TypeOK, NEW r \in Runs, SendFails(r)
    PROVE  \E u \in job[r].letters :
              /\ Solo(r) /\ SameHeld(job[r], job'[r]) /\ SameDrain(job[r], job'[r])
              /\ SamePrune(job[r], job'[r]) /\ pc'[r] = pc[r]
              /\ job'[r].work = job[r].work /\ job'[r].letters = job[r].letters \ {u}
              /\ job'[r].due = job[r].due /\ job'[r].served = job[r].served
              /\ job'[r].failed = job[r].failed \union {u}
<1>1. PICK u \in job[r].letters :
         job' = [job EXCEPT ![r].letters = @ \ {u}, ![r].failed = @ \union {u}]
  BY DEF SendFails
<1> DEFINE j == job[r]
           l == j.letters \ {u}
           f == j.failed \union {u}
           k == [j EXCEPT !.letters = l, !.failed = f]
<1>2. j \in Job /\ todo' = todo /\ pc' = pc
  BY DEF TypeOK, SendFails
<1>3. job' = [job EXCEPT ![r] = k]
  BY <1>1, <1>2 DEF TypeOK, Job
<1>4. l \in SUBSET Users /\ f \in SUBSET (Articles \union Users)
  BY <1>2 DEF Job
<1> HIDE DEF l, f
<1>5. /\ k \in Job /\ SameHeld(j, k) /\ SameDrain(j, k) /\ SamePrune(j, k)
      /\ k.work = j.work /\ k.letters = l /\ k.due = j.due /\ k.served = j.served /\ k.failed = f
  <2> HIDE DEF j
  <2> QED
    BY <1>2, <1>4 DEF Job, SameHeld, SameScore, SameUser, SameDrain, SamePrune
<1> HIDE DEF k
<1>6. Solo(r) /\ job'[r] = k /\ pc'[r] = pc[r]
  BY <1>2, <1>3, <1>5, Stays
<1> QED
  BY <1>5, <1>6 DEF l, f
-----------------------------------------------------------------------------
(* A step of a run, whatever its command: the run proceeds, and what only  *)
(* other commands use is as it was, or it begins again.                    *)

Proceeds(r) ==
    /\ ~Doing(r, {"score-users", "prune"}) => SameScore(job[r], job'[r])
    /\ ~Doing(r, {"score-users"}) => SameUser(job[r], job'[r])
    /\ ~Doing(r, {"digest"}) => SameMail(job[r], job'[r])
    /\ ~Doing(r, {"summarize"}) => job'[r].wanted = job[r].wanted
    /\ ~Doing(r, {"prune"}) => SamePrune(job[r], job'[r])
    /\ Doing(r, IngestCommands \union Reading) => \A i \in job'[r].work : i.id \in Articles
    /\ Doing(r, OfUsers) => \A i \in job'[r].work : i.id \in Users
    /\ Doing(r, Reading) => \A i \in job'[r].work : i.text \in past[i.id]
    /\ \A i \in job'[r].updated : i.id \in Articles /\ i.text \in past[i.id]

Restarts(r) == /\ job' \in [Runs -> Job] /\ pc' \in [Runs -> Places] /\ todo' \in [Runs -> Seq(Commands)]
               /\ job'[r] = Fresh /\ pc'[r] = "start"
               /\ Steady(r) /\ \A q \in Runs \ {r} : Bystander(q)

LEMMA WorkIs ==
    ASSUME Shapes, TextsKept, NEW r \in Runs
    PROVE  /\ Doing(r, IngestCommands \union Reading) => \A i \in job[r].work : i.id \in Articles
           /\ Doing(r, OfUsers) => \A i \in job[r].work : i.id \in Users
           /\ Doing(r, Reading) => \A i \in job[r].work : i.text \in past[i.id]
           /\ \A i \in job[r].updated : i.id \in Articles /\ i.text \in past[i.id]
BY DEF Shapes, Fits, TextsKept, Owned, IdsOfWork

LEMMA IngestProceeds ==
    ASSUME Shapes, TextsKept, NEW r \in Runs, Ingest(r)
    PROVE  Solo(r) /\ Proceeds(r)
<1>1. /\ Doing(r, IngestCommands) /\ Solo(r) /\ Same(job[r], job'[r])
      /\ \A i \in job'[r].work : i.id \in Articles
  BY IngestStep DEF Solo
<1>2. ~Doing(r, Reading) /\ ~Doing(r, OfUsers)
  BY <1>1 DEF Doing, IngestCommands, Reading, OfUsers
<1> QED
  BY <1>1, <1>2, WorkIs DEF Proceeds, Same, SameHeld, SameScore, SameDrain

LEMMA SummarizeProceeds ==
    ASSUME Shapes, TextsKept, NEW r \in Runs, Summarize(r)
    PROVE  Solo(r) /\ Proceeds(r)
<1>1. TypeOK /\ Doing(r, {"summarize", "refresh"})
  BY DEF Shapes, Summarize, SelectArticles, SummarizeArticle, SummaryFails, SummaryLimited,
         BatchEnds, Summarizing, Doing
<1>2. Doing(r, Reading) /\ Doing(r, IngestCommands \union Reading) /\ ~Doing(r, OfUsers)
  BY <1>1 DEF Doing, Reading, OfUsers
<1>3. \A i \in job[r].work : i.id \in Articles /\ i.text \in past[i.id]
  BY <1>2, WorkIs
<1> DEFINE Rest == /\ Solo(r) /\ SameHeld(job[r], job'[r]) /\ SameMail(job[r], job'[r])
                   /\ SamePrune(job[r], job'[r])
                   /\ ~Doing(r, {"summarize"}) => job'[r].wanted = job[r].wanted
                   /\ \A i \in job'[r].work : i.id \in Articles /\ i.text \in past[i.id]
<1>4. ASSUME SelectArticles(r) PROVE Rest
  <2>1. Head(todo[r]) # "refresh" => Doing(r, {"summarize"})
    BY <1>1 DEF Doing
  <2>2. \A i \in job'[r].work : i.id \in IdsOfWork(r)'
    BY DEF IdsOfWork
  <2> QED
    BY <1>4, <2>1, <2>2, SelectArticlesStep
<1>5. ASSUME SummarizeArticle(r) PROVE Rest
  <2>1. PICK item \in job[r].work :
           /\ Solo(r) /\ SameHeld(job[r], job'[r]) /\ SameMail(job[r], job'[r])
           /\ SamePrune(job[r], job'[r]) /\ job'[r].wanted = job[r].wanted
           /\ job'[r].work = job[r].work \ {item}
    BY <1>1, <1>5, SummarizeArticleStep
  <2> QED
    BY <1>3, <2>1
<1>6. ASSUME SummaryFails(r) PROVE Rest
  BY <1>1, <1>3, <1>6, SummaryFailsStep DEF Same, SameDrain
<1>7. ASSUME SummaryLimited(r) PROVE Rest
  BY <1>1, <1>7, SummaryLimitedStep
<1>8. ASSUME BatchEnds(r) PROVE Rest
  <2>1. UNCHANGED job /\ \E place \in {"start", "end"} : GoTo(r, place)
    BY <1>8 DEF BatchEnds
  <2> QED
    BY <1>1, <1>3, <2>1, Passes, PlacesAre DEF SameHeld, SameScore, SameUser, SameMail, SamePrune
<1>9. Rest
  BY <1>4, <1>5, <1>6, <1>7, <1>8 DEF Summarize
<1> QED
  BY <1>2, <1>9, WorkIs DEF Proceeds, SameHeld, SameScore

LEMMA EmbedArticlesProceeds ==
    ASSUME Shapes, TextsKept, NEW r \in Runs, EmbedArticles(r)
    PROVE  Solo(r) /\ Proceeds(r)
<1>1. TypeOK /\ Doing(r, {"embed-articles"})
  BY DEF Shapes, EmbedArticles, SelectRows, EmbedTexts, EmbedLimited, UpdateRow, EmbedCommits, At, Doing
<1>2. Doing(r, Reading) /\ Doing(r, IngestCommands \union Reading) /\ ~Doing(r, OfUsers)
  BY <1>1 DEF Doing, Reading, OfUsers
<1>3. /\ \A i \in job[r].work : i.id \in Articles /\ i.text \in past[i.id]
      /\ \A i \in job[r].updated : i.id \in Articles /\ i.text \in past[i.id]
  BY <1>2, WorkIs
<1> DEFINE Rest == /\ Solo(r) /\ SameScore(job[r], job'[r]) /\ SameMail(job[r], job'[r])
                   /\ SamePrune(job[r], job'[r]) /\ job'[r].wanted = job[r].wanted
                   /\ \A i \in job'[r].work : i.id \in Articles /\ i.text \in past[i.id]
                   /\ \A i \in job'[r].updated : i.id \in Articles /\ i.text \in past[i.id]
<1>4. ASSUME SelectRows(r) PROVE Rest
  BY <1>3, <1>4, SelectRowsStep DEF SameHeld
<1>5. ASSUME EmbedTexts(r) \/ EmbedLimited(r) PROVE Rest
  <2>1. UNCHANGED job /\ \E place \in {"update", "end"} : GoTo(r, place)
    BY <1>5 DEF EmbedTexts, EmbedLimited
  <2> QED
    BY <1>1, <1>3, <2>1, Passes, PlacesAre DEF SameScore, SameUser, SameMail, SamePrune
<1>6. ASSUME UpdateRow(r) PROVE Rest
  BY <1>1, <1>3, <1>6, UpdateRowStep
<1>7. ASSUME EmbedCommits(r) PROVE Rest
  BY <1>1, <1>3, <1>7, EmbedCommitsStep
<1>8. Rest
  BY <1>4, <1>5, <1>6, <1>7 DEF EmbedArticles
<1> QED
  BY <1>1, <1>2, <1>8 DEF Proceeds, SameScore

LEMMA UsersProceed ==
    ASSUME Shapes, TextsKept, NEW r \in Runs, SeedOwner(r) \/ SyncUsers(r) \/ EmbedProfiles(r)
    PROVE  Solo(r) /\ Proceeds(r)
<1>1. TypeOK /\ Doing(r, {"seed-owner", "sync-users", "embed-profiles"})
  BY DEF Shapes, SeedOwner, SyncUsers, EmbedProfiles, FetchUsers, UpsertUsers, ReadProfiles,
         UpsertVectors, At, Doing
<1>2. ~Doing(r, Reading) /\ ~Doing(r, IngestCommands \union Reading)
  BY <1>1 DEF Doing, Reading, IngestCommands
<1>3. CASE SeedOwner(r)
  <2>1. Solo(r) /\ job'[r] = job[r]
    BY <1>1, <1>3, Passes, PlacesAre DEF SeedOwner
  <2> QED
    BY <2>1, WorkIs DEF Proceeds, SameScore, SameUser, SameMail, SamePrune
<1>4. CASE SyncUsers(r) \/ EmbedProfiles(r)
  <2>1. Solo(r) /\ Same(job[r], job'[r]) /\ \A i \in job'[r].work : i.id \in Users
    BY <1>4, UsersStep DEF SyncUsers, EmbedProfiles
  <2> QED
    BY <1>2, <2>1, WorkIs DEF Proceeds, Same, SameHeld, SameScore, SameDrain
<1> QED
  BY <1>3, <1>4

LEMMA ScoreProceeds ==
    ASSUME Shapes, TextsKept, Scores, NEW r \in Runs, ScoreUsers(r), ~InsertRefused(r)
    PROVE  Solo(r) /\ Proceeds(r)
<1>1. TypeOK /\ Doing(r, {"score-users"})
  BY DEF Shapes, ScoreUsers, ReadVectors, DeleteScores, RankArticles, InsertScore, InsertRefused,
         ScoresCommit, ScoringEnds, At, Doing
<1>2. Doing(r, OfUsers) /\ ~Doing(r, Reading) /\ ~Doing(r, IngestCommands \union Reading)
  BY <1>1 DEF Doing, Reading, IngestCommands, OfUsers
<1>3. \A i \in job[r].work : i.id \in Users
  BY <1>2, WorkIs
<1> DEFINE Rest == /\ Solo(r) /\ SameBeside(job[r], job'[r])
                   /\ \A i \in job'[r].work : i.id \in Users
<1>4. ASSUME ReadVectors(r) PROVE Rest
  BY <1>4, ReadVectorsStep DEF Same, SameHeld, SameBeside
<1>5. ASSUME DeleteScores(r) PROVE Rest
  BY <1>3, <1>5, DeleteScoresStep
<1>6. ASSUME RankArticles(r) PROVE Rest
  BY <1>3, <1>6, RankArticlesStep
<1>7. ASSUME InsertScore(r) PROVE Rest
  BY <1>1, <1>3, <1>7, InsertScoreStep
<1>8. ASSUME ScoresCommit(r) PROVE Rest
  BY <1>1, <1>3, <1>8, ScoresCommitStep
<1>9. ASSUME ScoringEnds(r) PROVE Rest
  <2>1. Solo(r) /\ job'[r] = job[r]
    BY <1>1, <1>9, Passes, PlacesAre DEF ScoringEnds
  <2> QED
    BY <1>3, <2>1 DEF SameBeside, SameMail, SameDrain, SamePrune
<1>10. Rest
  BY <1>4, <1>5, <1>6, <1>7, <1>8, <1>9 DEF ScoreUsers
<1> QED
  BY <1>1, <1>2, <1>10, WorkIs DEF Proceeds, SameBeside, SameDrain, Doing

LEMMA PruneProceeds ==
    ASSUME Shapes, TextsKept, NEW r \in Runs, Prune(r)
    PROVE  Solo(r) /\ Proceeds(r)
<1>1. TypeOK /\ Doing(r, {"prune"})
  BY DEF Shapes, Prune, PruneAged, PruneIrrelevant, DeleteRow, CountRows, ReadOldest, PruneOldest,
         PruneCommits, At, Doing
<1>2. ~Doing(r, OfUsers) /\ ~Doing(r, Reading) /\ ~Doing(r, IngestCommands \union Reading)
  BY <1>1 DEF Doing, Reading, IngestCommands, OfUsers
<1> DEFINE Rest == Solo(r) /\ SameOutside(job[r], job'[r])
<1>3. ASSUME PruneAged(r) PROVE Rest
  BY <1>1, <1>3, PruneBegins
<1>4. ASSUME PruneIrrelevant(r) \/ PruneOldest(r) PROVE Rest
  BY <1>1, <1>4, StatementStep
<1>5. ASSUME DeleteRow(r) PROVE Rest
  BY <1>1, <1>5, DeleteRowStep
<1>6. ASSUME CountRows(r) PROVE Rest
  BY <1>1, <1>6, CountRowsStep
<1>7. ASSUME ReadOldest(r) PROVE Rest
  BY <1>1, <1>7, ReadOldestStep
<1>8. ASSUME PruneCommits(r) PROVE Rest
  BY <1>1, <1>8, PruneCommitsStep
<1>9. Rest
  BY <1>3, <1>4, <1>5, <1>6, <1>7, <1>8 DEF Prune
<1> QED
  BY <1>1, <1>2, <1>9, WorkIs DEF Proceeds, SameOutside, SameDrain, Doing

LEMMA DeletingProceeds ==
    ASSUME Shapes, TextsKept, NEW r \in Runs, DeleteScoreRow(r)
    PROVE  Solo(r) /\ Proceeds(r)
<1>1. TypeOK /\ Doing(r, {"score-users", "prune"})
  BY DEF Shapes, DeleteScoreRow, Doing
<1>2. /\ Solo(r) /\ SameBeside(job[r], job'[r]) /\ SameUser(job[r], job'[r]) /\ job'[r].work = job[r].work
  BY <1>1, DeleteScoreRowStep
<1> QED
  BY <1>1, <1>2, WorkIs DEF Proceeds, SameBeside, SameDrain

LEMMA DigestProceeds ==
    ASSUME Shapes, TextsKept, NEW r \in Runs, Digest(r)
    PROVE  Solo(r) /\ Proceeds(r)
<1>1. TypeOK /\ Doing(r, {"digest"})
  BY DEF Shapes, Digest, LoadUsers, LoadArticles, Loaded, SendDigest, SendFails, DigestEnds, At, Doing
<1>2. Doing(r, OfUsers) /\ ~Doing(r, Reading) /\ ~Doing(r, IngestCommands \union Reading)
  BY <1>1 DEF Doing, Reading, IngestCommands, OfUsers
<1>3. \A i \in job[r].work : i.id \in Users
  BY <1>2, WorkIs
<1> DEFINE Rest == /\ Solo(r) /\ SameHeld(job[r], job'[r]) /\ SameDrain(job[r], job'[r])
                   /\ SamePrune(job[r], job'[r])
                   /\ \A i \in job'[r].work : i.id \in Users
<1>4. ASSUME LoadUsers(r) PROVE Rest
  BY <1>4, UsersStep DEF Same
<1>5. ASSUME LoadArticles(r) PROVE Rest
  BY <1>3, <1>5, LoadArticlesStep
<1>6. ASSUME SendDigest(r) PROVE Rest
  BY <1>1, <1>3, <1>6, SendDigestStep
<1>7. ASSUME SendFails(r) PROVE Rest
  BY <1>1, <1>3, <1>7, SendFailsStep
<1>8. ASSUME Loaded(r) \/ DigestEnds(r) PROVE Rest
  <2>1. UNCHANGED job /\ \E place \in {"send", "end"} : GoTo(r, place)
    BY <1>8 DEF Loaded, DigestEnds
  <2> QED
    BY <1>1, <1>3, <2>1, Passes, PlacesAre DEF SameHeld, SameScore, SameUser, SameDrain, SamePrune
<1>9. Rest
  BY <1>4, <1>5, <1>6, <1>7, <1>8 DEF Digest
<1> QED
  BY <1>1, <1>2, <1>9, WorkIs DEF Proceeds, SameHeld, SameScore, SameDrain, Doing

Begins(r) == NextCommand(r) \/ Abort(r) \/ InsertRefused(r) \/ Deadlock(r)

LEMMA RunRestarts ==
    ASSUME Shapes, NEW r \in Runs, Begins(r)
    PROVE  Restarts(r)
<1>1. /\ TypeOK /\ pc' = [pc EXCEPT ![r] = "start"] /\ job' = [job EXCEPT ![r] = Fresh]
      /\ \E rest \in {Tail(todo[r]), <<>>} : todo' = [todo EXCEPT ![r] = rest]
  BY DEF Shapes, Begins, NextCommand, Abort, InsertRefused, Deadlock, RunFails, TypeOK
<1>2. <<>> \in Seq(Commands)
  BY EmptySeq
<1>3. todo' = [todo EXCEPT ![r] = <<>>] \/ Tail(todo[r]) \in Seq(Commands)
  <2>1. CASE NextCommand(r)
    BY <1>1, <2>1, HeadTailProperties DEF TypeOK, NextCommand
  <2>2. CASE Abort(r) \/ InsertRefused(r) \/ Deadlock(r)
    BY <2>2 DEF Abort, InsertRefused, Deadlock, RunFails
  <2> QED
    BY <2>1, <2>2 DEF Begins
<1>4. todo' \in [Runs -> Seq(Commands)] /\ \A q \in Runs \ {r} : todo'[q] = todo[q]
  BY <1>1, <1>2, <1>3 DEF TypeOK
<1>5. /\ job' \in [Runs -> Job] /\ pc' \in [Runs -> Places] /\ job'[r] = Fresh /\ pc'[r] = "start"
      /\ \A q \in Runs \ {r} : job'[q] = job[q] /\ pc'[q] = pc[q]
  BY <1>1, FreshJob, PlacesAre DEF TypeOK
<1> QED
  BY <1>4, <1>5 DEF Restarts, Bystander, Steady, SameUser, SameMail

LEMMA RunSteps ==
    ASSUME Shapes, TextsKept, Scores, NEW r \in Runs, Command(r) \/ Abort(r)
    PROVE  \/ Restarts(r) /\ Begins(r)
           \/ Solo(r) /\ Proceeds(r)
<1>1. CASE Begins(r)
  BY <1>1, RunRestarts
<1>2. CASE ~Begins(r)
  BY <1>2, IngestProceeds, SummarizeProceeds, EmbedArticlesProceeds, UsersProceed, ScoreProceeds,
     PruneProceeds, DeletingProceeds, DigestProceeds DEF Command, Begins
<1> QED
  BY <1>1, <1>2
-----------------------------------------------------------------------------
(* What the steps make of the tables.                                      *)

LEMMA Frame ==
    ASSUME NEW r \in Runs, Command(r) \/ Abort(r)
    PROVE  /\ UNCHANGED outside
           /\ faults' = faults \/ (faults < MaxFaults /\ faults' = faults + 1)
           /\ UNCHANGED <<rows, past>> \/ WriteArticle(r) \/ SummarizeArticle(r) \/ EmbedCommits(r) \/ PruneCommits(r)
           /\ UNCHANGED profile \/ SeedOwner(r) \/ UpsertUsers(r)
           /\ UNCHANGED vector \/ UpsertVectors(r)
           /\ UNCHANGED score \/ ScoresCommit(r) \/ PruneCommits(r)
           /\ UNCHANGED mixed \/ DeleteScores(r)
<1> USE DEF outside, tables
<1>1. CASE Ingest(r)
  BY <1>1 DEF Ingest, Scrape, ScrapeFails, WriteArticle, NextSource, IngestEnds, Fault
<1>2. CASE Summarize(r)
  BY <1>2 DEF Summarize, SelectArticles, SummarizeArticle, SummaryFails, SummaryLimited, BatchEnds, Fault
<1>3. CASE EmbedArticles(r)
  BY <1>3 DEF EmbedArticles, SelectRows, EmbedTexts, EmbedLimited, UpdateRow, EmbedCommits, Fault
<1>4. CASE SeedOwner(r) \/ SyncUsers(r) \/ EmbedProfiles(r)
  BY <1>4 DEF SeedOwner, SyncUsers, EmbedProfiles, FetchUsers, UpsertUsers, ReadProfiles, UpsertVectors
<1>5. CASE ScoreUsers(r)
  BY <1>5 DEF ScoreUsers, ReadVectors, DeleteScores, RankArticles, InsertScore, InsertRefused, RunFails,
              ScoresCommit, ScoringEnds
<1>6. CASE Prune(r)
  BY <1>6 DEF Prune, PruneAged, PruneIrrelevant, DeleteRow, CountRows, ReadOldest, PruneOldest, PruneCommits
<1>7. CASE Digest(r)
  BY <1>7 DEF Digest, LoadUsers, LoadArticles, Loaded, SendDigest, SendFails, DigestEnds, Fault
<1>8. CASE NextCommand(r) \/ Abort(r) \/ Deadlock(r) \/ DeleteScoreRow(r)
  BY <1>8 DEF NextCommand, Abort, Deadlock, RunFails, DeleteScoreRow, Fault
<1> QED
  BY <1>1, <1>2, <1>3, <1>4, <1>5, <1>6, <1>7, <1>8 DEF Command

(* A row after a step: its type, and whose text is in it.                  *)
RowFine(a) ==
    /\ rows'[a] \in Row \union {None} /\ past'[a] \subseteq Texts(a) /\ past[a] \subseteq past'[a]
    /\ rows'[a] # None =>
          /\ rows'[a].text \in past'[a]
          /\ rows'[a].summary # None => rows'[a].summary \in past'[a]
          /\ rows'[a].embedding # None => rows'[a].embedding \in past'[a]
(* A summary is not taken away, nor a date changed.                        *)
Older(a) == rows[a] # None /\ rows'[a] # None /\ rows'[a].summary = None => rows[a].summary = None
Aging(a) == (rows'[a] = None <=> rows[a] = None) /\ (rows[a] # None => rows'[a].at = rows[a].at)
RowSteps == /\ DOMAIN rows' = Articles /\ rows' = [a \in Articles |-> rows'[a]]
            /\ DOMAIN past' = Articles /\ past' = [a \in Articles |-> past'[a]]
            /\ \A a \in Articles : RowFine(a) /\ Older(a)

LEMMA RowNow ==
    ASSUME TypeOK, MadeFromItsOwnText, NEW a \in Articles
    PROVE  /\ rows[a] \in Row \union {None} /\ past[a] \subseteq Texts(a)
           /\ rows[a] # None =>
                 /\ rows[a] \in Row /\ rows[a].text \in past[a]
                 /\ rows[a].summary # None => rows[a].summary \in past[a]
                 /\ rows[a].embedding # None => rows[a].embedding \in past[a]
           /\ None \notin Row /\ None \notin Text
BY NoneAssumption DEF TypeOK, MadeFromItsOwnText, Stored

LEMMA RowKept ==
    ASSUME TypeOK, MadeFromItsOwnText, NEW a \in Articles, rows'[a] = rows[a], past'[a] = past[a]
    PROVE  RowFine(a) /\ Older(a) /\ Aging(a)
BY RowNow DEF RowFine, Older, Aging

LEMMA RowsWritten ==
    ASSUME Shapes, TextsKept, NEW r \in Runs, WriteArticle(r)
    PROVE  /\ RowSteps /\ \A a \in Articles : rows[a] # None => rows'[a] # None
           /\ \A a \in Articles : rows[a] = None /\ rows'[a] # None => rows'[a].at = today
<1>1. TypeOK /\ MadeFromItsOwnText /\ Doing(r, IngestCommands)
  BY DEF Shapes, TextsKept, WriteArticle, Ingesting, Doing
<1>2. PICK item \in job[r].work :
         \/ UNCHANGED <<rows, past>>
         \/ /\ rows' = [rows EXCEPT ![item.id] = Upserted(item.id, item.text)]
            /\ past' = [past EXCEPT ![item.id] = @ \union {item.text}]
  BY DEF WriteArticle
<1> DEFINE i == item.id
           t == item.text
           new == Upserted(i, t)
<1>3. i \in Articles /\ t \in Texts(i) /\ t \in Text
  <2>1. item \in Items /\ i \in Articles
    BY <1>1 DEF TypeOK, Job, Shapes, Fits, Doing, IdsOfWork
  <2> QED
    BY <2>1 DEF Items, Texts, Text
<1>4. CASE UNCHANGED <<rows, past>>
  BY <1>1, <1>4, RowKept DEF RowSteps, TypeOK, Aging
<1>5. CASE /\ rows' = [rows EXCEPT ![i] = new]
           /\ past' = [past EXCEPT ![i] = @ \union {t}]
  <2>1. /\ new.text = t /\ new.at = today
        /\ new.summary = (IF rows[i] = None THEN None ELSE rows[i].summary)
        /\ new.embedding = (IF rows[i] = None THEN None ELSE rows[i].embedding)
    BY DEF Upserted
  <2>2. new \in Row
    <3>1. rows[i] # None => rows[i].summary \in Text \union {None} /\ rows[i].embedding \in Text \union {None}
      BY <1>1, <1>3, RowNow DEF Row
    <3>2. today \in 0 .. MaxDays
      BY <1>1 DEF TypeOK
    <3> QED
      BY <1>3, <3>1, <3>2 DEF Upserted, Row
  <2> HIDE DEF new, i, t
  <2>3. rows'[i] = new /\ past'[i] = past[i] \union {t}
    BY <1>1, <1>3, <1>5 DEF TypeOK
  <2>4. RowFine(i) /\ Older(i)
    <3>1. rows'[i] # None
      BY <1>1, <1>3, <2>2, <2>3, RowNow
    <3>2. RowFine(i)
      BY <1>1, <1>3, <2>1, <2>2, <2>3, RowNow DEF RowFine
    <3>3. Older(i)
      BY <2>1, <2>3 DEF Older
    <3> QED
      BY <3>2, <3>3
  <2>5. \A a \in Articles \ {i} : rows'[a] = rows[a] /\ past'[a] = past[a]
    BY <1>1, <1>5 DEF TypeOK
  <2>6. /\ DOMAIN rows' = Articles /\ rows' = [a \in Articles |-> rows'[a]]
        /\ DOMAIN past' = Articles /\ past' = [a \in Articles |-> past'[a]]
    BY <1>1, <1>3, <1>5 DEF TypeOK
  <2>7. RowSteps
    BY <1>1, <2>4, <2>5, <2>6, RowKept DEF RowSteps
  <2>8. new # None
    BY <1>1, <1>3, <2>2, RowNow
  <2> QED
    BY <2>1, <2>3, <2>5, <2>7, <2>8
<1> QED
  BY <1>2, <1>4, <1>5
LEMMA RowsSummarized ==
    ASSUME Shapes, TextsKept, NEW r \in Runs, SummarizeArticle(r)
    PROVE  RowSteps /\ \A a \in Articles : Aging(a)
<1>1. TypeOK /\ MadeFromItsOwnText /\ UNCHANGED past /\ Doing(r, Reading)
  BY DEF Shapes, TextsKept, SummarizeArticle, Summarizing, Doing, Reading
<1>2. PICK item \in job[r].work :
         rows' = IF rows[item.id] = None THEN rows ELSE [rows EXCEPT ![item.id].summary = item.text]
  BY <1>1, SummarizeArticleStep
<1> DEFINE i == item.id
           t == item.text
           new == [rows[i] EXCEPT !.summary = t]
<1>3. i \in Articles /\ t \in past[i] /\ t \in Text /\ t # None
  <2>1. i \in Articles /\ t \in past[i]
    BY <1>1, WorkIs DEF Doing
  <2>2. past[i] \subseteq Text /\ None \notin Text
    BY <1>1, <2>1, NoneAssumption DEF TypeOK
  <2> QED
    BY <2>1, <2>2
<1>4. CASE rows[i] = None
  BY <1>1, <1>2, <1>4, RowKept DEF RowSteps, TypeOK
<1>5. CASE rows[i] # None
  <2>1. rows[i] \in Row /\ None \notin Row
    BY <1>1, <1>3, <1>5, RowNow
  <2>2. rows' = [rows EXCEPT ![i] = new]
    BY <1>1, <1>2, <1>3, <1>5 DEF TypeOK
  <2>3. /\ new \in Row /\ new.summary = t /\ new.text = rows[i].text /\ new.at = rows[i].at
        /\ new.embedding = rows[i].embedding
    BY <1>3, <2>1 DEF Row
  <2> HIDE DEF new, i, t
  <2>4. rows'[i] = new /\ past'[i] = past[i]
    BY <1>1, <1>3, <2>2 DEF TypeOK
  <2>5. RowFine(i) /\ Older(i) /\ Aging(i)
    <3>1. RowFine(i)
      BY <1>1, <1>3, <1>5, <2>1, <2>3, <2>4, RowNow DEF RowFine
    <3>2. Older(i) /\ Aging(i)
      BY <1>3, <1>5, <2>1, <2>3, <2>4 DEF Older, Aging
    <3> QED
      BY <3>1, <3>2
  <2>6. \A a \in Articles \ {i} : rows'[a] = rows[a] /\ past'[a] = past[a]
    BY <1>1, <2>2 DEF TypeOK
  <2>7. /\ DOMAIN rows' = Articles /\ rows' = [a \in Articles |-> rows'[a]]
        /\ DOMAIN past' = Articles /\ past' = [a \in Articles |-> past'[a]]
    BY <1>1, <1>3, <2>2 DEF TypeOK
  <2> QED
    BY <1>1, <2>5, <2>6, <2>7, RowKept DEF RowSteps
<1> QED
  BY <1>4, <1>5

LEMMA RowsEmbedded ==
    ASSUME Shapes, TextsKept, NEW r \in Runs, EmbedCommits(r)
    PROVE  RowSteps /\ \A a \in Articles : Aging(a)
<1> DEFINE asked(a) == \E item \in job[r].updated : item.id = a
           t(a) == (CHOOSE item \in job[r].updated : item.id = a).text
<1>1. /\ TypeOK /\ MadeFromItsOwnText /\ UNCHANGED past
      /\ rows' = [a \in Articles |->
                     IF rows[a] # None /\ asked(a) THEN [rows[a] EXCEPT !.embedding = t(a)] ELSE rows[a]]
  BY DEF Shapes, TextsKept, EmbedCommits
<1>2. ASSUME NEW a \in Articles PROVE RowFine(a) /\ Older(a) /\ Aging(a)
  <2>1. CASE rows[a] # None /\ asked(a)
    <3>1. t(a) \in past[a]
      BY <1>1, <2>1, WorkIs
    <3> DEFINE new == [rows[a] EXCEPT !.embedding = t(a)]
    <3>2. rows'[a] = new
      BY <1>1, <2>1
    <3>3. rows[a] \in Row /\ None \notin Row /\ t(a) \in Text
      BY <1>1, <2>1, <3>1, RowNow DEF TypeOK
    <3> HIDE DEF t
    <3>4. /\ new \in Row /\ new.embedding = t(a) /\ new.text = rows[a].text /\ new.at = rows[a].at
          /\ new.summary = rows[a].summary
      BY <3>3 DEF Row
    <3> HIDE DEF new
    <3>5. RowFine(a)
      BY <1>1, <2>1, <3>1, <3>2, <3>4, RowNow DEF RowFine
    <3>6. Older(a) /\ Aging(a)
      BY <2>1, <3>2, <3>3, <3>4 DEF Older, Aging
    <3> QED
      BY <3>5, <3>6
  <2>2. CASE ~(rows[a] # None /\ asked(a))
    <3>1. rows'[a] = rows[a] /\ past'[a] = past[a]
      BY <1>1, <2>2
    <3> QED
      BY <1>1, <3>1, RowKept
  <2> QED
    BY <2>1, <2>2
<1>3. /\ DOMAIN rows' = Articles /\ rows' = [a \in Articles |-> rows'[a]]
      /\ DOMAIN past' = Articles /\ past' = [a \in Articles |-> past'[a]]
  <2>1. DOMAIN past' = Articles /\ past' = [a \in Articles |-> past'[a]]
    BY <1>1 DEF TypeOK
  <2> HIDE DEF asked, t
  <2>2. DOMAIN rows' = Articles /\ rows' = [a \in Articles |-> rows'[a]]
    BY <1>1
  <2> QED
    BY <2>1, <2>2
<1> QED
  BY <1>2, <1>3 DEF RowSteps

LEMMA RowsPruned ==
    ASSUME Shapes, TextsKept, NEW r \in Runs, PruneCommits(r)
    PROVE  /\ RowSteps
           /\ \A a \in Articles : IF a \in job[r].doomed
                                  THEN rows'[a] = None ELSE rows'[a] = rows[a]
<1> DEFINE gone == job[r].doomed
<1>1. /\ TypeOK /\ MadeFromItsOwnText /\ UNCHANGED past
      /\ rows' = [a \in Articles |-> IF a \in gone THEN None ELSE rows[a]]
  BY DEF Shapes, TextsKept, PruneCommits
<1> HIDE DEF gone
<1>2. ASSUME NEW a \in Articles PROVE RowFine(a) /\ Older(a)
  <2>1. CASE a \in gone
    <3>1. rows'[a] = None /\ past'[a] = past[a]
      BY <1>1, <2>1
    <3> QED
      BY <1>1, <3>1, RowNow DEF RowFine, Older
  <2>2. CASE a \notin gone
    <3>1. rows'[a] = rows[a] /\ past'[a] = past[a]
      BY <1>1, <2>2
    <3> QED
      BY <1>1, <3>1, RowKept
  <2> QED
    BY <2>1, <2>2
<1>3. /\ DOMAIN rows' = Articles /\ rows' = [a \in Articles |-> rows'[a]]
      /\ DOMAIN past' = Articles /\ past' = [a \in Articles |-> past'[a]]
  BY <1>1 DEF TypeOK
<1> QED
  BY <1>1, <1>2, <1>3 DEF RowSteps, gone

LEMMA RowsStep ==
    ASSUME Shapes, TextsKept, NEW r \in Runs, Command(r) \/ Abort(r)
    PROVE  /\ RowSteps
           /\ PruneCommits(r) \/ \A a \in Articles : rows[a] # None => rows'[a] # None
           /\ WriteArticle(r) \/ PruneCommits(r) \/ \A a \in Articles : Aging(a)
<1>1. CASE UNCHANGED <<rows, past>>
  BY <1>1, RowKept DEF RowSteps, TypeOK, Shapes, TextsKept, Aging
<1>2. CASE WriteArticle(r)
  BY <1>2, RowsWritten
<1>3. CASE SummarizeArticle(r)
  BY <1>3, RowsSummarized DEF Aging
<1>4. CASE EmbedCommits(r)
  BY <1>4, RowsEmbedded DEF Aging
<1>5. CASE PruneCommits(r)
  BY <1>5, RowsPruned
<1> QED
  BY <1>1, <1>2, <1>3, <1>4, <1>5, Frame
LEMMA TextOfItems ==
    ASSUME NEW items \in SUBSET Items, NEW u, NEW default
    PROVE  TextOf(items, u, default) = default \/ TextOf(items, u, default) \in Texts(u)
<1>1. CASE \E item \in items : item.id = u
  <2> DEFINE it == CHOOSE item \in items : item.id = u
  <2>1. it \in items /\ it.id = u
    BY <1>1
  <2> HIDE DEF it
  <2>2. it.text \in Texts(u)
    BY <2>1 DEF Items
  <2> QED
    BY <1>1, <2>2 DEF TextOf, it
<1>2. CASE ~\E item \in items : item.id = u
  BY <1>2 DEF TextOf
<1> QED
  BY <1>1, <1>2

LEMMA UserTexts ==
    ASSUME NEW u \in Users
    PROVE  Texts(u) \subseteq Text /\ None \notin Text /\ <<u, 0>> \in Texts(u)
BY NoneAssumption, LimitsAssumption DEF Texts, Text

LEMMA ProfilesStep ==
    ASSUME TypeOK, NEW r \in Runs, Command(r) \/ Abort(r)
    PROVE  /\ profile' \in [Users -> Text \union {None}]
           /\ \A u \in Users : profile'[u] # None => profile'[u] \in Texts(u)
<1>1. CASE UNCHANGED profile
  BY <1>1 DEF TypeOK
<1>2. CASE SeedOwner(r)
  <2>1. profile' = [profile EXCEPT ![Owner] = <<Owner, 0>>] /\ Owner \in Users
    BY <1>2 DEF SeedOwner, Users
  <2>2. <<Owner, 0>> \in Text /\ <<Owner, 0>> \in Texts(Owner)
    BY <2>1, UserTexts
  <2> QED
    BY <2>1, <2>2 DEF TypeOK
<1>3. CASE UpsertUsers(r)
  <2>1. profile' = [u \in Users |-> TextOf(job[r].work, u, profile[u])] /\ job[r].work \in SUBSET Items
    BY <1>3 DEF UpsertUsers, TypeOK, Job
  <2>2. ASSUME NEW u \in Users
        PROVE  LET t == TextOf(job[r].work, u, profile[u])
               IN  t \in Text \union {None} /\ (t # None => t \in Texts(u))
    <3>1. profile[u] \in Text \union {None} /\ (profile[u] # None => profile[u] \in Texts(u))
      BY DEF TypeOK
    <3>2. \/ TextOf(job[r].work, u, profile[u]) = profile[u]
          \/ TextOf(job[r].work, u, profile[u]) \in Texts(u)
      BY <2>1, TextOfItems
    <3> QED
      BY <3>1, <3>2, UserTexts
  <2> QED
    BY <2>1, <2>2
<1> QED
  BY <1>1, <1>2, <1>3, Frame

LEMMA VectorsStep ==
    ASSUME TypeOK, MadeFromItsOwnText, NEW r \in Runs, Command(r) \/ Abort(r)
    PROVE  /\ vector' \in [Users -> Vector \union {None}]
           /\ \A u \in Users : vector'[u] # None => /\ vector'[u].of \in Texts(u)
                                                    /\ vector'[u].of = vector'[u].source_hash
<1>1. CASE UNCHANGED vector
  BY <1>1 DEF TypeOK, MadeFromItsOwnText
<1>2. CASE UpsertVectors(r)
  <2> DEFINE t(u) == TextOf(job[r].work, u, None)
             v(u) == IF t(u) = None THEN vector[u] ELSE [of |-> t(u), source_hash |-> t(u)]
  <2>1. vector' = [u \in Users |-> v(u)] /\ job[r].work \in SUBSET Items
    BY <1>2 DEF UpsertVectors, TypeOK, Job
  <2>2. ASSUME NEW u \in Users
        PROVE  v(u) \in Vector \union {None} /\ (v(u) # None => v(u).of \in Texts(u) /\ v(u).of = v(u).source_hash)
    <3>1. t(u) # None => t(u) \in Texts(u) /\ t(u) \in Text
      BY <2>1, TextOfItems, UserTexts
    <3> HIDE DEF t
    <3> QED
      BY <3>1 DEF TypeOK, MadeFromItsOwnText, Vector
  <2> HIDE DEF v
  <2> QED
    BY <2>1, <2>2
<1> QED
  BY <1>1, <1>2, Frame

LEMMA PairsStep ==
    ASSUME TypeOK, Shapes, NEW r \in Runs, Command(r) \/ Abort(r)
    PROVE  score' \subseteq Pair /\ mixed' \subseteq Users
<1>1. score' \subseteq Pair
  <2>1. ScoresCommit(r) \/ PruneCommits(r) => score' \subseteq score \union job[r].written
    BY DEF ScoresCommit, PruneCommits, InHand
  <2>2. score \subseteq Pair /\ job[r].written \subseteq Pair
    BY DEF TypeOK, Job
  <2> QED
    BY <2>1, <2>2, Frame
<1>2. mixed' \subseteq Users
  <2>1. CASE DeleteScores(r)
    <3>1. PICK item \in job[r].work : item.id \in Users /\ mixed' \subseteq mixed \union {item.id}
      BY <2>1, DeleteScoresStep
    <3> QED
      BY <3>1 DEF TypeOK
  <2>2. CASE UNCHANGED mixed
    BY <2>2 DEF TypeOK
  <2> QED
    BY <2>1, <2>2, Frame
<1> QED
  BY <1>1, <1>2

(* The types of the tables after a step.                                   *)
LEMMA TablesTyped ==
    ASSUME Shapes, TextsKept, NEW r \in Runs, Command(r) \/ Abort(r)
    PROVE  /\ today' \in 0..MaxDays /\ edits' \in 0..MaxEdits /\ faults' \in 0..MaxFaults
           /\ source' \in [Articles -> 0..MaxEdits] /\ app' \in [Subscribers -> (0..MaxEdits) \union {None}]
           /\ rows' \in [Articles -> Row \union {None}] /\ vector' \in [Users -> Vector \union {None}]
           /\ profile' \in [Users -> Text \union {None}] /\ past' \in [Articles -> SUBSET Text]
           /\ \A a \in Articles : past'[a] \subseteq Texts(a)
           /\ \A u \in Users : /\ profile'[u] # None => profile'[u] \in Texts(u)
                               /\ vector'[u] # None => vector'[u].of \in Texts(u)
           /\ score' \subseteq Pair /\ mixed' \subseteq Users
           /\ Versions'
<1>1. TypeOK /\ MadeFromItsOwnText /\ Versions
  BY DEF Shapes, TextsKept
<1>2. UNCHANGED outside /\ (faults' = faults \/ (faults < MaxFaults /\ faults' = faults + 1))
  BY Frame
<1>3. /\ today' \in 0..MaxDays /\ edits' \in 0..MaxEdits
      /\ source' \in [Articles -> 0..MaxEdits] /\ app' \in [Subscribers -> (0..MaxEdits) \union {None}]
  BY <1>1, <1>2 DEF TypeOK, outside
<1>4. faults' \in 0..MaxFaults
  BY <1>1, <1>2, LimitsAssumption DEF TypeOK
<1>5. Versions'
  BY <1>1, <1>2 DEF Versions, outside
<1>6. rows' \in [Articles -> Row \union {None}] /\ past' \in [Articles -> SUBSET Text]
      /\ \A a \in Articles : past'[a] \subseteq Texts(a)
  <2>1. RowSteps /\ \A a \in Articles : Texts(a) \subseteq Text
    BY RowsStep DEF Texts, Text
  <2>2. rows' \in [Articles -> Row \union {None}]
    BY <2>1 DEF RowSteps, RowFine
  <2>3. past' \in [Articles -> SUBSET Text]
    BY <2>1 DEF RowSteps, RowFine
  <2> QED
    BY <2>1, <2>2, <2>3 DEF RowSteps, RowFine
<1>7. /\ vector' \in [Users -> Vector \union {None}] /\ profile' \in [Users -> Text \union {None}]
      /\ \A u \in Users : /\ profile'[u] # None => profile'[u] \in Texts(u)
                          /\ vector'[u] # None => vector'[u].of \in Texts(u)
  BY <1>1, ProfilesStep, VectorsStep
<1>8. score' \subseteq Pair /\ mixed' \subseteq Users
  BY <1>1, PairsStep
<1> QED
  BY <1>3, <1>4, <1>5, <1>6, <1>7, <1>8
-----------------------------------------------------------------------------
(* Types and texts, step by step.                                          *)

LEMMA BystanderFits ==
    ASSUME TextsKept, NEW q \in Runs, Fits(q), todo'[q] = todo[q], job'[q].work = job[q].work,
           job'[q].updated = job[q].updated,
           \A a \in Articles : past[a] \subseteq past'[a]
    PROVE  Fits(q)' /\ Owned(q)'
<1>1. Doing(q, Reading) => \A i \in job[q].work : i.id \in Articles
  BY DEF Fits, Doing, IdsOfWork
<1>2. Fits(q)'
  BY DEF Fits, Doing, IdsOfWork
<1>3. Owned(q)'
  BY <1>1 DEF TextsKept, Owned, Doing
<1> QED
  BY <1>2, <1>3

LEMMA ShapesNext ==
    ASSUME Shapes, TextsKept, Scores, NEW r \in Runs, Command(r) \/ Abort(r)
    PROVE  Shapes' /\ TextsKept'
<1>1. RowSteps /\ \A a \in Articles : past[a] \subseteq past'[a]
  BY RowsStep DEF RowSteps, RowFine
<1>2. \A u \in Users : vector'[u] # None => vector'[u].of = vector'[u].source_hash
  BY VectorsStep DEF Shapes, TextsKept
<1>3. MadeFromItsOwnText'
  BY <1>1, <1>2 DEF MadeFromItsOwnText, RowSteps, RowFine, Stored
<1>4. CASE Restarts(r)
  <2>1. Fits(r)' /\ Owned(r)'
    <3>1. job'[r].work = {} /\ job'[r].updated = {}
      BY <1>4 DEF Restarts, Fresh
    <3> QED
      BY <3>1 DEF Fits, Owned, IdsOfWork
  <2>2. ASSUME NEW q \in Runs \ {r} PROVE Fits(q)' /\ Owned(q)'
    BY <1>1, <1>4, BystanderFits DEF Restarts, Bystander, Shapes
  <2>3. TypeOK'
    BY <1>4, TablesTyped DEF TypeOK, Restarts
  <2> QED
    BY <1>3, <2>1, <2>2, <2>3, TablesTyped DEF Shapes, TextsKept
<1>5. CASE Solo(r) /\ Proceeds(r)
  <2>1. Fits(r)' /\ Owned(r)'
    <3>1. todo' = todo
      BY <1>5 DEF Solo
    <3>2. Fits(r)'
      BY <1>5, <3>1 DEF Proceeds, Fits, Doing, IdsOfWork
    <3>3. Owned(r)'
      BY <1>1, <1>5, <3>1 DEF Proceeds, Owned, Doing
    <3> QED
      BY <3>2, <3>3
  <2>2. ASSUME NEW q \in Runs \ {r} PROVE Fits(q)' /\ Owned(q)'
    BY <1>1, <1>5, BystanderFits DEF Solo, Bystander, Shapes
  <2>3. TypeOK'
    BY <1>5, TablesTyped DEF TypeOK, Solo, Shapes
  <2> QED
    BY <1>3, <2>1, <2>2, <2>3, TablesTyped DEF Shapes, TextsKept
<1> QED
  BY <1>4, <1>5, RunSteps

(* The world outside.                                                      *)
LEMMA WorldKeeps ==
    ASSUME NewDay \/ Edit
    PROVE  UNCHANGED <<rows, profile, vector, score, todo, pc, job, past, mixed, faults>>
BY DEF NewDay, Edit, tables

LEMMA WorldShapes ==
    ASSUME Shapes, TextsKept, NewDay \/ Edit
    PROVE  Shapes' /\ TextsKept'
<1>1. UNCHANGED <<rows, profile, vector, score, todo, pc, job, past, mixed, faults>>
  BY WorldKeeps
<1>2. today' \in 0..MaxDays /\ edits' \in 0..MaxEdits
  <2>1. today \in 0..MaxDays /\ edits \in 0..MaxEdits /\ MaxDays \in Nat /\ MaxEdits \in Nat
    BY LimitsAssumption DEF Shapes, TypeOK
  <2>2. CASE NewDay
    BY <2>1, <2>2 DEF NewDay
  <2>3. CASE Edit
    BY <2>1, <2>3 DEF Edit
  <2> QED
    BY <2>2, <2>3
<1> DEFINE Moved == /\ source' \in [Articles -> 0..MaxEdits]
                    /\ app' \in [Subscribers -> (0..MaxEdits) \union {None}] /\ Versions'
<1>3. Moved
  <2>1. CASE NewDay
    BY <2>1 DEF NewDay, Shapes, TypeOK, Versions
  <2>2. ASSUME edits < MaxEdits, edits' = edits + 1, UNCHANGED app,
               NEW a \in Articles, source' = [source EXCEPT ![a] = @ + 1]
        PROVE  Moved
    <3>1. edits \in Nat /\ MaxEdits \in Nat /\ edits' \in 0..MaxEdits
      BY <2>2, LimitsAssumption DEF Shapes, TypeOK
    <3>2. source[a] \in 0..edits
      BY DEF Shapes, TypeOK, Versions
    <3>3. source[a] + 1 \in 0..MaxEdits /\ source[a] + 1 <= edits'
      BY <2>2, <3>1, <3>2
    <3>4. source' \in [Articles -> 0..MaxEdits]
      BY <2>2, <3>3 DEF Shapes, TypeOK
    <3>5. \A b \in Articles : source'[b] <= edits'
      BY <2>2, <3>1, <3>3 DEF Shapes, TypeOK, Versions
    <3>6. \A u \in Subscribers : app[u] # None => app[u] <= edits'
      BY <2>2, <3>1, NoneAssumption DEF Shapes, TypeOK, Versions
    <3> QED
      BY <2>2, <3>4, <3>5, <3>6 DEF Shapes, TypeOK, Versions
  <2>3. ASSUME edits < MaxEdits, edits' = edits + 1, UNCHANGED source,
               NEW u \in Subscribers, NEW p \in {app[u] + 1, None}, app[u] # None,
               app' = [app EXCEPT ![u] = p]
        PROVE  Moved
    <3>1. edits \in Nat /\ MaxEdits \in Nat /\ edits' \in 0..MaxEdits
      BY <2>3, LimitsAssumption DEF Shapes, TypeOK
    <3>2. app[u] \in 0..edits
      BY <2>3 DEF Shapes, TypeOK, Versions
    <3>3. p \in (0..MaxEdits) \union {None} /\ (p # None => p <= edits')
      BY <2>3, <3>1, <3>2
    <3>4. app' \in [Subscribers -> (0..MaxEdits) \union {None}]
      BY <2>3, <3>3 DEF Shapes, TypeOK
    <3>5. \A v \in Subscribers : app'[v] # None => app'[v] <= edits'
      BY <2>3, <3>1, <3>3, NoneAssumption DEF Shapes, TypeOK, Versions
    <3>6. \A a \in Articles : source[a] <= edits'
      BY <2>3, <3>1 DEF Shapes, TypeOK, Versions
    <3> QED
      BY <2>3, <3>4, <3>5, <3>6 DEF Shapes, TypeOK, Versions
  <2> QED
    BY <2>1, <2>2, <2>3 DEF Edit
<1>4. TypeOK'
  BY <1>1, <1>2, <1>3 DEF Shapes, TypeOK
<1>5. MadeFromItsOwnText'
  BY <1>1 DEF TextsKept, MadeFromItsOwnText, Stored
<1>6. ASSUME NEW q \in Runs PROVE Fits(q)' /\ Owned(q)'
  BY <1>1, BystanderFits DEF Shapes
<1> QED
  BY <1>3, <1>4, <1>5, <1>6 DEF Shapes, TextsKept
-----------------------------------------------------------------------------
(* Scores.                                                                 *)

LEMMA PairsOf ==
    ASSUME NEW T, IsFiniteSet(T), NEW u
    PROVE  LET P == {<<u, a>> : a \in T}
           IN  IsFiniteSet(P) /\ Cardinality(P) <= Cardinality(T)
<1> DEFINE P == {<<u, a>> : a \in T}
           f == [a \in T |-> <<u, a>>]
<1>1. f \in Surjection(T, P)
  BY DEF Surjection
<1> HIDE DEF P, f
<1>2. IsFiniteSet(P) /\ Cardinality(P) <= Cardinality(T)
  BY <1>1, FS_Surjection
<1> QED
  BY <1>2 DEF P

LEMMA ScoresFinite ==
    ASSUME TypeOK, NEW u, NEW S \in SUBSET ScoresOf(u)
    PROVE  /\ IsFiniteSet(S) /\ Cardinality(S) \in Nat
           /\ Cardinality(ScoresOf(u)) \in Nat /\ Cardinality(S) <= Cardinality(ScoresOf(u))
<1>1. IsFiniteSet({<<u, a>> : a \in Articles})
  BY PairsOf, NamesAssumption
<1>2. ScoresOf(u) \in SUBSET {<<u, a>> : a \in Articles}
  BY DEF TypeOK, ScoresOf, Pair
<1>3. IsFiniteSet(ScoresOf(u))
  <2> HIDE DEF ScoresOf
  <2> QED
    BY <1>1, <1>2, FS_Subset
<1> QED
  BY <1>3, FS_Subset, FS_CardinalityType

LEMMA KeepsScoring ==
    ASSUME NEW q \in Runs, Scoring(q), todo'[q] = todo[q], SameUser(job[q], job'[q]),
           job'[q].removed = job[q].removed, job'[q].scoresLeft \subseteq job[q].scoresLeft,
           pc'[q] = pc[q] \/ ~Doing(q, {"score-users"}),
           job[q].user \in Users \ mixed' =>
              \A s \in score' : s[1] = job[q].user => s \in job[q].removed \union job'[q].scoresLeft
    PROVE  Scoring(q)'
<1> DEFINE u == job[q].user
           taken == job[q].ranked \union job[q].written
           left == job[q].scoresLeft
           left2 == job'[q].scoresLeft
           ranks == At(q, "score-users", "rank")
           inserts == At(q, "score-users", "insert")
<1>1. (ranks' <=> ranks) /\ (inserts' <=> inserts)
  BY DEF At, Doing
<1>2. /\ job'[q].user = u /\ job'[q].removed = job[q].removed
      /\ job'[q].ranked \union job'[q].written = taken
  BY DEF SameUser
<1>3. /\ u # None => ranks \/ inserts
      /\ ranks \/ inserts => u # None
      /\ inserts => left = {} /\ Cardinality(taken) <= TopK /\ \A s \in taken : s[1] = u
  BY DEF Scoring
<1>4. job'[q].user \in Users \ mixed' => ScoresOf(job[q].user)' \subseteq job'[q].removed \union left2
  BY <1>2 DEF ScoresOf
<1>5. left2 \subseteq left
  OBVIOUS
<1> HIDE DEF left, left2, taken
<1>6. inserts => left2 = {}
  BY <1>3, <1>5
<1> QED
  BY <1>1, <1>2, <1>3, <1>4, <1>6 DEF Scoring, left2, taken

(* The command each action belongs to.                                     *)
LEMMA Heads ==
    ASSUME NEW r \in Runs
    PROVE  /\ Ingest(r) => Doing(r, IngestCommands)
           /\ Summarize(r) => Doing(r, {"summarize", "refresh"})
           /\ EmbedArticles(r) => Doing(r, {"embed-articles"})
           /\ SeedOwner(r) \/ SyncUsers(r) \/ EmbedProfiles(r) =>
                 Doing(r, {"seed-owner", "sync-users", "embed-profiles"})
           /\ ScoreUsers(r) => Doing(r, {"score-users"})
           /\ Prune(r) => Doing(r, {"prune"})
           /\ DeleteScoreRow(r) => Doing(r, {"score-users", "prune"})
           /\ Digest(r) => Doing(r, {"digest"})
<1>1. Ingest(r) => Doing(r, IngestCommands)
  BY DEF Ingest, Scrape, ScrapeFails, WriteArticle, NextSource, IngestEnds, Ingesting, Doing
<1>2. Summarize(r) => Doing(r, {"summarize", "refresh"})
  BY DEF Summarize, SelectArticles, SummarizeArticle, SummaryFails, SummaryLimited, BatchEnds,
         Summarizing, Doing
<1>3. EmbedArticles(r) => Doing(r, {"embed-articles"})
  BY DEF EmbedArticles, SelectRows, EmbedTexts, EmbedLimited, UpdateRow, EmbedCommits, At, Doing
<1>4. SeedOwner(r) \/ SyncUsers(r) \/ EmbedProfiles(r) =>
         Doing(r, {"seed-owner", "sync-users", "embed-profiles"})
  BY DEF SeedOwner, SyncUsers, EmbedProfiles, FetchUsers, UpsertUsers, ReadProfiles, UpsertVectors, At, Doing
<1>5. ScoreUsers(r) => Doing(r, {"score-users"})
  BY DEF ScoreUsers, ReadVectors, DeleteScores, RankArticles, InsertScore, InsertRefused,
         ScoresCommit, ScoringEnds, At, Doing
<1>6. Prune(r) => Doing(r, {"prune"})
  BY DEF Prune, PruneAged, PruneIrrelevant, DeleteRow, CountRows, ReadOldest, PruneOldest, PruneCommits,
         At, Doing
<1>7. Digest(r) => Doing(r, {"digest"})
  BY DEF Digest, LoadUsers, LoadArticles, Loaded, SendDigest, SendFails, DigestEnds, At, Doing
<1>8. DeleteScoreRow(r) => Doing(r, {"score-users", "prune"})
  BY DEF DeleteScoreRow, Doing
<1> QED
  BY <1>1, <1>2, <1>3, <1>4, <1>5, <1>6, <1>7, <1>8

(* A command's own actions are the only ones to move it.                   *)
LEMMA OwnActions ==
    ASSUME NEW r \in Runs, Command(r) \/ Abort(r), ~Begins(r)
    PROVE  /\ ScoreUsers(r) \/ DeleteScoreRow(r) \/ ~Doing(r, {"score-users"})
           /\ Prune(r) \/ DeleteScoreRow(r) \/ ~Doing(r, {"prune"})
           /\ Digest(r) \/ ~Doing(r, {"digest"})
           /\ Summarize(r) \/ ~Doing(r, {"summarize"})
BY Heads DEF Command, Begins, Doing, IngestCommands

LEMMA NoUser ==
    ASSUME NEW r \in Runs, job'[r].user = None, ~At(r, "score-users", "rank")',
           ~At(r, "score-users", "insert")'
    PROVE  Scoring(r)'
<1>1. None \notin Users
  BY NamesAssumption, NoneAssumption
<1> QED
  BY <1>1 DEF Scoring

(* What r has changed stays apart from what the others have.               *)
Aside(r) ==
    \A q \in Runs \ {r} :
       /\ KeepsScores(r)' \intersect KeepsScores(q) = {}
       /\ Shares(r)' \intersect job[q].doomed = {} /\ Shares(q) \intersect job'[r].doomed = {}

(* A step that commits no scores.                                          *)
LEMMA LocksStay ==
    ASSUME Scores, NEW r \in Runs, score' = score, Stored \subseteq Stored',
           \A q \in Runs \ {r} : Bystander(q), Steady(r), Locking(r)', Aside(r)
    PROVE  Locks'
<1>1. ASSUME NEW q \in Runs \ {r}
      PROVE  /\ job'[q].written = job[q].written /\ job'[q].removed = job[q].removed
             /\ job'[q].doomed = job[q].doomed /\ job'[q].scoresLeft = job[q].scoresLeft
             /\ todo'[q] = todo[q] /\ pc'[q] = pc[q]
  BY DEF Bystander, SameUser, Steady
<1>2. ASSUME NEW q \in Runs \ {r}
      PROVE  /\ KeepsScores(q)' = KeepsScores(q) /\ Shares(q)' = Shares(q)
             /\ job'[q].doomed = job[q].doomed
  BY <1>1 DEF KeepsScores, Shares, InHand
<1>3. ASSUME NEW q \in Runs \ {r} PROVE Locking(q)'
  BY <1>1 DEF Scores, Locks, Locking, At, Doing
<1>4. ASSUME NEW q \in Runs \ {r} PROVE Apart(q, r)' /\ Apart(r, q)'
  BY <1>2 DEF Aside, Apart
<1>5. ASSUME NEW q \in Runs \ {r}, NEW p \in Runs \ {r}, p # q PROVE Apart(p, q)'
  BY <1>2, <1>5 DEF Scores, Locks, Apart
<1> QED
  BY <1>3, <1>4, <1>5 DEF Locks

LEMMA ScoresStay ==
    ASSUME Scores, NEW r \in Runs, score' = score, mixed' = mixed, Stored \subseteq Stored',
           \A q \in Runs \ {r} : Bystander(q), Steady(r), Locking(r)', Aside(r),
           Scoring(r)', job'[r].user \in {job[r].user, None}
    PROVE  Scores'
<1>1. ASSUME NEW q \in Runs \ {r} PROVE Scoring(q)'
  <2>1. Scoring(q) /\ job'[q].scoresLeft = job[q].scoresLeft /\ Bystander(q)
    BY DEF Scores, Steady
  <2>2. job[q].user \in Users \ mixed' =>
           \A s \in score' : s[1] = job[q].user => s \in job[q].removed \union job'[q].scoresLeft
    BY <2>1 DEF Scoring, ScoresOf
  <2> QED
    BY <2>1, <2>2, KeepsScoring DEF Bystander
<1>2. Alone'
  BY DEF Scores, Alone, Bystander, SameUser
<1>3. ScoresHold'
  BY DEF Scores, ScoresHold, ScoresOf
<1> QED
  BY <1>1, <1>2, <1>3, LocksStay DEF Scores

(* A run that has nothing more in hand than before.                        *)
LEMMA LessInHand ==
    ASSUME Scores, NEW r \in Runs, score' = score, job'[r].removed \subseteq job[r].removed,
           job'[r].written = {} \/ (job'[r].written = job[r].written /\ job'[r].removed = job[r].removed),
           job'[r].doomed \subseteq job[r].doomed
    PROVE  Aside(r)
<1>1. Shares(r)' \subseteq Shares(r) /\ KeepsScores(r)' \subseteq KeepsScores(r)
  BY DEF Shares, KeepsScores, InHand
<1> QED
  BY <1>1 DEF Scores, Locks, Apart, Aside

LEMMA RankScores ==
    ASSUME Shapes, Scores, NEW r \in Runs, RankArticles(r)
    PROVE  Scores'
<1>1. PICK T \in SUBSET Eligible(r) :
         /\ Solo(r) /\ SameBeside(job[r], job'[r]) /\ pc'[r] = "insert"
         /\ job[r].user \in Users /\ job'[r].user = job[r].user
         /\ job'[r].removed = job[r].removed /\ job'[r].scoresLeft = job[r].scoresLeft
         /\ job'[r].written = job[r].written /\ Cardinality(T) <= TopK
         /\ job'[r].ranked = {<<job[r].user, a>> : a \in T}
  BY RankArticlesStep
<1>2. /\ score' = score /\ mixed' = mixed /\ rows' = rows /\ todo[r] # <<>> /\ Head(todo[r]) = "score-users"
      /\ pc[r] = "rank" /\ job[r].scoresLeft = {} /\ Stored' = Stored
  BY DEF RankArticles, tables, At, Stored
<1>3. todo' = todo /\ Steady(r) /\ \A q \in Runs \ {r} : Bystander(q)
  BY <1>1, <1>2 DEF Solo, Commits, ScoresCommit, PruneCommits, At
<1>4. job[r].written = {} /\ job[r].doomed = {} /\ job'[r].doomed = {}
  BY <1>1, <1>2 DEF Scores, Locks, Locking, At, Doing, SameBeside, SamePrune
<1> DEFINE u == job[r].user
           P == {<<u, a>> : a \in T}
<1>5. Cardinality(P) <= TopK /\ \A s \in P : s[1] = u
  <2>1. IsFiniteSet(T)
    <3>1. T \in SUBSET Articles
      BY DEF Eligible, Stored
    <3> QED
      BY <3>1, NamesAssumption, FS_Subset
  <2>2. IsFiniteSet(P) /\ Cardinality(P) <= Cardinality(T)
    BY <2>1, PairsOf
  <2>3. Cardinality(P) \in Nat /\ Cardinality(T) \in Nat /\ TopK \in Nat
    BY <2>1, <2>2, FS_CardinalityType, LimitsAssumption
  <2> QED
    BY <1>1, <2>2, <2>3
<1>6. ~At(r, "score-users", "rank")' /\ At(r, "score-users", "insert")'
  BY <1>1, <1>2, <1>3 DEF At
<1>7. u # None /\ (u \in Users \ mixed => ScoresOf(u) \subseteq job[r].removed)
  BY <1>1, <1>2, NamesAssumption, NoneAssumption DEF Scores, Scoring
<1>8. ScoresOf(job[r].user)' = {s \in score : s[1] = u}
  BY <1>1, <1>2 DEF ScoresOf
<1> HIDE DEF P
<1>9. /\ job'[r].user = u /\ job'[r].removed = job[r].removed /\ job'[r].scoresLeft = {}
      /\ job'[r].ranked \union job'[r].written = P
  BY <1>1, <1>2, <1>4 DEF P
<1>10. Scoring(r)'
  BY <1>2, <1>5, <1>6, <1>7, <1>8, <1>9 DEF Scoring, ScoresOf
<1>11. Locking(r)' /\ Aside(r)
  BY <1>1, <1>2, <1>4, LessInHand DEF Locking
<1> QED
  BY <1>1, <1>2, <1>3, <1>10, <1>11, ScoresStay

LEMMA DeleteScoresKeep ==
    ASSUME Shapes, Scores, NEW r \in Runs, DeleteScores(r)
    PROVE  Scores'
<1>1. PICK item \in job[r].work :
         /\ item.id \in Users /\ Solo(r) /\ SameBeside(job[r], job'[r]) /\ pc'[r] = "rank"
         /\ job'[r].removed = job[r].removed /\ job'[r].written = job[r].written
         /\ job'[r].user = item.id /\ job'[r].scoresLeft = ScoresOf(item.id)
         /\ mixed' = IF \E q \in Runs : job[q].user = item.id THEN mixed \union {item.id} ELSE mixed
  BY DeleteScoresStep
<1> DEFINE u == item.id
<1>2. /\ score' = score /\ rows' = rows /\ mixed \subseteq mixed' /\ Stored' = Stored
      /\ todo[r] # <<>> /\ Head(todo[r]) = "score-users" /\ pc[r] = "delete" /\ None \notin Users
  BY <1>1, NamesAssumption, NoneAssumption DEF DeleteScores, tables, At, Stored
<1>3. todo' = todo /\ Steady(r) /\ \A q \in Runs \ {r} : Bystander(q)
  BY <1>1, <1>2 DEF Solo, Commits, ScoresCommit, PruneCommits, At
<1>4. job[r].written = {} /\ job[r].doomed = {} /\ job'[r].doomed = {}
  BY <1>1, <1>2 DEF Scores, Locks, Locking, At, Doing, SameBeside, SamePrune
<1>5. Scoring(r)'
  <2>1. At(r, "score-users", "rank")' /\ ~At(r, "score-users", "insert")'
    BY <1>1, <1>2, <1>3 DEF At
  <2>2. ScoresOf(u) = {s \in score : s[1] = u} /\ u # None
    BY <1>1, <1>2 DEF ScoresOf
  <2> QED
    BY <1>1, <1>2, <2>1, <2>2 DEF Scoring, ScoresOf
<1>6. ASSUME NEW q \in Runs \ {r} PROVE Scoring(q)'
  <2>1. Scoring(q) /\ job'[q].scoresLeft = job[q].scoresLeft /\ Bystander(q)
    BY <1>3 DEF Scores, Steady
  <2>2. job[q].user \in Users \ mixed' =>
           \A s \in score' : s[1] = job[q].user => s \in job[q].removed \union job'[q].scoresLeft
    BY <1>2, <2>1 DEF Scoring, ScoresOf
  <2> QED
    BY <2>1, <2>2, KeepsScoring DEF Bystander
<1>7. Alone'
  <2>1. ASSUME NEW q \in Runs \ {r} PROVE job'[q].user = job[q].user
    BY <1>3 DEF Bystander, SameUser
  <2>2. ASSUME NEW q \in Runs \ {r}, job'[q].user = u PROVE u \in mixed'
    BY <1>1, <2>1, <2>2
  <2> QED
    BY <1>1, <1>2, <2>1, <2>2 DEF Scores, Alone
<1>8. ScoresHold'
  BY <1>2 DEF Scores, ScoresHold, ScoresOf
<1>9. Locking(r)' /\ Aside(r)
  BY <1>1, <1>2, <1>4, LessInHand DEF Locking
<1>10. Locks'
  BY <1>2, <1>3, <1>9, LocksStay
<1> QED
  BY <1>5, <1>6, <1>7, <1>8, <1>10 DEF Scores

LEMMA InsertScoreKeeps ==
    ASSUME Shapes, Scores, NEW r \in Runs, InsertScore(r)
    PROVE  Scores'
<1>1. TypeOK
  BY DEF Shapes
<1>2. PICK s \in job[r].ranked :
         /\ Solo(r) /\ SameBeside(job[r], job'[r]) /\ pc'[r] = pc[r]
         /\ s[2] \in Stored /\ \A q \in Runs \ {r} : ~HoldsInsert(q, r, s)
         /\ job'[r].user = job[r].user /\ job'[r].removed = job[r].removed
         /\ job'[r].scoresLeft = job[r].scoresLeft
         /\ job'[r].ranked = job[r].ranked \ {s} /\ job'[r].written = job[r].written \union {s}
  BY <1>1, InsertScoreStep
<1>3. /\ score' = score /\ mixed' = mixed /\ Stored' = Stored /\ todo' = todo
      /\ todo[r] # <<>> /\ Head(todo[r]) = "score-users" /\ pc[r] = "insert"
  BY DEF InsertScore, tables, At, Stored
<1>4. Steady(r) /\ \A q \in Runs \ {r} : Bystander(q)
  <2>1. ~ScoresCommit(r)
    BY <1>1, <1>2, <1>3, ScoresCommitStep
  <2> QED
    BY <1>2, <1>3, <2>1 DEF Solo, Commits, PruneCommits, At
<1>5. Locking(r) /\ Scoring(r) /\ job[r].doomed = {} /\ job'[r].doomed = {}
  BY <1>2, <1>3 DEF Scores, Locks, Locking, Doing, SameBeside, SamePrune
<1>6. At(r, "score-users", "insert") /\ At(r, "score-users", "insert")' /\ ~At(r, "score-users", "rank")'
  BY <1>2, <1>3 DEF At
<1>7. job'[r].ranked \union job'[r].written = job[r].ranked \union job[r].written
  BY <1>2
<1>8. Scoring(r)'
  <2>1. ScoresOf(job[r].user)' = ScoresOf(job[r].user)
    BY <1>2, <1>3 DEF ScoresOf
  <2> QED
    BY <1>2, <1>3, <1>5, <1>6, <1>7, <2>1 DEF Scoring, ScoresOf
<1>9. Locking(r)'
  BY <1>2, <1>3, <1>5, <1>6 DEF Locking
<1>10. Aside(r)
  <2> SUFFICES ASSUME NEW q \in Runs \ {r}
               PROVE  /\ KeepsScores(r)' \intersect KeepsScores(q) = {}
                      /\ Shares(r)' \intersect job[q].doomed = {}
    BY <1>5 DEF Aside
  <2>1. Apart(r, q) /\ s \notin KeepsScores(q) /\ (s \in InHand(r) \/ s[2] \notin job[q].doomed)
    BY <1>2 DEF Scores, Locks, HoldsInsert
  <2>2. KeepsScores(r)' = KeepsScores(r) \union {s}
    BY <1>2 DEF KeepsScores
  <2>3. ASSUME NEW a \in Shares(r)' PROVE a \in Shares(r) \/ (a = s[2] /\ s \notin InHand(r))
    <3>1. InHand(r)' = InHand(r)
      BY <1>2, <1>3 DEF InHand
    <3>2. PICK t \in job'[r].written \ InHand(r)' : a = t[2]
      BY <2>3 DEF Shares
    <3> QED
      BY <1>2, <3>1, <3>2 DEF Shares
  <2> QED
    BY <2>1, <2>2, <2>3 DEF Apart
<1> QED
  BY <1>2, <1>3, <1>4, <1>8, <1>9, <1>10, ScoresStay

(* A row of scores is deleted: no other run has it in hand.                *)
LEMMA DeleteScoreRowKeeps ==
    ASSUME Shapes, Scores, NEW r \in Runs, DeleteScoreRow(r)
    PROVE  Scores'
<1>1. TypeOK
  BY DEF Shapes
<1>2. PICK s \in job[r].scoresLeft :
         /\ Solo(r) /\ SameBeside(job[r], job'[r]) /\ SameUser(job[r], job'[r])
         /\ pc'[r] = pc[r]
         /\ \A q \in Runs \ {r} : s \notin KeepsScores(q)
         /\ job'[r].scoresLeft = job[r].scoresLeft \ {s}
         /\ job'[r].removed = job[r].removed \union {s}
  BY <1>1, DeleteScoreRowStep
<1>3. score' = score /\ mixed' = mixed /\ Stored' = Stored /\ todo' = todo
  BY DEF DeleteScoreRow, tables, Stored
<1>4. Locking(r) /\ Scoring(r) /\ job'[r].doomed = job[r].doomed /\ job'[r].written = job[r].written
      /\ job'[r].user = job[r].user /\ job'[r].ranked = job[r].ranked
  BY <1>2 DEF Scores, Locks, SameBeside, SamePrune, SameUser
<1>5. ~At(r, "score-users", "insert") /\ ~At(r, "score-users", "insert")' /\ job[r].written = {}
  <2>1. ~At(r, "score-users", "insert") /\ job[r].written = {}
    BY <1>2, <1>4 DEF Scoring, Locking
  <2> QED
    BY <1>2, <1>3, <2>1 DEF At
<1>6. Steady(r) /\ \A q \in Runs \ {r} : Bystander(q)
  <2>1. ~PruneCommits(r)
    BY <1>2 DEF PruneCommits, Deleted
  <2> QED
    BY <1>2, <1>5, <2>1 DEF Solo, Commits, ScoresCommit
<1>7. job'[r].removed \union job'[r].scoresLeft = job[r].removed \union job[r].scoresLeft
  BY <1>2
<1>8. Scoring(r)'
  <2>1. ScoresOf(job[r].user)' = ScoresOf(job[r].user)
    BY <1>3, <1>4 DEF ScoresOf
  <2>2. At(r, "score-users", "rank")' <=> At(r, "score-users", "rank")
    BY <1>2, <1>3 DEF At
  <2> QED
    BY <1>3, <1>4, <1>5, <1>7, <2>1, <2>2 DEF Scoring, ScoresOf
<1>9. Locking(r)'
  BY <1>2, <1>3, <1>4, <1>5, <1>7 DEF Locking, Doing
<1>10. Aside(r)
  <2> SUFFICES ASSUME NEW q \in Runs \ {r}
               PROVE  /\ KeepsScores(r)' \intersect KeepsScores(q) = {}
                      /\ Shares(q) \intersect job'[r].doomed = {}
    BY <1>4, <1>5 DEF Aside, Shares
  <2>1. Apart(r, q) /\ Apart(q, r) /\ KeepsScores(r)' = KeepsScores(r) \union {s}
    BY <1>2, <1>4 DEF Scores, Locks, KeepsScores
  <2> QED
    BY <1>2, <1>4, <2>1 DEF Apart
<1> QED
  BY <1>2, <1>3, <1>4, <1>6, <1>8, <1>9, <1>10, ScoresStay

(* A step that has nothing to do with scores or locks.                     *)
LEMMA HandsOff ==
    ASSUME Shapes, Scores, NEW r \in Runs, Solo(r), Steady(r), SameScore(job[r], job'[r]),
           job'[r].doomed = job[r].doomed, score' = score, mixed' = mixed, Stored \subseteq Stored',
           \/ pc'[r] = pc[r] \/ ~Doing(r, {"score-users"})
           \/ pc[r] \notin {"rank", "insert"} /\ pc'[r] \notin {"rank", "insert"}
    PROVE  Scores'
<1>1. todo' = todo /\ Scoring(r) /\ Locking(r) /\ \A q \in Runs \ {r} : Bystander(q)
  BY DEF Solo, Scores, Locks
<1>2. /\ At(r, "score-users", "rank")' <=> At(r, "score-users", "rank")
      /\ At(r, "score-users", "insert")' <=> At(r, "score-users", "insert")
  BY <1>1 DEF At, Doing
<1>3. /\ job'[r].user = job[r].user /\ job'[r].removed = job[r].removed
      /\ job'[r].ranked = job[r].ranked /\ job'[r].written = job[r].written
      /\ job'[r].scoresLeft = job[r].scoresLeft
  BY DEF SameScore, SameUser
<1>4. Locking(r)' /\ Aside(r)
  BY <1>1, <1>2, <1>3, LessInHand DEF Locking, Doing
<1>5. Scoring(r)'
  <2>1. ScoresOf(job[r].user)' = ScoresOf(job[r].user)
    BY <1>3 DEF ScoresOf
  <2> QED
    BY <1>1, <1>2, <1>3, <2>1 DEF Scoring, ScoresOf
<1> QED
  BY <1>1, <1>3, <1>4, <1>5, ScoresStay

(* A row of articles is deleted: no other run has a new score of it, and   *)
(* its scores are deleted next.                                            *)
LEMMA DeleteRowKeeps ==
    ASSUME Shapes, Scores, NEW r \in Runs, DeleteRow(r)
    PROVE  Scores'
<1> DEFINE Deletes(a, gone) ==
              /\ Solo(r) /\ SameOutside(job[r], job'[r]) /\ pc'[r] = pc[r]
              /\ \A q \in Runs \ {r} : ~HoldsRow(q, a)
              /\ job'[r].removed = job[r].removed
              /\ job'[r].rowsLeft = job[r].rowsLeft \ {a}
              /\ job'[r].doomed = job[r].doomed \union gone
              /\ job'[r].scoresLeft = job[r].scoresLeft \union {s \in score : s[2] \in gone}
<1>1. PICK a \in job[r].rowsLeft : \E gone \in SUBSET {a} : Deletes(a, gone)
  BY DeleteRowStep DEF Shapes
<1>2. PICK gone \in SUBSET {a} : Deletes(a, gone)
  BY <1>1
<1>3. /\ score' = score /\ mixed' = mixed /\ Stored' = Stored /\ todo' = todo
      /\ todo[r] # <<>> /\ Head(todo[r]) = "prune"
  BY DEF DeleteRow, tables, Stored, At
<1>4. Steady(r) /\ \A q \in Runs \ {r} : Bystander(q)
  <2>1. ~PruneCommits(r)
    BY <1>2 DEF PruneCommits, Deleted
  <2> QED
    BY <1>2, <1>3, <2>1 DEF Solo, Commits, ScoresCommit, At
<1>5. /\ Locking(r) /\ Scoring(r) /\ job'[r].user = job[r].user /\ job'[r].written = job[r].written
      /\ ~At(r, "score-users", "rank")' /\ ~At(r, "score-users", "insert")'
      /\ job[r].user = None /\ job[r].written = {}
  BY <1>2, <1>3 DEF Scores, Locks, SameOutside, SameUser, Scoring, Locking, At
<1>6. Scoring(r)'
  BY <1>5, NoUser
<1>7. Locking(r)'
  BY <1>2, <1>3, <1>5 DEF Locking, Doing
<1>8. Aside(r)
  <2> SUFFICES ASSUME NEW q \in Runs \ {r}
               PROVE  /\ KeepsScores(r)' \intersect KeepsScores(q) = {}
                      /\ Shares(q) \intersect job'[r].doomed = {}
    BY <1>5 DEF Aside, Shares
  <2>1. Apart(r, q) /\ Apart(q, r) /\ KeepsScores(r)' = KeepsScores(r) /\ a \notin Shares(q)
    BY <1>2, <1>5 DEF Scores, Locks, KeepsScores, HoldsRow
  <2> QED
    BY <1>2, <2>1 DEF Apart
<1> QED
  BY <1>2, <1>3, <1>4, <1>5, <1>6, <1>7, <1>8, ScoresStay

(* A commit, of a scoring or of a prune.                                   *)
Committed(r) ==
    /\ score' = InHand(r) \union job[r].written
    /\ job'[r].removed = {} /\ job'[r].written = {} /\ job'[r].doomed = {}
    /\ \A q \in Runs \ {r} : Bystander(q) /\ job'[q].scoresLeft = job[q].scoresLeft \ job[r].removed

LEMMA LocksCommitted ==
    ASSUME Scores, NEW r \in Runs, Committed(r),
           \A q \in Runs \ {r} : \A s \in job[q].written : s[2] \in Stored'
    PROVE  Locks'
<1>1. ASSUME NEW q \in Runs \ {r}
      PROVE  /\ job'[q].written = job[q].written /\ job'[q].removed = job[q].removed
             /\ job'[q].doomed = job[q].doomed /\ todo'[q] = todo[q] /\ pc'[q] = pc[q]
             /\ job'[q].scoresLeft = job[q].scoresLeft \ job[r].removed
             /\ Locking(q) /\ Apart(q, r) /\ Apart(r, q)
  BY DEF Committed, Bystander, SameUser, Scores, Locks
<1>2. ASSUME NEW q \in Runs \ {r}, NEW s \in score', s[2] \in job[q].doomed
      PROVE  s \in job[q].removed \union (job[q].scoresLeft \ job[r].removed)
  <2>1. s \in InHand(r)
    <3>1. s \in InHand(r) \/ s[2] \in Shares(r)
      BY DEF Committed, Shares
    <3> QED
      BY <1>1, <1>2, <3>1 DEF Apart
  <2> QED
    BY <1>1, <1>2, <2>1 DEF InHand, Locking
<1>3. ASSUME NEW q \in Runs \ {r} PROVE Locking(q)'
  BY <1>1, <1>2 DEF Locking, At, Doing
<1>4. ASSUME NEW q \in Runs \ {r} PROVE Shares(q)' \subseteq Shares(q) /\ KeepsScores(q)' = KeepsScores(q)
  <2>1. ASSUME NEW s \in job[q].written, s \in InHand(q) PROVE s \in InHand(q)'
    BY <1>1, <2>1 DEF InHand, Committed, Apart, KeepsScores
  <2> QED
    BY <1>1, <2>1 DEF Shares, KeepsScores
<1>5. KeepsScores(r)' = {} /\ Shares(r)' = {} /\ job'[r].doomed = {} /\ Locking(r)'
  BY DEF Committed, KeepsScores, Shares, Locking
<1>6. ASSUME NEW q \in Runs \ {r}, NEW p \in Runs \ {r}, p # q PROVE Apart(p, q)'
  BY <1>1, <1>4, <1>6 DEF Scores, Locks, Apart
<1>7. ASSUME NEW q \in Runs \ {r} PROVE Apart(r, q)' /\ Apart(q, r)'
  BY <1>5 DEF Apart
<1> QED
  BY <1>3, <1>5, <1>6, <1>7 DEF Locks

(* What the other runs count on: their users' scores are their own.        *)
LEMMA ScoringCommitted ==
    ASSUME Scores, NEW r \in Runs, Committed(r), mixed' = mixed,
           job[r].written # {} => job[r].user # None /\ \A s \in job[r].written : s[1] = job[r].user,
           NEW q \in Runs \ {r}
    PROVE  Scoring(q)'
<1>1. /\ Scoring(q) /\ Bystander(q) /\ job'[q].scoresLeft = job[q].scoresLeft \ job[r].removed
      /\ score' = InHand(r) \union job[r].written
      /\ job[q].user = job[r].user /\ job[r].user # None => job[r].user \in mixed
  BY DEF Scores, Committed, Alone
<1>2. ASSUME job[q].user \in Users \ mixed', NEW s \in score', s[1] = job[q].user
      PROVE  s \in job[q].removed \union job'[q].scoresLeft
  <2>1. s \notin job[r].written
    BY <1>1, <1>2
  <2> QED
    BY <1>1, <1>2, <2>1 DEF InHand, Scoring, ScoresOf
<1> QED
  BY <1>1, <1>2, KeepsScoring DEF Bystander

LEMMA ScoresCommitKeeps ==
    ASSUME Shapes, Scores, Shapes', NEW r \in Runs, ScoresCommit(r)
    PROVE  Scores'
<1> DEFINE u == job[r].user
           written == job[r].written
<1>1. TypeOK /\ TypeOK'
  BY DEF Shapes
<1>2. /\ Solo(r) /\ SameBeside(job[r], job'[r]) /\ pc'[r] = "delete" /\ todo' = todo
      /\ job'[r].user = None /\ job'[r].removed = {} /\ job'[r].written = {}
      /\ \A q \in Runs \ {r} : Bystander(q) /\ job'[q].scoresLeft = job[q].scoresLeft \ job[r].removed
  BY <1>1, ScoresCommitStep DEF Solo
<1>3. /\ mixed' = mixed /\ Stored' = Stored /\ score' = InHand(r) \union written
      /\ At(r, "score-users", "insert") /\ job[r].ranked = {} /\ Scoring(r) /\ Locking(r)
  BY DEF ScoresCommit, Stored, Scores, Locks
<1>4. /\ u # None /\ u \in Users /\ Cardinality(written) <= TopK /\ \A s \in written : s[1] = u
      /\ u \notin mixed => ScoresOf(u) \subseteq job[r].removed
  <2>1. job[r].ranked \union written = written
    BY <1>3
  <2> QED
    BY <1>1, <1>3, <2>1 DEF Scoring, TypeOK, Job
<1>5. Committed(r)
  <2>1. job'[r].doomed = {}
    BY <1>2, <1>3 DEF Locking, At, Doing, SameBeside, SamePrune
  <2> QED
    BY <1>2, <1>3, <2>1 DEF Committed
<1>6. Locks'
  <2>1. \A q \in Runs \ {r} : \A s \in job[q].written : s[2] \in Stored'
    BY <1>3 DEF Scores, Locks, Locking
  <2> QED
    BY <1>5, <2>1, LocksCommitted
<1>7. Scoring(r)'
  BY <1>2, NoUser DEF At
<1>8. \A q \in Runs \ {r} : Scoring(q)'
  BY <1>3, <1>4, <1>5, ScoringCommitted
<1>9. Alone'
  <2>1. \A q \in Runs \ {r} : job'[q].user = job[q].user
    BY <1>2 DEF Bystander, SameUser
  <2> QED
    BY <1>2, <1>3, <2>1 DEF Scores, Alone
<1>10. ASSUME NEW v \in Users \ mixed' PROVE Cardinality(ScoresOf(v)') <= TopK
  <2>1. CASE v = u
    <3>1. ScoresOf(v)' \subseteq written
      BY <1>3, <1>4, <1>10, <2>1 DEF ScoresOf, InHand
    <3>2. IsFiniteSet(written)
      <4>1. IsFiniteSet({<<u, a>> : a \in Articles})
        BY PairsOf, NamesAssumption
      <4>2. written \in SUBSET {<<u, a>> : a \in Articles}
        BY <1>1, <1>4 DEF TypeOK, Job, Pair
      <4> HIDE DEF written, u
      <4> QED
        BY <4>1, <4>2, FS_Subset
    <3>3. /\ Cardinality(ScoresOf(v)') \in Nat /\ Cardinality(written) \in Nat
          /\ Cardinality(ScoresOf(v)') <= Cardinality(written)
      BY <3>1, <3>2, FS_Subset, FS_CardinalityType
    <3> QED
      BY <1>4, <3>3, LimitsAssumption
  <2>2. CASE v # u
    <3>1. ScoresOf(v)' \in SUBSET ScoresOf(v)
      BY <1>3, <1>4, <2>2 DEF ScoresOf, InHand
    <3>2. Cardinality(ScoresOf(v)) <= TopK
      BY <1>3, <1>10 DEF Scores, ScoresHold
    <3>3. /\ Cardinality(ScoresOf(v)') \in Nat /\ Cardinality(ScoresOf(v)) \in Nat
          /\ Cardinality(ScoresOf(v)') <= Cardinality(ScoresOf(v))
      BY <1>1, <3>1, ScoresFinite
    <3> QED
      BY <3>2, <3>3, LimitsAssumption
  <2> QED
    BY <2>1, <2>2
<1>11. \A s \in score' : s[2] \in Stored'
  BY <1>3 DEF Scores, ScoresHold, InHand, Locking
<1>12. ScoresHold'
  BY <1>10, <1>11 DEF ScoresHold
<1> QED
  BY <1>6, <1>7, <1>8, <1>9, <1>12 DEF Scores

LEMMA PruneCommitKeeps ==
    ASSUME Shapes, TextsKept, Scores, Shapes', NEW r \in Runs, PruneCommits(r)
    PROVE  Scores'
<1>1. TypeOK /\ TypeOK'
  BY DEF Shapes
<1>2. /\ Solo(r) /\ SameOutside(job[r], job'[r]) /\ pc'[r] = "end" /\ todo' = todo
      /\ job'[r].removed = {} /\ job'[r].doomed = {}
      /\ \A q \in Runs \ {r} : Bystander(q) /\ job'[q].scoresLeft = job[q].scoresLeft \ job[r].removed
  BY <1>1, PruneCommitsStep DEF Solo
<1>3. /\ mixed' = mixed /\ score' = InHand(r) /\ todo[r] # <<>> /\ Head(todo[r]) = "prune"
      /\ job[r].scoresLeft = {} /\ Scoring(r) /\ Locking(r)
  BY DEF PruneCommits, Deleted, At, Scores, Locks
<1>4. Stored' = Stored \ job[r].doomed
  BY RowsPruned DEF Stored
<1>5. job[r].written = {} /\ job[r].user = None /\ job'[r].written = {} /\ job'[r].user = None
  BY <1>2, <1>3 DEF Scoring, Locking, At, SameOutside, SameUser
<1>6. Committed(r)
  BY <1>2, <1>3, <1>5 DEF Committed
<1>7. \A s \in InHand(r) : s[2] \notin job[r].doomed
  BY <1>3 DEF Locking, InHand
<1>8. Locks'
  <2>1. ASSUME NEW q \in Runs \ {r}, NEW s \in job[q].written PROVE s[2] \in Stored'
    <3>1. s[2] \in Stored /\ Apart(q, r) /\ (s \in InHand(q) \/ s[2] \in Shares(q))
      BY DEF Scores, Locks, Locking, Shares
    <3>2. s \in InHand(q) => s \in InHand(r)
      BY <3>1 DEF InHand, Apart, KeepsScores
    <3> QED
      BY <1>4, <1>7, <3>1, <3>2 DEF Apart
  <2> QED
    BY <1>6, <2>1, LocksCommitted
<1>9. Scoring(r)'
  BY <1>2, <1>3, <1>5, NoUser DEF At
<1>10. \A q \in Runs \ {r} : Scoring(q)'
  BY <1>3, <1>5, <1>6, ScoringCommitted
<1>11. Alone'
  <2>1. \A q \in Runs \ {r} : job'[q].user = job[q].user
    BY <1>2 DEF Bystander, SameUser
  <2> QED
    BY <1>3, <1>5, <2>1 DEF Scores, Alone
<1>12. ASSUME NEW v \in Users \ mixed' PROVE Cardinality(ScoresOf(v)') <= TopK
  <2>1. ScoresOf(v)' \in SUBSET ScoresOf(v)
    BY <1>3 DEF ScoresOf, InHand
  <2>2. Cardinality(ScoresOf(v)) <= TopK
    BY <1>3, <1>12 DEF Scores, ScoresHold
  <2>3. /\ Cardinality(ScoresOf(v)') \in Nat /\ Cardinality(ScoresOf(v)) \in Nat
        /\ Cardinality(ScoresOf(v)') <= Cardinality(ScoresOf(v))
    BY <1>1, <2>1, ScoresFinite
  <2> QED
    BY <2>2, <2>3, LimitsAssumption
<1>13. \A s \in score' : s[2] \in Stored'
  BY <1>3, <1>4, <1>7 DEF Scores, ScoresHold, InHand
<1>14. ScoresHold'
  BY <1>12, <1>13 DEF ScoresHold
<1> QED
  BY <1>8, <1>9, <1>10, <1>11, <1>14 DEF Scores

LEMMA ScoresNext ==
    ASSUME Shapes, TextsKept, Scores, Shapes', NEW r \in Runs, Command(r) \/ Abort(r)
    PROVE  Scores'
<1>1. /\ TypeOK /\ RowSteps /\ (PruneCommits(r) \/ Stored \subseteq Stored')
  BY RowsStep DEF Shapes, Stored
<1>2. CASE Restarts(r) /\ Begins(r)
  <2>1. score' = score /\ mixed' = mixed /\ Stored' = Stored
    BY <1>2 DEF Begins, NextCommand, Abort, InsertRefused, Deadlock, RunFails, tables, Stored
  <2>2. /\ job'[r].user = None /\ job'[r].removed = {} /\ job'[r].written = {} /\ job'[r].doomed = {}
        /\ pc'[r] = "start" /\ Steady(r) /\ \A q \in Runs \ {r} : Bystander(q)
    BY <1>2 DEF Restarts, Fresh
  <2>3. Scoring(r)'
    BY <2>2, NoUser DEF At
  <2>4. Locking(r)' /\ Aside(r)
    BY <2>1, <2>2, LessInHand DEF Locking
  <2> QED
    BY <2>1, <2>2, <2>3, <2>4, ScoresStay
<1>3. CASE Solo(r) /\ Proceeds(r) /\ ~Doing(r, {"score-users", "prune"})
  <2>1. ~Doing(r, {"score-users"}) /\ ~Doing(r, {"prune"})
    BY <1>3 DEF Doing
  <2>2. ~ScoresCommit(r) /\ ~DeleteScores(r) /\ ~PruneCommits(r)
    BY <2>1 DEF ScoresCommit, DeleteScores, PruneCommits, At, Doing
  <2>3. score' = score /\ mixed' = mixed /\ Stored \subseteq Stored' /\ Steady(r)
    BY <1>1, <1>3, <2>2, Frame DEF Solo, Commits
  <2>4. SameScore(job[r], job'[r]) /\ job'[r].doomed = job[r].doomed
    BY <1>3, <2>1 DEF Proceeds, SamePrune
  <2> QED
    BY <1>3, <2>1, <2>3, <2>4, HandsOff
<1>4. CASE ReadVectors(r) \/ ScoringEnds(r)
  <2>1. /\ score' = score /\ mixed' = mixed /\ Stored' = Stored /\ pc[r] \notin {"rank", "insert"}
        /\ todo[r] # <<>> /\ Head(todo[r]) = "score-users"
    BY <1>4 DEF ReadVectors, ScoringEnds, tables, Stored, At
  <2>2. Solo(r) /\ SameScore(job[r], job'[r]) /\ job'[r].doomed = job[r].doomed /\ pc'[r] \in {"delete", "end"}
    <3>1. CASE ReadVectors(r)
      BY <3>1, ReadVectorsStep DEF Same, SameHeld, SamePrune
    <3>2. CASE ScoringEnds(r)
      BY <1>1, <3>2, Passes, PlacesAre DEF ScoringEnds, SameScore, SameUser
    <3> QED
      BY <1>4, <3>1, <3>2
  <2>3. Steady(r)
    BY <2>1, <2>2 DEF Solo, Commits, ScoresCommit, PruneCommits, At
  <2> QED
    BY <2>1, <2>2, <2>3, HandsOff
<1>5. CASE PruneAged(r) \/ PruneIrrelevant(r) \/ PruneOldest(r) \/ CountRows(r) \/ ReadOldest(r)
  <2>1. /\ score' = score /\ mixed' = mixed /\ Stored' = Stored /\ Doing(r, {"prune"}) /\ pc[r] # "commit"
    BY <1>5 DEF PruneAged, PruneIrrelevant, PruneOldest, CountRows, ReadOldest, tables, Stored, At, Doing
  <2>2. Solo(r) /\ SameScore(job[r], job'[r]) /\ job'[r].doomed = job[r].doomed
    BY <1>1, <1>5, PruneBegins, StatementStep, CountRowsStep, ReadOldestStep
  <2>3. Steady(r) /\ ~Doing(r, {"score-users"})
    BY <2>1, <2>2 DEF Solo, Commits, ScoresCommit, PruneCommits, At, Doing
  <2> QED
    BY <2>1, <2>2, <2>3, HandsOff
<1>6. CASE Doing(r, {"score-users", "prune"}) /\ ~Begins(r)
  <2>1. ScoreUsers(r) \/ Prune(r) \/ DeleteScoreRow(r)
    BY <1>6, OwnActions DEF Doing
  <2> QED
    BY <1>4, <1>5, <1>6, <2>1, RankScores, DeleteScoresKeep, InsertScoreKeeps, DeleteScoreRowKeeps,
       DeleteRowKeeps, ScoresCommitKeeps, PruneCommitKeeps DEF ScoreUsers, Prune, Begins
<1> QED
  BY <1>2, <1>3, <1>6, RunSteps, RunRestarts
-----------------------------------------------------------------------------
(* Digests.                                                                *)

LEMMA KeepsMailing ==
    ASSUME NEW q \in Runs, Mailing(q), todo'[q] = todo[q], SameMail(job[q], job'[q]),
           ~Doing(q, {"digest"}) \/ (pc'[q] = pc[q] /\ job'[q].failed = job[q].failed)
    PROVE  Mailing(q)'
BY DEF Mailing, SameMail, Doing, At

LEMMA DigestMails ==
    ASSUME Shapes, NEW r \in Runs, Mailing(r), Digest(r)
    PROVE  Mailing(r)'
<1> DEFINE kept == job[r].due \subseteq job[r].letters \union job[r].served \union job[r].failed
<1>1. TypeOK /\ todo[r] # <<>> /\ Head(todo[r]) = "digest" /\ kept
  BY Heads DEF Shapes, Mailing, Doing
<1>2. ASSUME todo' = todo,
             job'[r].due \subseteq job'[r].letters \union job'[r].served \union job'[r].failed,
             pc'[r] # "end" \/ job'[r].letters = {}
      PROVE  Mailing(r)'
  BY <1>2 DEF Mailing, At
<1>3. CASE LoadUsers(r)
  <2>1. pc'[r] = "load"
    BY <1>1, <1>3 DEF LoadUsers, GoTo, TypeOK
  <2> QED
    BY <1>1, <1>2, <1>3, <2>1, UsersStep DEF Same, SameMail, Solo
<1>4. CASE LoadArticles(r)
  <2>1. pc[r] = "load"
    BY <1>4 DEF LoadArticles, At
  <2>2. PICK letter \in SUBSET Users :
           /\ Solo(r) /\ pc'[r] = pc[r]
           /\ job'[r].letters = job[r].letters \union letter
           /\ job'[r].due = job[r].due \union letter
           /\ job'[r].served = job[r].served /\ job'[r].failed = job[r].failed
    BY <1>4, LoadArticlesStep
  <2> QED
    BY <1>1, <1>2, <2>1, <2>2 DEF Solo
<1>5. CASE SendDigest(r)
  <2>1. pc[r] = "send"
    BY <1>5 DEF SendDigest, At
  <2>2. PICK u \in job[r].letters :
           /\ Solo(r) /\ pc'[r] = pc[r] /\ job'[r].letters = job[r].letters \ {u}
           /\ job'[r].due = job[r].due /\ job'[r].served = job[r].served \union {u}
           /\ job'[r].failed = job[r].failed
    BY <1>1, <1>5, SendDigestStep
  <2> QED
    BY <1>1, <1>2, <2>1, <2>2 DEF Solo
<1>6. CASE SendFails(r)
  <2>1. pc[r] = "send"
    BY <1>6 DEF SendFails, At
  <2>2. PICK u \in job[r].letters :
           /\ Solo(r) /\ pc'[r] = pc[r] /\ job'[r].letters = job[r].letters \ {u}
           /\ job'[r].due = job[r].due /\ job'[r].served = job[r].served
           /\ job'[r].failed = job[r].failed \union {u}
    BY <1>1, <1>6, SendFailsStep
  <2> QED
    BY <1>1, <1>2, <2>1, <2>2 DEF Solo
<1>7. CASE Loaded(r) \/ DigestEnds(r)
  <2>1. UNCHANGED job /\ \E place \in {"send", "end"} : GoTo(r, place) /\ (place = "end" => job[r].letters = {})
    BY <1>7 DEF Loaded, DigestEnds
  <2>2. Solo(r) /\ job'[r] = job[r] /\ (pc'[r] # "end" \/ job[r].letters = {})
    BY <1>1, <2>1, Passes, PlacesAre
  <2> QED
    BY <1>1, <1>2, <2>2 DEF Solo
<1> QED
  BY <1>3, <1>4, <1>5, <1>6, <1>7 DEF Digest

LEMMA MailsNext ==
    ASSUME Shapes, TextsKept, Scores, Mails, NEW r \in Runs, Command(r) \/ Abort(r)
    PROVE  Mails'
<1>1. CASE Restarts(r)
  <2>1. Mailing(r)'
    BY <1>1 DEF Restarts, Fresh, Mailing
  <2>2. \A q \in Runs \ {r} : Mailing(q)'
    BY <1>1, KeepsMailing DEF Restarts, Bystander, Mails
  <2> QED
    BY <2>1, <2>2 DEF Mails
<1>2. CASE Solo(r) /\ Proceeds(r) /\ ~Begins(r)
  <2>1. Mailing(r)'
    <3>1. CASE Digest(r)
      BY <3>1, DigestMails DEF Mails
    <3>2. CASE ~Digest(r)
      BY <1>2, <3>2, OwnActions, KeepsMailing DEF Mails, Proceeds, Solo
    <3> QED
      BY <3>1, <3>2
  <2>2. \A q \in Runs \ {r} : Mailing(q)'
    BY <1>2, KeepsMailing DEF Solo, Bystander, Mails
  <2> QED
    BY <2>1, <2>2 DEF Mails
<1> QED
  BY <1>1, <1>2, RunSteps, RunRestarts
-----------------------------------------------------------------------------
(* Drains.                                                                 *)

(* Who is left out of the newest n left n others in.                       *)
LEMMA NewestIsFull ==
    ASSUME TypeOK, NEW n \in Nat, NEW S \in SUBSET Stored, NEW left \in S \ Newest(n, S)
    PROVE  Cardinality(Newest(n, S)) >= n
<1> DEFINE Above(a) == {b \in S : Newer(b, a)}
           Rank(a) == Cardinality(Above(a))
           Rest == S \ Newest(n, S)
<1>1. S \subseteq Articles /\ IsFiniteSet(S) /\ \A a \in S : a \in Nat /\ rows[a].at \in Nat
  <2>1. S \subseteq Articles
    BY DEF Stored
  <2>2. \A a \in S : rows[a] \in Row
    BY DEF TypeOK, Stored
  <2>3. \A a \in S : a \in Nat /\ rows[a].at \in Nat
    BY <2>1, <2>2, NamesAssumption, LimitsAssumption DEF Row
  <2> QED
    BY <2>1, <2>3, NamesAssumption, FS_Subset
<1>2. \A a \in S : IsFiniteSet(Above(a)) /\ Rank(a) \in Nat
  BY <1>1, FS_Subset, FS_CardinalityType
<1>3. \A a, b \in S : Newer(b, a) => Above(b) \subseteq Above(a) /\ b \in Above(a) /\ b \notin Above(b)
  BY <1>1 DEF Newer
<1>4. ASSUME NEW a \in S, NEW b \in S, Newer(b, a) PROVE Rank(b) < Rank(a)
  <2>1. Above(b) \in SUBSET Above(a) /\ Above(b) # Above(a)
    BY <1>3, <1>4
  <2> HIDE DEF Above
  <2>2. Cardinality(Above(b)) <= Cardinality(Above(a)) /\ Cardinality(Above(b)) # Cardinality(Above(a))
    BY <1>2, <2>1, FS_Subset
  <2> QED
    BY <1>2, <2>2
<1>5. \A a \in S : a \in Newest(n, S) <=> Rank(a) < n
  BY DEF Newest
<1>6. PICK a \in Rest : \A b \in Rest : Rank(a) <= Rank(b)
  <2> DEFINE Ranks == {Rank(b) : b \in Rest}
  <2> HIDE DEF Rank
  <2>1. Ranks \subseteq Nat /\ Ranks # {}
    BY <1>2
  <2>2. PICK m \in Ranks : \A k \in Ranks : m <= k
    <3> HIDE DEF Ranks
    <3> QED
      BY <2>1, LeastExists
  <2> QED
    BY <2>2
<1>7. Above(a) \in SUBSET Newest(n, S)
  <2>1. ASSUME NEW b \in Above(a) PROVE b \in Newest(n, S)
    <3>1. b \in S /\ Rank(b) < Rank(a)
      BY <1>4
    <3> HIDE DEF Rank, Above
    <3> QED
      BY <1>2, <1>6, <3>1
  <2> QED
    BY <2>1
<1>8. Rank(a) >= n
  <2>1. a \in S /\ a \notin Newest(n, S)
    BY <1>6
  <2> HIDE DEF Rank, Rest, Above
  <2>2. Rank(a) \in Nat /\ ~(Rank(a) < n)
    BY <1>2, <1>5, <2>1
  <2> QED
    BY <2>2
<1>9. IsFiniteSet(Newest(n, S)) /\ Cardinality(Newest(n, S)) \in Nat
  <2>1. Newest(n, S) \in SUBSET S
    BY DEF Newest
  <2> QED
    BY <1>1, <2>1, FS_Subset, FS_CardinalityType
<1>10. Rank(a) <= Cardinality(Newest(n, S))
  <2> HIDE DEF Above
  <2> QED
    BY <1>7, <1>9, FS_Subset
<1>11. Rank(a) \in Nat
  BY <1>2, <1>6
<1> HIDE DEF Rank, Rest, Above
<1> QED
  BY <1>8, <1>9, <1>10, <1>11

(* A drain that ends has, for each article it leaves pending, a reason.    *)
Drained(r) ==
    At(r, "summarize", "end") =>
        \A a \in job[r].wanted \intersect Pending :
           a \in job[r].failed \/ job[r].limited \/ Cardinality(job[r].failed) >= SummaryBatch

LEMMA PendingShrinks ==
    ASSUME TypeOK, RowSteps, NEW W \in SUBSET Stored
    PROVE  W \intersect Pending' \subseteq W \intersect Pending
BY DEF RowSteps, Older, Pending, Stored

LEMMA KeepsDraining ==
    ASSUME TypeOK, RowSteps, NEW q \in Runs, Draining(q), Drained(q), todo'[q] = todo[q], pc'[q] = pc[q],
           job'[q].work = job[q].work, job'[q].failed = job[q].failed,
           job'[q].count = job[q].count, job'[q].limited = job[q].limited,
           job'[q].wanted \subseteq job[q].wanted, job'[q].wanted \subseteq Stored'
    PROVE  Draining(q)' /\ Drained(q)'
<1>1. job'[q].wanted \intersect Pending' \subseteq job[q].wanted \intersect Pending
  <2> DEFINE W == job[q].wanted
  <2>1. W \in SUBSET Stored /\ job'[q].wanted \subseteq W
    BY DEF Draining
  <2> HIDE DEF W
  <2>2. W \intersect Pending' \subseteq W \intersect Pending
    BY <2>1, PendingShrinks
  <2>3. job'[q].wanted \intersect Pending' \subseteq W \intersect Pending
    BY <2>1, <2>2
  <2> QED
    BY <2>3 DEF W
<1>2. Batch(q)' = Batch(q)
  BY DEF Batch, IdsOfWork
<1>3. Drained(q)'
  <2> DEFINE reason(a) == a \in job[q].failed \/ job[q].limited \/ Cardinality(job[q].failed) >= SummaryBatch
  <2>1. ASSUME At(q, "summarize", "end"), NEW a \in job'[q].wanted \intersect Pending' PROVE reason(a)
    BY <1>1, <2>1 DEF Drained
  <2>2. At(q, "summarize", "end")' => At(q, "summarize", "end")
    BY DEF At
  <2> QED
    BY <2>1, <2>2 DEF Drained
<1>4. ASSUME At(q, "summarize", "summarize"), NEW a \in job'[q].wanted \intersect Pending'
      PROVE  \/ a \in Batch(q)' \/ job'[q].limited \/ job'[q].count > 0
             \/ Cardinality(Batch(q)') >= SummaryBatch
  BY <1>1, <1>2, <1>4 DEF Draining
<1>5. ~Doing(q, {"summarize"})' => job'[q].wanted = {}
  BY DEF Draining, Doing
<1>6. At(q, "summarize", "summarize")' => At(q, "summarize", "summarize")
  BY DEF At
<1>7. Draining(q)'
  BY <1>4, <1>5, <1>6 DEF Draining
<1> QED
  BY <1>3, <1>7
LEMMA NothingWanted ==
    ASSUME NEW r \in Runs, job'[r].wanted = {}
    PROVE  Draining(r)' /\ Drained(r)'
BY DEF Draining, Drained

LEMMA SummarizeTables ==
    ASSUME Shapes, TextsKept, NEW r \in Runs, Summarize(r)
    PROVE  RowSteps /\ Stored \subseteq Stored'
<1>1. ~PruneCommits(r) /\ Command(r)
  BY Heads DEF Prune, Doing, Command
<1> QED
  BY <1>1, RowsStep DEF Stored, RowSteps

LEMMA SelectDrains ==
    ASSUME Shapes, TextsKept, Drains, NEW r \in Runs, SelectArticles(r), Head(todo[r]) = "summarize"
    PROVE  Draining(r)' /\ Drained(r)'
<1> DEFINE chosen == Newest(SummaryBatch, Pending)
           W == job'[r].wanted
<1>1. /\ TypeOK /\ rows' = rows /\ SummaryBatch \in Nat /\ Pending \in SUBSET Stored
      /\ job[r].wanted \subseteq Stored
  BY LimitsAssumption DEF Shapes, SelectArticles, tables, Pending, Drains, Draining
<1>2. /\ todo' = todo /\ pc'[r] = "summarize" /\ Batch(r)' = chosen
      /\ W \in {job[r].wanted, Pending}
  BY SelectArticlesStep DEF Batch, Solo
<1>3. Stored' = Stored /\ Pending' = Pending
  BY <1>1 DEF Stored, Pending
<1>4. ASSUME NEW a \in W \intersect Pending, a \notin chosen
      PROVE  Cardinality(chosen) >= SummaryBatch
  BY <1>1, <1>4, NewestIsFull
<1> HIDE DEF chosen
<1>5. Draining(r)'
  <2>1. Doing(r, {"summarize"})'
    BY <1>2 DEF Doing, SelectArticles, Summarizing
  <2>2. W \subseteq Stored'
    BY <1>1, <1>2, <1>3
  <2>3. \A a \in W \intersect Pending' : a \in Batch(r)' \/ Cardinality(Batch(r)') >= SummaryBatch
    BY <1>2, <1>3, <1>4
  <2> QED
    BY <2>1, <2>2, <2>3 DEF Draining
<1> QED
  BY <1>2, <1>5 DEF Drained, At

LEMMA SummaryDrains ==
    ASSUME Shapes, TextsKept, Drains, NEW r \in Runs, SummarizeArticle(r) \/ SummaryLimited(r),
           Head(todo[r]) = "summarize"
    PROVE  Draining(r)' /\ Drained(r)'
<1>1. TypeOK /\ job[r].wanted \subseteq Stored /\ Stored \subseteq Stored'
  BY SummarizeTables DEF Shapes, Drains, Draining, Summarize
<1>2. /\ Solo(r) /\ pc'[r] = pc[r] /\ job'[r].wanted = job[r].wanted
      /\ job'[r].count > 0 \/ job'[r].limited
  <2>1. CASE SummarizeArticle(r)
    BY <1>1, <2>1, SummarizeArticleStep
  <2>2. CASE SummaryLimited(r)
    BY <1>1, <2>2, SummaryLimitedStep
  <2> QED
    BY <2>1, <2>2
<1>3. todo' = todo /\ pc[r] = "summarize" /\ Doing(r, {"summarize"})'
  BY <1>2 DEF Solo, SummarizeArticle, SummaryLimited, Summarizing, Doing
<1>4. Draining(r)'
  BY <1>1, <1>2, <1>3 DEF Draining
<1> QED
  BY <1>2, <1>3, <1>4 DEF Drained, At

LEMMA FailureDrains ==
    ASSUME Shapes, TextsKept, Drains, NEW r \in Runs, SummaryFails(r), Head(todo[r]) = "summarize"
    PROVE  Draining(r)' /\ Drained(r)'
<1>1. TypeOK /\ rows' = rows /\ pc[r] = "summarize" /\ Doing(r, {"summarize"}) /\ Draining(r)
  BY DEF Shapes, SummaryFails, tables, Drains, Summarizing, Doing
<1>2. PICK item \in job[r].work :
         /\ Solo(r) /\ Same(job[r], job'[r]) /\ pc'[r] = pc[r]
         /\ job'[r].work = job[r].work \ {item} /\ job'[r].failed = job[r].failed \union {item.id}
  BY <1>1, SummaryFailsStep
<1>3. Batch(r)' = Batch(r)
  BY <1>2 DEF Batch, IdsOfWork
<1>4. Stored' = Stored /\ Pending' = Pending
  BY <1>1 DEF Stored, Pending
<1>5. /\ todo' = todo /\ pc' [r] = pc[r] /\ job'[r].wanted = job[r].wanted
      /\ job'[r].count = job[r].count /\ job'[r].limited = job[r].limited
  BY <1>2 DEF Solo, Same, SameDrain
<1>6. Draining(r)'
  BY <1>1, <1>3, <1>4, <1>5 DEF Draining, At, Doing
<1> QED
  BY <1>1, <1>5, <1>6 DEF Drained, At

LEMMA EndDrains ==
    ASSUME Shapes, TextsKept, Drains, NEW r \in Runs, BatchEnds(r), Head(todo[r]) = "summarize"
    PROVE  Draining(r)' /\ Drained(r)'
<1> DEFINE next == IF job[r].count > 0 THEN "start" ELSE "end"
<1>1. /\ TypeOK /\ rows' = rows /\ job' = job /\ todo' = todo /\ At(r, "summarize", "summarize")
      /\ job[r].work = {} /\ job[r].count \in Nat /\ Draining(r) /\ GoTo(r, next)
  BY DEF Shapes, TypeOK, Job, BatchEnds, tables, Drains, Summarizing, At, GoTo
<1>2. pc'[r] = next
  BY <1>1 DEF GoTo, TypeOK
<1>3. Stored' = Stored /\ Pending' = Pending
  BY <1>1 DEF Stored, Pending
<1>4. Batch(r) = job[r].failed
  BY <1>1 DEF Batch, IdsOfWork
<1>5. job[r].count = 0 => \A a \in job[r].wanted \intersect Pending :
         a \in job[r].failed \/ job[r].limited \/ Cardinality(job[r].failed) >= SummaryBatch
  BY <1>1, <1>4 DEF Draining
<1>6. Drained(r)'
  BY <1>1, <1>2, <1>3, <1>5 DEF Drained, At
<1>7. Draining(r)'
  BY <1>1, <1>2, <1>3 DEF Draining, At, Doing
<1> QED
  BY <1>6, <1>7

LEMMA OthersDrain ==
    ASSUME Shapes, TextsKept, Drains, NEW r \in Runs, Command(r) \/ Abort(r),
           NEW q \in Runs \ {r}, Bystander(q)
    PROVE  Draining(q)' /\ Drained(q)'
<1>1. /\ TypeOK /\ RowSteps /\ Draining(q) /\ Drained(q) /\ job[q].wanted \subseteq Stored
      /\ PruneCommits(r) \/ \A a \in Articles : rows[a] # None => rows'[a] # None
  BY RowsStep DEF Shapes, Drains, Draining, DrainEndsForAReason, Drained
<1>2. job'[q].wanted \subseteq Stored'
  <2>1. CASE PruneCommits(r)
    <3>1. job'[q].wanted = job[q].wanted \ job[r].doomed
      BY <1>1, <2>1, PruneCommitsStep
    <3>2. \A a \in Stored \ job[r].doomed : rows'[a] = rows[a]
      BY <2>1, RowsPruned DEF Stored
    <3> QED
      BY <1>1, <3>1, <3>2 DEF Stored
  <2>2. CASE ~PruneCommits(r)
    BY <1>1, <2>2 DEF Stored, Bystander
  <2> QED
    BY <2>1, <2>2
<1> QED
  BY <1>1, <1>2, KeepsDraining DEF Bystander

LEMMA DrainsNext ==
    ASSUME Shapes, TextsKept, Scores, Drains, NEW r \in Runs, Command(r) \/ Abort(r)
    PROVE  Drains'
<1>1. Draining(r)' /\ Drained(r)'
  <2>1. CASE Restarts(r)
    BY <2>1, NothingWanted DEF Restarts, Fresh
  <2>2. CASE Solo(r) /\ Proceeds(r) /\ ~Doing(r, {"summarize"})
    BY <2>2, NothingWanted DEF Proceeds, Drains, Draining
  <2>3. CASE Doing(r, {"summarize"}) /\ ~Begins(r)
    <3>1. Summarize(r) /\ Head(todo[r]) = "summarize"
      BY <2>3, OwnActions DEF Doing
    <3> QED
      BY <3>1, SelectDrains, SummaryDrains, FailureDrains, EndDrains DEF Summarize
  <2> QED
    BY <2>1, <2>2, <2>3, RunSteps, RunRestarts
<1>2. \A q \in Runs \ {r} : Draining(q)' /\ Drained(q)'
  BY RunSteps, OthersDrain DEF Restarts, Solo
<1> QED
  BY <1>1, <1>2 DEF Drains, DrainEndsForAReason, Drained
-----------------------------------------------------------------------------
(* Prunes.                                                                 *)

LEMMA LeftIsFinite ==
    ASSUME NEW r \in Runs
    PROVE  /\ Left(r) \subseteq Articles /\ IsFiniteSet(Left(r)) /\ Cardinality(Left(r)) \in Nat
           /\ Cap \in Nat
<1>1. Left(r) \in SUBSET Articles /\ Cap \in Nat
  BY LimitsAssumption DEF Left, Stored
<1> QED
  BY <1>1, NamesAssumption, FS_Subset, FS_CardinalityType

(* What disturbs a prune says so.                                          *)
LEMMA WriteDisturbs ==
    ASSUME TypeOK, NEW r \in Runs, WriteArticle(r), NEW q \in Runs \ {r}, Doing(q, {"prune"})
    PROVE  rows' = rows \/ job'[q].disturbed
<1>1. PICK item \in job[r].work :
         \/ rows' = rows
         \/ job' = [p \in Runs |->
                       IF p = r THEN [job[p] EXCEPT !.work = @ \ {item}, !.seen = @ \union {item.id}]
                       ELSE [job[p] EXCEPT !.disturbed = @ \/ At(p, "prune", pc[p])]]
  BY DEF WriteArticle
<1>2. CASE rows' # rows
  <2>1. job'[q] = [job[q] EXCEPT !.disturbed = @ \/ At(q, "prune", pc[q])]
    BY <1>1, <1>2
  <2>2. At(q, "prune", pc[q]) /\ job[q] \in Job
    BY DEF Doing, At, TypeOK
  <2> QED
    BY <2>1, <2>2 DEF Job
<1> QED
  BY <1>2

LEMMA KeepsPruning ==
    ASSUME NEW q \in Runs, Pruning(q), todo'[q] = todo[q], pc'[q] = pc[q],
           job'[q].doomed = job[q].doomed, job'[q].oldest = job[q].oldest,
           job'[q].excess = job[q].excess, job[q].disturbed => job'[q].disturbed,
           job'[q].rowsLeft \subseteq job[q].rowsLeft,
           Doing(q, {"prune"}) /\ ~job'[q].disturbed => job'[q].rowsLeft = job[q].rowsLeft,
           \/ \A a \in Articles : Aging(a)
           \/ ~Doing(q, {"prune"})
           \/ job'[q].disturbed
    PROVE  Pruning(q)'
<1>1. \A place : At(q, "prune", place)' <=> At(q, "prune", place)
  BY DEF At
<1>2. CASE ~Doing(q, {"prune"}) \/ job'[q].disturbed
  BY <1>1, <1>2 DEF Pruning, At, Doing
<1>3. CASE (\A a \in Articles : Aging(a)) /\ Doing(q, {"prune"}) /\ ~job'[q].disturbed
  <2>1. Stored' = Stored /\ Left(q)' = Left(q) /\ \A a \in Stored : rows'[a].at = rows[a].at
    BY <1>3 DEF Left, Stored, Aging
  <2>2. Before(q)' = Before(q)
    BY <2>1 DEF Before
  <2>3. CapMet(q) => CapMet(q)'
    <3>1. CASE Cardinality(Before(q)) <= Cap /\ job[q].oldest = {}
      BY <2>2, <3>1 DEF CapMet
    <3>2. CASE /\ Cardinality(Before(q)) > Cap /\ job[q].oldest \subseteq Stored
               /\ Cardinality(job[q].oldest) = Cardinality(Before(q)) - Cap
               /\ \A a \in job[q].oldest, b \in Before(q) \ job[q].oldest : rows[a].at <= rows[b].at
      <4>1. Before(q) \subseteq Stored
        BY <3>2 DEF Before, Left
      <4>2. \A a \in job[q].oldest, b \in Before(q) \ job[q].oldest : rows'[a].at <= rows'[b].at
        BY <2>1, <3>2, <4>1
      <4> QED
        BY <2>1, <2>2, <3>2, <4>2 DEF CapMet
    <3> QED
      BY <3>1, <3>2 DEF CapMet
  <2>4. AllTaken(q)' <=> AllTaken(q)
    BY <1>3 DEF AllTaken
  <2> QED
    BY <1>1, <1>3, <2>1, <2>3, <2>4 DEF Pruning
<1> QED
  BY <1>2, <1>3

(* A row is deleted: of the last statement's, one chosen for the cap.      *)
LEMMA DeletePrunes ==
    ASSUME TypeOK, Prunes, NEW r \in Runs, DeleteRow(r)
    PROVE  Pruning(r)'
<1> DEFINE Deletes(a, gone) ==
              /\ Solo(r) /\ pc'[r] = pc[r] /\ job'[r].oldest = job[r].oldest
              /\ job'[r].disturbed = job[r].disturbed
              /\ job'[r].rowsLeft = job[r].rowsLeft \ {a}
              /\ job'[r].doomed = job[r].doomed \union gone
              /\ pc[r] = "commit" => gone = {a}
<1>1. PICK a \in job[r].rowsLeft : \E gone \in SUBSET {a} : Deletes(a, gone)
  BY DeleteRowStep
<1>2. PICK gone \in SUBSET {a} : Deletes(a, gone)
  BY <1>1
<1>3. /\ rows' = rows /\ todo' = todo /\ todo[r] # <<>> /\ Head(todo[r]) = "prune" /\ Pruning(r)
      /\ Stored' = Stored
  BY DEF DeleteRow, tables, At, Prunes, Stored
<1>4. pc[r] \notin {"oldest", "cap"}
  BY <1>3 DEF Pruning, At
<1>5. CASE pc[r] # "commit"
  BY <1>2, <1>3, <1>4, <1>5 DEF Pruning, At
<1>6. CASE pc[r] = "commit"
  <2>1. job[r].rowsLeft \subseteq job[r].oldest /\ (~job[r].disturbed => CapMet(r) /\ AllTaken(r))
    BY <1>3, <1>6 DEF Pruning, At
  <2>2. Before(r)' = Before(r)
    BY <1>2, <1>3, <1>6, <2>1 DEF Before, Left
  <2>3. CapMet(r) => CapMet(r)'
    BY <1>2, <1>3, <2>2 DEF CapMet
  <2>4. AllTaken(r) => AllTaken(r)'
    BY <1>2, <1>6 DEF AllTaken
  <2> QED
    BY <1>2, <1>3, <1>6, <2>1, <2>3, <2>4 DEF Pruning, At
<1> QED
  BY <1>5, <1>6

LEMMA CountPrunes ==
    ASSUME TypeOK, Prunes, NEW r \in Runs, CountRows(r)
    PROVE  Pruning(r)'
<1> DEFINE n == Cardinality(Left(r))
<1>1. /\ pc'[r] = (IF n - Cap > 0 THEN "oldest" ELSE "commit")
      /\ job'[r].doomed = job[r].doomed /\ job'[r].oldest = job[r].oldest
      /\ job'[r].rowsLeft = job[r].rowsLeft
      /\ job'[r].excess = IF n - Cap > 0 THEN n - Cap ELSE 0
  BY CountRowsStep
<1>2. n \in Nat /\ Cap \in Nat
  BY LeftIsFinite
<1>3. rows' = rows /\ job[r].oldest = {} /\ job[r].rowsLeft = {}
  BY DEF CountRows, Deleted, tables, Prunes, Pruning
<1>4. Left(r)' = Left(r) /\ Before(r)' = Left(r)
  BY <1>1, <1>3 DEF Left, Stored, Before
<1>5. Cardinality(Left(r)') = n /\ Cardinality(Before(r)') = n
  BY <1>4
<1> HIDE DEF n
<1>6. CASE n - Cap > 0
  <2>1. pc'[r] = "oldest" /\ n > Cap /\ job'[r].excess = n - Cap
    BY <1>1, <1>2, <1>6
  <2> QED
    BY <1>1, <1>3, <1>5, <2>1 DEF Pruning, At
<1>7. CASE ~(n - Cap > 0)
  <2>1. pc'[r] = "commit" /\ n <= Cap
    BY <1>1, <1>2, <1>7
  <2> QED
    BY <1>1, <1>3, <1>5, <2>1 DEF Pruning, At, CapMet, AllTaken
<1> QED
  BY <1>6, <1>7

LEMMA ReadPrunes ==
    ASSUME TypeOK, Prunes, NEW r \in Runs, ReadOldest(r)
    PROVE  Pruning(r)'
<1>1. PICK T \in SUBSET Left(r) :
         /\ pc'[r] = "cap" /\ job'[r].doomed = job[r].doomed /\ job'[r].oldest = T
         /\ job'[r].disturbed = job[r].disturbed /\ job'[r].rowsLeft = job[r].rowsLeft
         /\ Cardinality(T) <= job[r].excess /\ (T = Left(r) \/ Cardinality(T) = job[r].excess)
         /\ \A a \in T, b \in Left(r) \ T : rows[a].at <= rows[b].at
  BY ReadOldestStep
<1>2. /\ rows' = rows /\ job[r].rowsLeft = {}
      /\ ~job[r].disturbed => Cardinality(Left(r)) > Cap /\ job[r].excess = Cardinality(Left(r)) - Cap
  BY DEF ReadOldest, tables, Prunes, Pruning
<1>3. Stored' = Stored /\ Left(r)' = Left(r) /\ Before(r)' = Left(r) /\ T \subseteq Stored
  BY <1>1, <1>2 DEF Left, Stored, Before
<1>4. ASSUME ~job[r].disturbed
      PROVE  Cardinality(Left(r)) > Cap /\ Cardinality(T) = Cardinality(Left(r)) - Cap
  BY <1>1, <1>2, <1>4, LeftIsFinite
<1>5. ~job'[r].disturbed => CapMet(r)'
  BY <1>1, <1>2, <1>3, <1>4 DEF CapMet
<1> QED
  BY <1>1, <1>2, <1>5 DEF Pruning, At

LEMMA StatementPrunes ==
    ASSUME TypeOK, Prunes, NEW r \in Runs, PruneAged(r) \/ PruneIrrelevant(r) \/ PruneOldest(r)
    PROVE  Pruning(r)'
<1>1. CASE PruneAged(r)
  <2>1. pc'[r] = "age" /\ job'[r].oldest = job[r].oldest
    BY <1>1, PruneBegins
  <2>2. job[r].oldest = {}
    BY <1>1 DEF PruneAged, Prunes, Pruning
  <2> QED
    BY <2>1, <2>2 DEF Pruning, At
<1>2. CASE PruneIrrelevant(r)
  <2>1. pc'[r] = "relevance" /\ job'[r].oldest = job[r].oldest
    BY <1>2, StatementStep
  <2>2. job[r].oldest = {}
    BY <1>2 DEF PruneIrrelevant, Prunes, Pruning
  <2> QED
    BY <2>1, <2>2 DEF Pruning, At
<1>3. CASE PruneOldest(r)
  <2>1. /\ pc'[r] = "commit" /\ job'[r].oldest = job[r].oldest /\ job'[r].doomed = job[r].doomed
        /\ job'[r].disturbed = job[r].disturbed /\ job'[r].rowsLeft = job[r].oldest \intersect Left(r)
    BY <1>3, StatementStep
  <2>2. rows' = rows /\ Stored' = Stored /\ (~job[r].disturbed => CapMet(r))
    BY <1>3 DEF PruneOldest, tables, Stored, Prunes, Pruning
  <2>3. Before(r)' = Before(r)
    BY <2>1, <2>2 DEF Before, Left
  <2>4. CapMet(r) => CapMet(r)' /\ AllTaken(r)'
    <3>1. CapMet(r) => job[r].oldest \subseteq Stored
      BY DEF CapMet
    <3> QED
      BY <2>1, <2>2, <2>3, <3>1 DEF CapMet, AllTaken, Left
  <2> QED
    BY <2>1, <2>2, <2>4 DEF Pruning, At
<1> QED
  BY <1>1, <1>2, <1>3

LEMMA PrunesNext ==
    ASSUME Shapes, TextsKept, Scores, Prunes, NEW r \in Runs, Command(r) \/ Abort(r)
    PROVE  Prunes'
<1>1. Pruning(r)'
  <2>1. CASE Restarts(r)
    BY <2>1 DEF Restarts, Fresh, Pruning, At
  <2>2. CASE Solo(r) /\ ~Doing(r, {"prune"})
    BY <2>2 DEF Solo, Doing, Pruning, At
  <2>3. CASE Doing(r, {"prune"}) /\ ~Begins(r)
    <3>1. (Prune(r) \/ DeleteScoreRow(r)) /\ TypeOK
      BY <2>3, OwnActions DEF Shapes
    <3>2. CASE DeleteScoreRow(r)
      <4>1. SamePrune(job[r], job'[r]) /\ pc'[r] = pc[r] /\ Solo(r)
        BY <3>1, <3>2, DeleteScoreRowStep DEF SameBeside
      <4>2. rows' = rows /\ Pruning(r)
        BY <3>2 DEF DeleteScoreRow, tables, Prunes
      <4> QED
        BY <4>1, <4>2, KeepsPruning DEF SamePrune, Solo, Aging
    <3>3. CASE PruneCommits(r)
      <4>1. pc'[r] = "end"
        BY <3>1, <3>3, PruneCommitsStep
      <4> QED
        BY <4>1 DEF Pruning, At
    <3> QED
      BY <3>1, <3>2, <3>3, DeletePrunes, CountPrunes, ReadPrunes, StatementPrunes DEF Prune
  <2> QED
    BY <2>1, <2>2, <2>3, RunSteps, RunRestarts
<1>2. ASSUME NEW q \in Runs \ {r} PROVE Pruning(q)'
  <2>1. Bystander(q) /\ Pruning(q) /\ TypeOK
    BY RunSteps DEF Restarts, Solo, Prunes, Shapes
  <2>2. (\A a \in Articles : Aging(a)) \/ ~Doing(q, {"prune"}) \/ job'[q].disturbed
    <3>1. rows' = rows => \A a \in Articles : Aging(a)
      BY DEF Aging
    <3> QED
      BY <2>1, <3>1, RowsStep, WriteDisturbs, PruneCommitsStep
  <2> QED
    BY <2>1, <2>2, KeepsPruning DEF Bystander
<1> QED
  BY <1>1, <1>2 DEF Prunes

(* What a prune that no other run has disturbed leaves.                    *)
LEMMA QuietPrune ==
    ASSUME Shapes, TextsKept, Prunes, NEW r \in Runs, PruneCommits(r), ~job[r].disturbed
    PROVE  LET forCap == job[r].doomed \intersect job[r].oldest
           IN  /\ Cardinality(Stored') <= Cap
               /\ forCap # {} => Cardinality(Stored') = Cap
               /\ \A a \in forCap, b \in Stored' : rows[a].at <= rows[b].at
<1> DEFINE O == job[r].oldest
           B == Before(r)
<1>1. CapMet(r) /\ O \subseteq job[r].doomed
  BY DEF Prunes, Pruning, PruneCommits, Deleted, AllTaken
<1>2. Stored' = B \ O
  <2>1. \A a \in Articles : IF a \in job[r].doomed THEN rows'[a] = None ELSE rows'[a] = rows[a]
    BY RowsPruned
  <2> QED
    BY <1>1, <2>1 DEF Stored, Left, Before
<1>3. job[r].doomed \intersect O = O
  BY <1>1
<1>4. O \subseteq B /\ Cap \in Nat
  BY LeftIsFinite DEF Before
<1>5. CASE Cardinality(B) <= Cap /\ O = {}
  BY <1>2, <1>5
<1>6. CASE /\ Cardinality(B) > Cap /\ O \subseteq Stored /\ Cardinality(O) = Cardinality(B) - Cap
           /\ \A a \in O, b \in B \ O : rows[a].at <= rows[b].at
  <2>1. IsFiniteSet(B) /\ Cardinality(B) \in Nat
    <3>1. B \in SUBSET Articles
      BY <1>6 DEF Before, Left, Stored
    <3> QED
      BY <3>1, NamesAssumption, FS_Subset, FS_CardinalityType
  <2>2. Cardinality(Stored') = Cardinality(B) - Cardinality(O)
    <3> HIDE DEF B, O
    <3>1. Cardinality(B \ O) = Cardinality(B) - Cardinality(B \intersect O) /\ B \intersect O = O
      BY <1>4, <2>1, FS_Difference
    <3> QED
      BY <1>2, <3>1
  <2>3. Cardinality(Stored') = Cap
    BY <1>4, <1>6, <2>1, <2>2
  <2> QED
    BY <1>2, <1>4, <1>6, <2>3
<1> QED
  BY <1>1, <1>5, <1>6 DEF CapMet
-----------------------------------------------------------------------------
(* The invariant.                                                          *)

LEMMA InitHolds == Init => IInv
<1> SUFFICES ASSUME Init PROVE IInv
  OBVIOUS
<1>1. /\ MaxDays \in Nat /\ MaxEdits \in Nat /\ MaxFaults \in Nat /\ TopK \in Nat
      /\ 0 \in 0..MaxDays /\ 0 \in 0..MaxEdits /\ 0 \in 0..MaxFaults
  BY LimitsAssumption
<1>2. /\ job \in [Runs -> Job] /\ \A r \in Runs : job[r] = Fresh /\ pc[r] = "start"
      /\ pc \in [Runs -> Places] /\ todo \in [Runs -> Seq(Commands)]
  BY FreshJob, NamesAssumption DEF Init, Places
<1>3. Stored = {} /\ score = {}
  BY DEF Init, Stored
<1>4. TypeOK
  BY <1>1, <1>2 DEF Init, TypeOK
<1>5. Shapes
  <2>1. Versions
    BY <1>1 DEF Init, Versions
  <2>2. \A r \in Runs : IdsOfWork(r) = {}
    BY <1>2 DEF IdsOfWork, Fresh
  <2> QED
    BY <1>4, <2>1, <2>2 DEF Shapes, Fits
<1>6. TextsKept
  <2>1. MadeFromItsOwnText
    BY <1>3 DEF Init, MadeFromItsOwnText
  <2> QED
    BY <1>2, <2>1 DEF TextsKept, Owned, Fresh
<1>7. Scores
  <2>1. \A u \in Users : Cardinality(ScoresOf(u)) <= TopK
    <3>1. \A u \in Users : ScoresOf(u) = {}
      BY <1>3 DEF ScoresOf
    <3> QED
      BY <1>1, <3>1, FS_EmptySet
  <2>2. None \notin Users
    BY NamesAssumption, NoneAssumption
  <2>3. \A r \in Runs : /\ job[r].user = None /\ pc[r] = "start" /\ job[r].written = {}
                        /\ job[r].removed = {} /\ job[r].doomed = {}
    BY <1>2 DEF Fresh
  <2>4. Locks
    BY <1>3, <2>3 DEF Locks, Locking, Apart, KeepsScores, Shares
  <2> QED
    BY <1>3, <2>1, <2>2, <2>3, <2>4 DEF Scores, ScoresHold, Alone, Scoring, At
<1>8. Mails
  BY <1>2 DEF Mails, Mailing, Fresh, At
<1>9. Drains
  BY <1>2 DEF Drains, DrainEndsForAReason, Draining, Fresh, At
<1>10. Prunes
  BY <1>2 DEF Prunes, Pruning, Fresh, At
<1> QED
  BY <1>5, <1>6, <1>7, <1>8, <1>9, <1>10 DEF IInv

LEMMA AtRest ==
    ASSUME IInv, UNCHANGED <<rows, score, todo, pc, job, mixed>>
    PROVE  Scores' /\ Mails' /\ Drains' /\ Prunes'
<1>1. Stored' = Stored /\ Pending' = Pending
  BY DEF Stored, Pending
<1>2. Scores'
  <2>1. ScoresHold' /\ Alone' /\ \A r \in Runs : Scoring(r)'
    BY <1>1 DEF IInv, Scores, ScoresHold, ScoresOf, Alone, Scoring, At
  <2>2. Locks'
    BY <1>1 DEF IInv, Scores, Locks, Locking, Apart, KeepsScores, Shares, InHand, At, Doing
  <2> QED
    BY <2>1, <2>2 DEF Scores
<1>3. Mails'
  BY DEF IInv, Mails, Mailing, At, Doing
<1>4. Drains'
  BY <1>1 DEF IInv, Drains, DrainEndsForAReason, Draining, Batch, IdsOfWork, At, Doing
<1>5. Prunes'
  BY <1>1 DEF IInv, Prunes, Pruning, CapMet, AllTaken, Before, Left, At
<1> QED
  BY <1>2, <1>3, <1>4, <1>5

LEMMA StepHolds == IInv /\ [Next]_vars => IInv'
<1> SUFFICES ASSUME IInv, [Next]_vars PROVE IInv'
  OBVIOUS
<1>1. ASSUME NEW r \in Runs, Command(r) \/ Abort(r) PROVE IInv'
  <2>1. Shapes /\ TextsKept /\ Scores /\ Mails /\ Drains /\ Prunes
    BY DEF IInv
  <2>2. Shapes' /\ TextsKept'
    BY <1>1, <2>1, ShapesNext
  <2>3. Scores' /\ Mails' /\ Drains' /\ Prunes'
    BY <1>1, <2>1, <2>2, ScoresNext, MailsNext, DrainsNext, PrunesNext
  <2> QED
    BY <2>2, <2>3 DEF IInv
<1>2. CASE NewDay \/ Edit
  <2>1. Shapes' /\ TextsKept'
    BY <1>2, WorldShapes DEF IInv
  <2> QED
    BY <1>2, <2>1, AtRest, WorldKeeps DEF IInv
<1>3. CASE UNCHANGED vars
  <2>1. UNCHANGED <<rows, score, todo, pc, job, mixed>> /\ Stored' = Stored
    BY <1>3 DEF vars, tables, Stored
  <2>2. TypeOK'
    BY <1>3 DEF IInv, Shapes, TypeOK, vars, tables, outside
  <2>3. Versions' /\ \A r \in Runs : Fits(r)'
    BY <1>3 DEF IInv, Shapes, Versions, Fits, Doing, IdsOfWork, vars, outside
  <2>4. TextsKept'
    BY <1>3, <2>1 DEF IInv, TextsKept, MadeFromItsOwnText, Owned, Doing, vars, tables
  <2> QED
    BY <2>1, <2>2, <2>3, <2>4, AtRest DEF IInv, Shapes
<1> QED
  BY <1>1, <1>2, <1>3 DEF Next

LEMMA IInvHolds == Spec => []IInv
BY InitHolds, StepHolds, PTL DEF Spec

-----------------------------------------------------------------------------
(* Every variable has its type, and the texts of users have their owners,  *)
(* in every reachable state.                                               *)
THEOREM TypesHold == Spec => []TypeOK
<1>1. IInv => TypeOK
  BY DEF IInv, Shapes
<1> QED
  BY <1>1, IInvHolds, PTL

(* However summarize, embed-articles and ingest interleave, a summary and  *)
(* an embedding are of a text their article row has had, and a profile's   *)
(* vector of exactly the text its source_hash names.                       *)
THEOREM AnswersAreOfTheirOwnTexts == Spec => []MadeFromItsOwnText
<1>1. IInv => MadeFromItsOwnText
  BY DEF IInv, TextsKept
<1> QED
  BY <1>1, IInvHolds, PTL

(* A drain of run_summarize_worker that ends has summarized all that was   *)
(* pending at its start, but for articles whose own call failed in the     *)
(* last batch, or a whole batch that failed, or a rate limit.              *)
THEOREM DrainsEndForAReason == Spec => []DrainEndsForAReason
<1>1. IInv => DrainEndsForAReason
  BY DEF IInv, Drains
<1> QED
  BY <1>1, IInvHolds, PTL

(* A score names a stored article, whatever is pruned between its ranking  *)
(* and its insert, and a user whose scores no two runs replaced at the     *)
(* same time has at most EMBED_TOP_K.                                      *)
THEOREM ScoresAreBounded == Spec => []ScoresHold
<1>1. IInv => ScoresHold
  BY DEF IInv, Scores
<1> QED
  BY <1>1, IInvHolds, PTL

(* A run of deliver_all that ends has mailed every user with a digest      *)
(* whose own send did not fail.                                            *)
THEOREM EveryDigestIsSent == Spec => []DigestsReachEveryone
<1>1. IInv => DigestsReachEveryone
  <2>1. ASSUME Mails, NEW r \in Runs, At(r, "digest", "end")
        PROVE  job[r].due \ job[r].served \subseteq job[r].failed
    <3>1. Doing(r, {"digest"}) /\ Mailing(r)
      BY <2>1 DEF Mails, At, Doing
    <3> QED
      BY <2>1, <3>1 DEF Mailing
  <2> QED
    BY <2>1 DEF IInv, DigestsReachEveryone
<1> QED
  BY <1>1, IInvHolds, PTL

(* A prune that no other run has disturbed between its statements leaves   *)
(* at most RETENTION_MAX_ARTICLES rows, deletes for that cap no more than  *)
(* it must, and none that is newer than one it keeps.                      *)
THEOREM QuietPrunesMeetTheCap == Spec => QuietPruneMeetsTheCap
<1>1. ASSUME IInv
      PROVE  \A r \in Runs : PruneCommits(r) /\ ~job[r].disturbed =>
                LET forCap == job[r].doomed \intersect job[r].oldest
                IN  /\ Cardinality(Stored') <= Cap
                    /\ forCap # {} => Cardinality(Stored') = Cap
                    /\ \A a \in forCap, b \in Stored' : rows[a].at <= rows[b].at
  BY <1>1, QuietPrune DEF IInv
<1> QED
  BY <1>1, IInvHolds, PTL DEF QuietPruneMeetsTheCap
=============================================================================
