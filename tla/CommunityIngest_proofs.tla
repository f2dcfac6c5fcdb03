----------------------- MODULE CommunityIngest_proofs -----------------------
(***************************************************************************)
(* Proofs about CommunityIngest, for any sources, posts, limits, workers   *)
(* and retries: types, what a tick covers, why a stuck job is stuck, what  *)
(* a done job counts, and that paging skips nothing.                       *)
(***************************************************************************)
EXTENDS CommunityIngest, QueueLemmas, FiniteSetTheorems

(* The INGEST queue and the workers at it.                                 *)
Busy == {w \in Workers : wPc[w] # "idle"}
QueueHolds == /\ QueueOK(Jobs, published, waiting, inflight, Workers, Busy, wMsg)
              /\ dead \in Seq(Messages(Jobs))
Shapes == TypeOK /\ QueueHolds

-----------------------------------------------------------------------------
(* The scheduler.  A source that is due has not been sent in this tick,    *)
(* and only the current one may have its row; the others are served.       *)
Created(j) == row[j] # None
Dangling(t) == {s \in Sources : Created(<<t, s>>) /\ ~Sent(<<t, s>>)}
Served(t, s) == Created(<<t, s>>) /\ Sent(<<t, s>>)

Ticking ==
    schPc # "sleep" =>
        /\ tick \in 1 .. MaxTicks /\ tick \notin cut
        /\ \A s \in due : ~Sent(<<tick, s>>)
        /\ \A s \in due : Created(<<tick, s>>) <=> schPc = "publish" /\ s = Current[2]
        /\ \A s \in Sources \ due : Served(tick, s)
Ticked ==
    /\ schPc = "sleep" => due = {}
    /\ schPc = "publish" => due # {}
    /\ cut \subseteq 1 .. tick
    /\ \A j \in Jobs : Created(j) => j[1] <= tick
    /\ \A j \in Jobs : Sent(j) => Created(j)
    /\ \A t \in 1 .. tick : (t < tick \/ schPc = "sleep") /\ t \notin cut =>
          \A s \in Sources : Served(t, s)
    /\ \A t \in 1 .. tick : \A r, s \in Dangling(t) : r = s
Schedule == Ticking /\ Ticked

-----------------------------------------------------------------------------
(* A worker about to settle has an answer on record, or a reason for none. *)
Answered(w) ==
    /\ wPc[w] = "ack" => Terminal(JobOf(w))
    /\ wPc[w] = "failed" => Terminal(JobOf(w)) \/ JobOf(w) \in unmarked \/ ~Supported(JobOf(w))
Answers == StuckIngestIsExplained /\ \A w \in Workers : Answered(w)

(* What a worker counts is what its sink has written.                      *)
Counted(w) ==
    /\ wSeen[w] \subseteq articles /\ wCount[w] = Cardinality(wSeen[w])
    /\ wPc[w] = "write" =>
          wFound[w] # <<>> /\ Head(wFound[w]) \in raw /\ Head(wFound[w]) \notin wSeen[w]
Outcome == [had : SUBSET Posts, saved : SUBSET Posts, missed : SUBSET Posts, flaws : SUBSET Flaws]
Recorded == outcome \in [Jobs -> Outcome \union {None}]
Counts == Recorded /\ DoneCountsArticles /\ \A w \in Workers : Counted(w)

(* Paging.  A post the scrape still owes is one it has neither found nor   *)
(* missed.  It is in the rest of the page, or further down the archive     *)
(* than anything served, where the offset is not beyond it.                *)
Items(s) == {s[i] : i \in 1 .. Len(s)}
Found(w) == Items(wFound[w]) \union wSeen[w]
Owing(w) == wHad[w] \ (Found(w) \union wMissed[w])
Beyond(w) == {archive[i] : i \in {k \in 1 .. Len(archive) : k > wOffset[w]}}

Descends(s) == \A i, k \in 1 .. Len(s) : i < k => s[i] > s[k]
Archived == Descends(archive) /\ \A i \in 1 .. Len(archive) : archive[i] <= newest

Scraping(w) == wPc[w] \in {"page", "items", "last", "persist", "write"}
Ahead(w) ==
    /\ wPc[w] = "page" => Owing(w) \subseteq Beyond(w)
    /\ wPc[w] = "items" => Owing(w) \subseteq Items(wPage[w]) \union Beyond(w)
    /\ wPc[w] = "last" => Owing(w) \subseteq Items(wPage[w])
    /\ wPc[w] \in {"persist", "write"} => Owing(w) = {} \/ wFlaws[w] \intersect {"limit", "envelope"} # {}
Ordered(w) ==
    /\ \A p \in Owing(w), q \in wHad[w] \intersect Found(w) : p < q
    /\ Serving(w) => \A p \in Owing(w) \ Items(wPage[w]), x \in Items(wPage[w]) : p < x
Paged(w) ==
    /\ wPc[w] \in {"idle", "mark"} =>
          wOffset[w] = 0 /\ wFound[w] = <<>> /\ wSeen[w] = {} /\ wFlaws[w] = {}
    /\ \A p \in wHad[w] : Readable(p)
    /\ Serving(w) => wPage[w] # <<>> /\ Descends(wPage[w])
    /\ Scraping(w) /\ "deletion" \notin wFlaws[w] => Ahead(w) /\ Ordered(w)
Pages == NothingSkipped /\ Archived /\ \A w \in Workers : Paged(w)

IInv == Shapes /\ Schedule /\ Answers /\ Counts /\ Pages
-----------------------------------------------------------------------------
(* Sequences: what is in one, and in what order.                           *)

LEMMA ItemsOf ==
    ASSUME NEW S, NEW s \in Seq(S)
    PROVE  Items(s) \subseteq S /\ Len(s) \in Nat /\ \A i \in 1 .. Len(s) : s[i] \in S
<1>1. Len(s) \in Nat /\ \A i \in 1 .. Len(s) : s[i] \in S
  BY LenProperties, ElementOfSeq
<1> QED
  BY <1>1 DEF Items

LEMMA ItemsAppended ==
    ASSUME NEW S, NEW s \in Seq(S), NEW x \in S
    PROVE  Items(Append(s, x)) = Items(s) \union {x}
<1>1. /\ Append(s, x) \in Seq(S) /\ Len(s) \in Nat /\ Len(Append(s, x)) = Len(s) + 1
      /\ (\A k \in 1 .. Len(s) : k \in 1 .. Len(s) + 1 /\ Append(s, x)[k] = s[k])
      /\ Len(s) + 1 \in 1 .. Len(s) + 1 /\ Append(s, x)[Len(s) + 1] = x
      /\ \A k \in 1 .. Len(s) + 1 : k \in 1 .. Len(s) \/ k = Len(s) + 1
  BY Appended
<1> QED
  BY <1>1 DEF Items

LEMMA ItemsBeheaded ==
    ASSUME NEW S, NEW s \in Seq(S), s # <<>>
    PROVE  Head(s) \in Items(s) /\ Items(s) = {Head(s)} \union Items(Tail(s))
<1>1. /\ Head(s) = s[1] /\ 1 \in 1 .. Len(s) /\ Len(Tail(s)) = Len(s) - 1
      /\ \A k \in 1 .. Len(s) - 1 : k + 1 \in 1 .. Len(s) /\ k + 1 # 1 /\ Tail(s)[k] = s[k + 1]
      /\ \A k \in 1 .. Len(s) : k = 1 \/ (k - 1 \in 1 .. Len(s) - 1 /\ Tail(s)[k - 1] = s[k])
  BY Beheaded
<1>2. Items(Tail(s)) \subseteq Items(s) /\ Head(s) \in Items(s)
  BY <1>1 DEF Items
<1>3. ASSUME NEW x \in Items(s) PROVE x = Head(s) \/ x \in Items(Tail(s))
  <2>1. PICK k \in 1 .. Len(s) : x = s[k]
    BY <1>3 DEF Items
  <2> QED
    BY <1>1, <2>1 DEF Items
<1> QED
  BY <1>2, <1>3

LEMMA ItemsOfNone == Items(<<>>) = {}
<1>1. Len(<<>>) = 0
  BY EmptySeq
<1> QED
  BY <1>1 DEF Items

(* Of a descending list the head is the greatest, and the rest descends.   *)
LEMMA DescendsBeheaded ==
    ASSUME NEW s \in Seq(Nat), s # <<>>, Descends(s)
    PROVE  Descends(Tail(s)) /\ \A x \in Items(Tail(s)) : x < Head(s)
<1>1. /\ Head(s) = s[1] /\ 1 \in 1 .. Len(s) /\ Len(s) \in Nat /\ Len(Tail(s)) = Len(s) - 1
      /\ \A k \in 1 .. Len(s) - 1 : k + 1 \in 1 .. Len(s) /\ k + 1 # 1 /\ Tail(s)[k] = s[k + 1]
  BY Beheaded
<1>2. \A i \in 1 .. Len(s) : s[i] \in Nat
  BY ElementOfSeq
<1>3. Descends(Tail(s))
  BY <1>1, <1>2 DEF Descends
<1>4. ASSUME NEW x \in Items(Tail(s)) PROVE x < Head(s)
  <2>1. PICK k \in 1 .. Len(s) - 1 : x = s[k + 1] /\ k + 1 \in 1 .. Len(s)
    BY <1>1, <1>4 DEF Items
  <2>2. 1 < k + 1
    BY <1>1, <2>1
  <2> QED
    BY <1>1, <1>2, <2>1, <2>2 DEF Descends
<1> QED
  BY <1>3, <1>4

-----------------------------------------------------------------------------
(* The queue and its workers.                                              *)

LEMMA NoneApart ==
    IngestQ!Message = Messages(Jobs) /\ None \notin Row /\ None \notin Messages(Jobs)
BY NoneAssumption DEF IngestQ!Message, Messages

(* A busy worker holds a message that was sent, for a job that has a row.  *)
LEMMA Held ==
    ASSUME Shapes, Ticked, NEW w \in Workers, wPc[w] # "idle"
    PROVE  /\ wMsg[w] \in Messages(Jobs) /\ wMsg[w] \in inflight
           /\ JobOf(w) \in Jobs /\ JobOf(w) \in published
           /\ row[JobOf(w)] \in Row /\ row[JobOf(w)] # None
<1>1. wMsg[w] \in inflight /\ wMsg[w].id \in published /\ inflight \subseteq Messages(Jobs)
      /\ published \subseteq Jobs
  BY DEF Shapes, QueueHolds, QueueOK, Busy
<1>2. row[JobOf(w)] # None
  BY <1>1 DEF Ticked, Sent, Created, JobOf
<1> QED
  BY <1>1, <1>2 DEF Shapes, TypeOK, JobOf

(* No two workers have messages of one job.                                *)
LEMMA Apart ==
    ASSUME Shapes, NEW u \in Workers, NEW w \in Workers, u # w,
           wPc[u] # "idle", wPc[w] # "idle"
    PROVE  JobOf(u) # JobOf(w)
BY DEF Shapes, QueueHolds, QueueOK, Busy, JobOf

LEMMA QueueStays ==
    ASSUME QueueHolds, UNCHANGED <<ingestQueue, wMsg>>, Busy' = Busy PROVE QueueHolds'
BY DEF QueueHolds, QueueOK, ingestQueue

LEMMA Settles ==
    ASSUME Shapes, Ticked, NEW w \in Workers, wPc[w] # "idle", Idle(w),
           \/ IngestQ!Ack(wMsg[w]) \/ IngestQ!Requeue(wMsg[w])
           \/ IngestQ!DeadLetter(wMsg[w]) \/ IngestQ!Abandon(wMsg[w])
    PROVE  QueueHolds'
<1>1. Busy' = Busy \ {w} /\ w \in Busy /\ wMsg' = [wMsg EXCEPT ![w] = None]
  BY DEF Busy, Idle, Shapes, TypeOK
<1>2. QueueOK(Jobs, published, waiting, inflight, Workers, Busy, wMsg) /\ dead \in Seq(Messages(Jobs))
  BY DEF Shapes, QueueHolds
<1>3. CASE IngestQ!Ack(wMsg[w]) \/ IngestQ!DeadLetter(wMsg[w]) \/ IngestQ!Abandon(wMsg[w])
  <2>1. /\ published' = published /\ waiting' = waiting /\ inflight' = inflight \ {wMsg[w]}
        /\ dead' \in {dead, Append(dead, wMsg[w])}
    BY <1>3 DEF IngestQ!Ack, IngestQ!DeadLetter, IngestQ!Abandon
  <2>2. dead' \in Seq(Messages(Jobs))
    BY <1>2, <2>1, Held, Appended
  <2>3. QueueOK(Jobs, published, waiting, inflight \ {wMsg[w]}, Workers, Busy \ {w},
                [wMsg EXCEPT ![w] = None])
    BY <1>1, <1>2, SettleOK
  <2> QED
    BY <1>1, <2>1, <2>2, <2>3 DEF QueueHolds
<1>4. CASE IngestQ!Requeue(wMsg[w])
  <2>1. /\ published' = published /\ waiting' = Append(waiting, wMsg[w])
        /\ inflight' = inflight \ {wMsg[w]} /\ dead' = dead
    BY <1>4 DEF IngestQ!Requeue
  <2>2. QueueOK(Jobs, published, Append(waiting, wMsg[w]), inflight \ {wMsg[w]}, Workers,
                Busy \ {w}, [wMsg EXCEPT ![w] = None])
    BY <1>1, <1>2, RequeueOK
  <2> QED
    BY <1>1, <1>2, <2>1, <2>2 DEF QueueHolds
<1> QED
  BY <1>3, <1>4

LEMMA Takes ==
    ASSUME Shapes, NEW w \in Workers, TakeMessage(w)
    PROVE  /\ QueueHolds' /\ waiting # <<>> /\ wMsg' = [wMsg EXCEPT ![w] = wMsg'[w]]
           /\ wMsg'[w] \in Messages(Jobs) /\ wMsg'[w].id = Head(waiting).id
           /\ inflight' = inflight \union {wMsg'[w]} /\ published' = published /\ dead' = dead
           /\ waiting' = Tail(waiting)
<1> DEFINE m == [Head(waiting) EXCEPT !.attempts = @ + 1]
<1>1. /\ wPc[w] = "idle" /\ waiting # <<>> /\ waiting' = Tail(waiting)
      /\ inflight' = inflight \union {m} /\ published' = published /\ dead' = dead
      /\ wMsg' = [wMsg EXCEPT ![w] = m]
      /\ wPc' = [wPc EXCEPT ![w] = IF Supported(Head(waiting).id) THEN "mark" ELSE "failed"]
  BY DEF TakeMessage, IngestQ!Reserve, IngestQ!Delivered
<1>2. Busy' = Busy \union {w} /\ w \in Workers \ Busy
  BY <1>1 DEF Busy, Shapes, TypeOK
<1>3. QueueOK(Jobs, published, waiting, inflight, Workers, Busy, wMsg) /\ dead \in Seq(Messages(Jobs))
  BY DEF Shapes, QueueHolds
<1>4. /\ m \in Messages(Jobs) /\ m.id = Head(waiting).id
      /\ QueueOK(Jobs, published, Tail(waiting), inflight \union {m}, Workers,
                 Busy \union {w}, [wMsg EXCEPT ![w] = m])
  BY <1>1, <1>2, <1>3, ReserveOK
<1> HIDE DEF m
<1>5. wMsg'[w] = m
  BY <1>1 DEF Shapes, TypeOK
<1> QED
  BY <1>1, <1>2, <1>3, <1>4, <1>5 DEF QueueHolds
-----------------------------------------------------------------------------
(* Types and queue, step by step.                                          *)

(* A page: what the archive has from the offset on, and how much of it.    *)
LEMMA PageHas ==
    ASSUME TypeOK, NEW o \in Nat
    PROVE  /\ PageAt(o) \in Seq(Posts) /\ Len(PageAt(o)) \in 0 .. PageSize
           /\ \A k \in 1 .. Len(PageAt(o)) : o + k \in 1 .. Len(archive) /\ PageAt(o)[k] = archive[o + k]
           /\ Len(PageAt(o)) < PageSize => o + Len(PageAt(o)) >= Len(archive)
<1> DEFINE last == IF o + PageSize < Len(archive) THEN o + PageSize ELSE Len(archive)
<1>1. archive \in Seq(Posts) /\ Len(archive) \in Nat /\ PageSize \in Nat \ {0}
  BY LenProperties, NumbersAssumption DEF TypeOK
<1>2. /\ last \in Int /\ o + 1 \in Int /\ \A i \in o + 1 .. last : i \in 1 .. Len(archive)
      /\ last <= o + PageSize /\ last <= Len(archive) /\ (last < o + PageSize => last = Len(archive))
  BY <1>1
<1>3. \A i \in o + 1 .. last : archive[i] \in Posts
  BY <1>1, <1>2, ElementOfSeq
<1>4. PageAt(o) = SubSeq(archive, o + 1, last)
  BY DEF PageAt
<1> HIDE DEF last
<1>5. /\ PageAt(o) \in Seq(Posts)
      /\ Len(PageAt(o)) = IF o + 1 <= last THEN last - (o + 1) + 1 ELSE 0
      /\ \A i \in 1 .. last - (o + 1) + 1 : PageAt(o)[i] = archive[o + 1 + i - 1]
  BY <1>2, <1>3, <1>4, SubSeqProperties
<1>6. Len(PageAt(o)) = IF o < last THEN last - o ELSE 0
  BY <1>2, <1>5
<1>7. \A k \in 1 .. Len(PageAt(o)) : o + k \in 1 .. Len(archive) /\ PageAt(o)[k] = archive[o + k]
  BY <1>1, <1>2, <1>5, <1>6
<1> QED
  BY <1>1, <1>2, <1>5, <1>6, <1>7

(* What serving an item changes, with its types.                           *)
LEMMA Serves ==
    ASSUME TypeOK, NEW w \in Workers, wPage[w] # <<>>, Serving(w),
           NEW found, AfterItem(w, found), found \in {wFound[w], Append(wFound[w], Head(wPage[w]))}
    PROVE  /\ found \in Seq(Posts) /\ Head(wPage[w]) \in Posts /\ Tail(wPage[w]) \in Seq(Posts)
           /\ wFound' = [wFound EXCEPT ![w] = found]
           /\ wPage' \in [Workers -> Seq(Posts)] /\ wFlaws' \in [Workers -> SUBSET Flaws]
           /\ wPc' \in [Workers -> {"items", "last", "page", "persist"} \union
                                    {wPc[u] : u \in Workers}]
           /\ wPc'[w] \in {"items", "last", "page", "persist"}
<1>1. wPage[w] \in Seq(Posts) /\ wFound[w] \in Seq(Posts)
  BY DEF TypeOK
<1>2. Head(wPage[w]) \in Posts /\ Tail(wPage[w]) \in Seq(Posts)
  BY <1>1, HeadTailProperties
<1>3. found \in Seq(Posts) /\ <<>> \in Seq(Posts)
  <2>1. Append(wFound[w], Head(wPage[w])) \in Seq(Posts)
    BY <1>1, <1>2, AppendProperties
  <2>2. <<>> \in Seq(Posts)
    BY EmptySeq
  <2> QED
    BY <1>1, <2>1, <2>2
<1>4. wPage' \in [Workers -> Seq(Posts)] /\ wFlaws' \in [Workers -> SUBSET Flaws]
  BY <1>2, <1>3 DEF AfterItem, TypeOK, Flaws
<1>5. /\ wPc' \in [Workers -> {"items", "last", "page", "persist"} \union {wPc[u] : u \in Workers}]
      /\ wPc'[w] \in {"items", "last", "page", "persist"}
  BY DEF AfterItem, TypeOK, Serving
<1> QED
  BY <1>2, <1>3, <1>4, <1>5 DEF AfterItem

(* The source served next is the least of those due.                       *)
LEMMA CurrentIsDue ==
    ASSUME TypeOK, due # {}
    PROVE  Current = <<tick, Current[2]>> /\ Current[2] \in due /\ Current[2] \in Sources
<1>1. due \subseteq Sources /\ due \subseteq Nat
  BY SourcesAssumption DEF TypeOK
<1>2. \E s \in due : \A other \in due : s <= other
  BY <1>1, LeastExists
<1> QED
  BY <1>1, <1>2 DEF Current

(* A job goes into the queue of its kind.                                  *)
LEMMA Routes ==
    ASSUME Shapes, NEW j \in Jobs, Route(j), wMsg' = wMsg, Busy' = Busy
    PROVE  /\ QueueHolds' /\ urlJobs' \subseteq Jobs /\ dead' = dead /\ inflight' = inflight
           /\ published' \union urlJobs' = (published \union urlJobs) \union {j}
           /\ IF IsIngest(j) THEN waiting' = Append(waiting, [id |-> j, attempts |-> 0])
              ELSE waiting' = waiting
<1> USE DEF Shapes
<1>1. CASE IsIngest(j)
  <2>1. /\ j \notin published /\ published' = published \union {j}
        /\ waiting' = Append(waiting, [id |-> j, attempts |-> 0])
        /\ inflight' = inflight /\ dead' = dead /\ urlJobs' = urlJobs
    BY <1>1 DEF Route, IngestQ!Publish
  <2>2. QueueOK(Jobs, published', waiting', inflight, Workers, Busy, wMsg)
    BY <2>1, PublishOK DEF QueueHolds
  <2> QED
    BY <1>1, <2>1, <2>2 DEF QueueHolds, TypeOK
<1>2. CASE ~IsIngest(j)
  <2>1. urlJobs' = urlJobs \union {j} /\ UNCHANGED ingestQueue
    BY <1>2 DEF Route
  <2> QED
    BY <1>2, <2>1, QueueStays DEF ingestQueue, TypeOK
<1> QED
  BY <1>1, <1>2

LEMMA SchedulerShapes ==
    ASSUME Shapes, Schedule, StartTick \/ EnqueueStep \/ TickFails
    PROVE  Shapes'
<1> USE DEF Shapes, EnqueueStep
<1>1. UNCHANGED <<archive, newest, wPc, wMsg, wOffset, wPage, wFound, wSeen, wCount, wHad,
                  wMissed, wFlaws, raw, articles>>
  BY DEF StartTick, CreateRow, PublishMessage, EndTick, TickFails, publication, workers, paging, saving
<1>2. Busy' = Busy
  BY <1>1 DEF Busy
<1>3. ASSUME schPc # "sleep", due # {} PROVE Current \in Jobs
  BY <1>3, CurrentIsDue DEF Schedule, Ticking, Jobs
<1>4. tick' \in 0 .. MaxTicks /\ due' \subseteq Sources /\ schPc' \in {"sleep", "create", "publish"}
  <2>1. tick \in 0 .. MaxTicks /\ due \subseteq Sources /\ schPc \in {"sleep", "create", "publish"}
    BY DEF TypeOK
  <2>2. CASE StartTick
    BY <2>1, <2>2, NumbersAssumption DEF StartTick
  <2>3. CASE ~StartTick
    BY <2>1, <2>3 DEF CreateRow, PublishMessage, EndTick, TickFails
  <2> QED
    BY <2>2, <2>3
<1>5. row' \in [Jobs -> Row \union {None}]
  <2> DEFINE new == [status |-> "queued", count |-> 0, error |-> FALSE]
  <2>1. new \in Row
    BY DEF Row
  <2>2. row' = row \/ row' = [row EXCEPT ![Current] = new]
    BY DEF StartTick, CreateRow, PublishMessage, EndTick, TickFails
  <2> HIDE DEF new
  <2> QED
    BY <2>1, <2>2 DEF TypeOK
<1>6. QueueHolds' /\ urlJobs' \subseteq Jobs
  <2>1. CASE UNCHANGED <<ingestQueue, urlJobs>>
    BY <1>1, <1>2, <2>1, QueueStays DEF TypeOK
  <2>2. CASE schPc # "sleep" /\ due # {} /\ Route(Current)
    BY <1>1, <1>2, <1>3, <2>2, Routes
  <2> QED
    BY <2>1, <2>2 DEF Schedule, Ticked, StartTick, CreateRow, PublishMessage, EndTick, TickFails
<1>7. published' \subseteq Jobs /\ waiting' \in Seq(IngestQ!Message) /\ dead' \in Seq(IngestQ!Message)
      /\ inflight' \in SUBSET IngestQ!Message
  BY <1>6, NoneApart DEF QueueHolds, QueueOK
<1> QED
  BY <1>1, <1>4, <1>5, <1>6, <1>7 DEF TypeOK

(* The archive when a post comes out, and when one is taken away.          *)
LEMMA PostPublished ==
    ASSUME TypeOK, PublishPost
    PROVE  /\ archive' \in Seq(Posts) /\ newest' \in Posts /\ newest' = newest + 1
           /\ Len(archive) \in Nat /\ Len(archive') = Len(archive) + 1 /\ archive'[1] = newest'
           /\ \A k \in 1 .. Len(archive) + 1 : k # 1 => k - 1 \in 1 .. Len(archive) /\ archive'[k] = archive[k - 1]
           /\ \A k \in 1 .. Len(archive) : k + 1 \in 1 .. Len(archive) + 1 /\ archive'[k + 1] = archive[k]
<1>1. /\ archive \in Seq(Posts) /\ newest' = newest + 1 /\ newest' \in Posts
      /\ archive' = <<newest'>> \o archive
  <2>1. archive \in Seq(Posts) /\ newest \in 0 .. MaxPosts /\ MaxPosts \in Nat
    BY NumbersAssumption DEF TypeOK
  <2>2. newest < MaxPosts /\ newest' = newest + 1 /\ archive' = <<newest'>> \o archive
    BY DEF PublishPost
  <2> QED
    BY <2>1, <2>2 DEF Posts
<1>2. <<newest'>> \in Seq(Posts) /\ Len(<<newest'>>) = 1 /\ <<newest'>>[1] = newest' /\ Len(archive) \in Nat
  BY <1>1, LenProperties
<1>3. /\ archive' \in Seq(Posts) /\ Len(archive') = 1 + Len(archive)
      /\ \A k \in 1 .. 1 + Len(archive) :
            archive'[k] = IF k <= 1 THEN <<newest'>>[k] ELSE archive[k - 1]
  BY <1>1, <1>2, ConcatProperties
<1>4. archive'[1] = newest'
  BY <1>2, <1>3
<1>5. \A k \in 1 .. Len(archive) + 1 : k # 1 => k - 1 \in 1 .. Len(archive) /\ archive'[k] = archive[k - 1]
  BY <1>2, <1>3
<1>6. \A k \in 1 .. Len(archive) : k + 1 \in 1 .. Len(archive) + 1 /\ archive'[k + 1] = archive[k]
  BY <1>2, <1>3
<1> QED
  BY <1>1, <1>2, <1>3, <1>4, <1>5, <1>6

LEMMA PostDeleted ==
    ASSUME TypeOK, DeletePost
    PROVE  /\ archive' \in Seq(Posts) /\ Len(archive) \in Nat /\ Len(archive') = Len(archive) - 1
           /\ \E i \in 1 .. Len(archive) : \A k \in 1 .. Len(archive') :
                 archive'[k] = archive[IF k < i THEN k ELSE k + 1]
<1>1. PICK i \in 1 .. Len(archive) :
         archive' = SubSeq(archive, 1, i - 1) \o SubSeq(archive, i + 1, Len(archive))
  BY DEF DeletePost
<1> DEFINE front == SubSeq(archive, 1, i - 1)
           back  == SubSeq(archive, i + 1, Len(archive))
<1>2. archive \in Seq(Posts) /\ Len(archive) \in Nat
      /\ \A k \in 1 .. Len(archive) : archive[k] \in Posts
  BY LenProperties, ElementOfSeq DEF TypeOK
<1>3. /\ front \in Seq(Posts) /\ Len(front) = i - 1
      /\ \A k \in 1 .. i - 1 : front[k] = archive[k]
  <2>1. 1 \in Int /\ i - 1 \in Int /\ \A k \in 1 .. i - 1 : archive[k] \in Posts
    BY <1>2
  <2>2. /\ front \in Seq(Posts) /\ Len(front) = IF 1 <= i - 1 THEN i - 1 - 1 + 1 ELSE 0
        /\ \A k \in 1 .. i - 1 - 1 + 1 : front[k] = archive[1 + k - 1]
    BY <2>1, SubSeqProperties
  <2> HIDE DEF front
  <2> QED
    BY <1>2, <2>2
<1>4. /\ back \in Seq(Posts) /\ Len(back) = Len(archive) - i
      /\ \A k \in 1 .. Len(archive) - i : back[k] = archive[i + k]
  <2>1. i + 1 \in Int /\ Len(archive) \in Int /\ \A k \in i + 1 .. Len(archive) : archive[k] \in Posts
    BY <1>2
  <2>2. /\ back \in Seq(Posts)
        /\ Len(back) = IF i + 1 <= Len(archive) THEN Len(archive) - (i + 1) + 1 ELSE 0
        /\ \A k \in 1 .. Len(archive) - (i + 1) + 1 : back[k] = archive[i + 1 + k - 1]
    BY <2>1, SubSeqProperties
  <2> HIDE DEF back
  <2> QED
    BY <1>2, <2>2
<1>5. archive' = front \o back
  BY <1>1
<1> HIDE DEF front, back
<1>6. /\ archive' \in Seq(Posts) /\ Len(archive') = Len(front) + Len(back)
      /\ \A k \in 1 .. Len(front) + Len(back) :
            archive'[k] = IF k <= Len(front) THEN front[k] ELSE back[k - Len(front)]
  BY <1>3, <1>4, <1>5, ConcatProperties
<1>7. \A k \in 1 .. Len(archive') : archive'[k] = archive[IF k < i THEN k ELSE k + 1]
  <2>1. Len(archive') = Len(archive) - 1 /\ i \in 1 .. Len(archive) /\ Len(archive) \in Nat
    BY <1>2, <1>3, <1>4, <1>6
  <2>2. ASSUME NEW k \in 1 .. Len(archive'), k < i PROVE archive'[k] = archive[k]
    BY <1>3, <1>6, <1>4, <2>1, <2>2
  <2>3. ASSUME NEW k \in 1 .. Len(archive'), ~(k < i) PROVE archive'[k] = archive[k + 1]
    <3>1. k - (i - 1) \in 1 .. Len(archive) - i /\ i + (k - (i - 1)) = k + 1
      BY <2>1, <2>3
    <3>2. archive'[k] = back[k - (i - 1)]
      BY <1>3, <1>4, <1>6, <2>1, <2>3
    <3> QED
      BY <1>4, <3>1, <3>2
  <2> QED
    BY <2>2, <2>3
<1> QED
  BY <1>2, <1>3, <1>4, <1>6, <1>7

LEMMA AuthorShapes ==
    ASSUME Shapes, PublishPost \/ DeletePost PROVE Shapes'
<1> USE DEF Shapes
<1>1. UNCHANGED <<ingestQueue, urlJobs, row, raw, articles, tick, due, schPc, wPc, wMsg, wOffset,
                  wPage, wFound, wSeen, wCount, wHad, wMissed>>
  BY DEF PublishPost, DeletePost, scheduler, workers, paging, saving
<1>2. newest' \in 0 .. MaxPosts
  <2>1. newest \in 0 .. MaxPosts /\ MaxPosts \in Nat
    BY NumbersAssumption DEF TypeOK
  <2>2. newest' = newest \/ (newest < MaxPosts /\ newest' = newest + 1)
    BY DEF PublishPost, DeletePost
  <2> QED
    BY <2>1, <2>2
<1>3. wFlaws' \in [Workers -> SUBSET Flaws]
  <2>1. wFlaws \in [Workers -> SUBSET Flaws]
    BY DEF TypeOK
  <2>2. \/ wFlaws' = wFlaws
        \/ wFlaws' = [w \in Workers |-> IF PageToCome(w) THEN wFlaws[w] \union {"deletion"} ELSE wFlaws[w]]
    BY DEF PublishPost, DeletePost, workers, paging
  <2> QED
    BY <2>1, <2>2 DEF Flaws
<1>4. archive' \in Seq(Posts)
  BY PostPublished, PostDeleted
<1>5. QueueHolds'
  BY <1>1, QueueStays DEF Busy
<1> QED
  BY <1>1, <1>2, <1>3, <1>4, <1>5 DEF TypeOK, ingestQueue
(* A worker's step leaves the others, the scheduler and the archive alone, *)
(* and at most the row of its own job changes.                             *)
Same(u) == /\ wPc'[u] = wPc[u] /\ wMsg'[u] = wMsg[u] /\ wOffset'[u] = wOffset[u]
           /\ wPage'[u] = wPage[u] /\ wFound'[u] = wFound[u] /\ wSeen'[u] = wSeen[u]
           /\ wCount'[u] = wCount[u] /\ wHad'[u] = wHad[u] /\ wMissed'[u] = wMissed[u]
           /\ wFlaws'[u] = wFlaws[u]

LEMMA WorkerFrame ==
    ASSUME TypeOK, NEW w \in Workers, WorkerStep(w) \/ WorkerTrouble(w)
    PROVE  /\ UNCHANGED <<published, urlJobs, scheduler, publication>>
           /\ \A u \in Workers \ {w} : Same(u)
           /\ \A j \in Jobs : j # JobOf(w) => row'[j] = row[j]
<1> USE DEF TypeOK, Same, scheduler, publication, paging, saving, ingestQueue
<1>1. CASE TakeMessage(w)
  BY <1>1 DEF TakeMessage, IngestQ!Reserve
<1>2. CASE MarkRunning(w)
  BY <1>2 DEF MarkRunning
<1>3. CASE FetchPage(w)
  BY <1>3 DEF FetchPage, TakePage
<1>4. CASE ServeItem(w)
  BY <1>4 DEF ServeItem, AfterItem
<1>5. CASE MissItem(w)
  BY <1>5 DEF MissItem, AfterItem
<1>6. CASE FetchEnvelope(w)
  BY <1>6 DEF FetchEnvelope
<1>7. CASE SkipSeen(w)
  BY <1>7 DEF SkipSeen, Drop
<1>8. CASE PutRaw(w)
  BY <1>8 DEF PutRaw
<1>9. CASE WriteArticle(w)
  BY <1>9 DEF WriteArticle, Drop
<1>10. CASE MarkDone(w)
  BY <1>10 DEF MarkDone
<1>11. CASE RecordError(w)
  BY <1>11 DEF RecordError
<1>12. CASE ScrapeRaises(w)
  BY <1>12 DEF ScrapeRaises, Raise
<1>13. CASE StatusRaises(w)
  BY <1>13 DEF StatusRaises, Raise
<1>14. CASE SettleFailed(w)
  BY <1>14 DEF SettleFailed, Idle, IngestQ!Requeue, IngestQ!DeadLetter
<1>15. CASE AckMessage(w) \/ Die(w)
  BY <1>15 DEF AckMessage, Die, Idle, IngestQ!Ack, IngestQ!Abandon
<1> QED
  BY <1>1, <1>2, <1>3, <1>4, <1>5, <1>6, <1>7, <1>8, <1>9, <1>10, <1>11, <1>12, <1>13, <1>14,
     <1>15 DEF WorkerStep, WorkerTrouble
(* A step that leaves the messages alone.                                  *)
LEMMA QueueTypes ==
    ASSUME TypeOK, UNCHANGED <<ingestQueue, wMsg>>
    PROVE  /\ published' \subseteq Jobs
           /\ waiting' \in Seq(IngestQ!Message) /\ dead' \in Seq(IngestQ!Message)
           /\ inflight' \in SUBSET IngestQ!Message
           /\ wMsg' \in [Workers -> IngestQ!Message \union {None}]
BY DEF TypeOK, ingestQueue

Working == {"mark", "page", "items", "last", "persist", "write", "record", "ack", "failed"}

(* A worker goes on with its message.                                      *)
LEMMA StillBusy ==
    ASSUME Shapes, NEW w \in Workers, wPc[w] # "idle", UNCHANGED <<ingestQueue, wMsg>>,
           wPc' = [wPc EXCEPT ![w] = wPc'[w]], wPc'[w] \in Working
    PROVE  /\ QueueHolds' /\ published' \subseteq Jobs
           /\ waiting' \in Seq(IngestQ!Message) /\ dead' \in Seq(IngestQ!Message)
           /\ inflight' \in SUBSET IngestQ!Message
           /\ wMsg' \in [Workers -> IngestQ!Message \union {None}]
           /\ wPc' \in [Workers -> Working \union {"idle"}]
<1>1. wPc \in [Workers -> Working \union {"idle"}]
  BY DEF Shapes, TypeOK, Working
<1>2. Busy' = Busy
  BY <1>1 DEF Busy, Working
<1>3. wPc' \in [Workers -> Working \union {"idle"}]
  BY <1>1
<1>4. QueueHolds'
  BY <1>2, QueueStays DEF Shapes
<1> QED
  BY <1>3, <1>4, QueueTypes DEF Shapes
(* What a worker works on.                                                 *)
Data ==
    /\ row \in [Jobs -> Row \union {None}] /\ raw \subseteq Posts /\ articles \subseteq Posts
    /\ wOffset \in [Workers -> Nat] /\ wCount \in [Workers -> Nat]
    /\ wPage \in [Workers -> Seq(Posts)] /\ wFound \in [Workers -> Seq(Posts)]
    /\ wSeen \in [Workers -> SUBSET Posts] /\ wHad \in [Workers -> SUBSET Posts]
    /\ wMissed \in [Workers -> SUBSET Posts] /\ wFlaws \in [Workers -> SUBSET Flaws]

LEMMA WorkingShapes ==
    ASSUME Shapes, NEW w \in Workers, wPc[w] # "idle",
           UNCHANGED <<ingestQueue, urlJobs, scheduler, publication, wMsg>>,
           wPc' = [wPc EXCEPT ![w] = wPc'[w]], wPc'[w] \in Working, Data'
    PROVE  Shapes'
<1>1. /\ QueueHolds' /\ published' \subseteq Jobs
      /\ waiting' \in Seq(IngestQ!Message) /\ dead' \in Seq(IngestQ!Message)
      /\ inflight' \in SUBSET IngestQ!Message
      /\ wMsg' \in [Workers -> IngestQ!Message \union {None}]
      /\ wPc' \in [Workers -> Working \union {"idle"}]
  BY StillBusy
<1> QED
  BY <1>1 DEF Shapes, TypeOK, Data, Working, scheduler, publication

(* A worker is done with its message.                                      *)
LEMMA SettlingShapes ==
    ASSUME Shapes, Ticked, NEW w \in Workers, wPc[w] # "idle", Idle(w),
           UNCHANGED <<urlJobs, row, raw, articles, scheduler, publication>>,
           \/ IngestQ!Ack(wMsg[w]) \/ IngestQ!Requeue(wMsg[w])
           \/ IngestQ!DeadLetter(wMsg[w]) \/ IngestQ!Abandon(wMsg[w])
    PROVE  Shapes'
<1>1. QueueHolds'
  BY Settles
<1>2. <<>> \in Seq(Posts)
  BY EmptySeq
<1>3. published' \subseteq Jobs /\ inflight' \subseteq IngestQ!Message
      /\ waiting' \in Seq(IngestQ!Message) /\ dead' \in Seq(IngestQ!Message)
  BY <1>1, NoneApart DEF QueueHolds, QueueOK
<1>4. wPc' = [wPc EXCEPT ![w] = "idle"] /\ wMsg' = [wMsg EXCEPT ![w] = None]
  BY DEF Idle
<1>5. Data'
  BY <1>2 DEF Idle, Data, Shapes, TypeOK
<1> QED
  BY <1>1, <1>3, <1>4, <1>5 DEF Shapes, TypeOK, Data, scheduler, publication

LEMMA WorkerShapes ==
    ASSUME Shapes, Schedule, NEW w \in Workers, Counted(w), Paged(w),
           WorkerStep(w) \/ WorkerTrouble(w)
    PROVE  Shapes'
<1>1. TypeOK /\ Data /\ Ticked
  BY DEF Shapes, TypeOK, Data, Schedule
<1>2. CASE TakeMessage(w)
  <2>1. /\ QueueHolds' /\ waiting # <<>> /\ wMsg' = [wMsg EXCEPT ![w] = wMsg'[w]]
        /\ wMsg'[w] \in Messages(Jobs)
    BY <1>2, Takes
  <2>2. wPc' = [wPc EXCEPT ![w] = wPc'[w]] /\ wPc'[w] \in {"mark", "failed"}
    BY <1>1, <1>2 DEF TakeMessage, TypeOK
  <2>3. UNCHANGED <<urlJobs, row, raw, articles, scheduler, publication, paging, saving>>
    BY <1>2 DEF TakeMessage
  <2>4. published' \subseteq Jobs /\ inflight' \subseteq IngestQ!Message
        /\ waiting' \in Seq(IngestQ!Message) /\ dead' \in Seq(IngestQ!Message)
    BY <2>1, NoneApart DEF QueueHolds, QueueOK
  <2> QED
    BY <1>1, <2>1, <2>2, <2>3, <2>4, NoneApart
       DEF Shapes, TypeOK, scheduler, publication, paging, saving
<1>3. CASE MarkRunning(w)
  <2>1. row[JobOf(w)] \in Row /\ JobOf(w) \in Jobs
    BY <1>1, <1>3, Held DEF MarkRunning
  <2>2. row' \in [Jobs -> Row \union {None}]
    <3>1. [row[JobOf(w)] EXCEPT !.status = "running"] \in Row
      BY <2>1 DEF Row
    <3>2. row' = [row EXCEPT ![JobOf(w)] = [row[JobOf(w)] EXCEPT !.status = "running"]]
      BY <1>1, <1>3, <2>1 DEF MarkRunning, Data
    <3> QED
      BY <1>1, <3>1, <3>2 DEF Data
  <2>3. wHad' \in [Workers -> SUBSET Posts]
    <3>1. InArchive \subseteq Posts
      BY <1>1, ElementOfSeq DEF InArchive, TypeOK
    <3> QED
      BY <1>1, <1>3, <3>1 DEF MarkRunning, Data
  <2>4. Data'
    BY <1>1, <1>3, <2>2, <2>3 DEF MarkRunning, Data, Flaws, saving
  <2> QED
    BY <1>1, <1>3, <2>4, WorkingShapes DEF MarkRunning, TypeOK, Working
<1>4. CASE FetchPage(w)
  <2>1. PageAt(wOffset[w]) \in Seq(Posts) /\ Len(PageAt(wOffset[w])) \in Nat
    <3>1. wOffset[w] \in Nat
      BY <1>1 DEF Data
    <3>2. PageAt(wOffset[w]) \in Seq(Posts)
      BY <1>1, <3>1, PageHas
    <3> QED
      BY <3>2, LenProperties
  <2>2. Data'
    BY <1>1, <1>4, <2>1 DEF FetchPage, TakePage, Data, saving
  <2> QED
    BY <1>1, <1>4, <2>2, WorkingShapes DEF FetchPage, TakePage, TypeOK, Working
<1>5. CASE ServeItem(w) \/ MissItem(w)
  <2> DEFINE found == wFound'[w]
  <2>1. Serving(w) /\ wPage[w] # <<>> /\ wPc[w] # "idle"
    BY <1>5 DEF ServeItem, MissItem, Serving, Paged
  <2>2. AfterItem(w, found) /\ found \in {wFound[w], Append(wFound[w], Head(wPage[w]))}
    BY <1>1, <1>5 DEF ServeItem, MissItem, AfterItem, Data
  <2> HIDE DEF found
  <2>3. /\ found \in Seq(Posts) /\ Head(wPage[w]) \in Posts
        /\ wFound' = [wFound EXCEPT ![w] = found]
        /\ wPage' \in [Workers -> Seq(Posts)] /\ wFlaws' \in [Workers -> SUBSET Flaws]
        /\ wPc'[w] \in {"items", "last", "page", "persist"}
    BY <1>1, <2>1, <2>2, Serves
  <2>4. wMissed' \in [Workers -> SUBSET Posts]
    <3>1. wMissed' = wMissed \/ wMissed' = [wMissed EXCEPT ![w] = @ \union {Head(wPage[w])}]
      BY <1>5 DEF ServeItem, MissItem
    <3>2. wMissed \in [Workers -> SUBSET Posts]
      BY <1>1 DEF Data
    <3> QED
      BY <2>3, <3>1, <3>2
  <2>5. UNCHANGED <<ingestQueue, urlJobs, row, raw, articles, scheduler, publication, wMsg, wOffset,
                    wHad, saving>>
    BY <2>2 DEF AfterItem
  <2>6. wPc' = [wPc EXCEPT ![w] = wPc'[w]]
    BY <1>1, <2>2 DEF AfterItem, TypeOK
  <2>7. Data'
    BY <1>1, <2>3, <2>4, <2>5 DEF Data, saving
  <2> QED
    BY <2>1, <2>3, <2>5, <2>6, <2>7, WorkingShapes DEF Working
<1>6. CASE FetchEnvelope(w)
  <2>1. Data'
    BY <1>1, <1>6 DEF FetchEnvelope, Data, Flaws, saving
  <2> QED
    BY <1>1, <1>6, <2>1, WorkingShapes DEF FetchEnvelope, TypeOK, Working
<1>7. CASE SkipSeen(w) \/ PutRaw(w) \/ WriteArticle(w)
  <2>1. wFound[w] # <<>> /\ wFound[w] \in Seq(Posts) /\ wPc[w] # "idle"
    BY <1>1, <1>7 DEF SkipSeen, PutRaw, WriteArticle, Counted, Data
  <2>2. Head(wFound[w]) \in Posts /\ Tail(wFound[w]) \in Seq(Posts)
    BY <2>1, HeadTailProperties
  <2>3. Data'
    <3>1. CASE SkipSeen(w)
      BY <1>1, <2>2, <3>1 DEF SkipSeen, Drop, Data, saving
    <3>2. CASE PutRaw(w)
      BY <1>1, <2>2, <3>2 DEF PutRaw, Data, paging, saving
    <3>3. CASE WriteArticle(w)
      BY <1>1, <2>2, <3>3 DEF WriteArticle, Drop, Data
    <3> QED
      BY <1>7, <3>1, <3>2, <3>3
  <2>4. UNCHANGED <<ingestQueue, urlJobs, scheduler, publication, wMsg>>
    BY <1>7 DEF SkipSeen, PutRaw, WriteArticle
  <2>5. wPc' = [wPc EXCEPT ![w] = wPc'[w]] /\ wPc'[w] \in Working
    BY <1>1, <1>7 DEF SkipSeen, PutRaw, WriteArticle, TypeOK, Working
  <2> QED
    BY <2>1, <2>3, <2>4, <2>5, WorkingShapes
<1>8. CASE MarkDone(w) \/ RecordError(w)
  <2>1. JobOf(w) \in Jobs /\ row[JobOf(w)] \in Row /\ wCount[w] \in Nat /\ wPc[w] # "idle"
    BY <1>1, <1>8, Held DEF MarkDone, RecordError, Data
  <2>2. row' \in [Jobs -> Row \union {None}]
    <3> DEFINE new == [row[JobOf(w)] EXCEPT !.status = "done", !.count = wCount[w]]
               bad == [status |-> "error", count |-> wCount[w], error |-> TRUE]
    <3>1. new \in Row /\ bad \in Row
      BY <2>1 DEF Row
    <3>2. row' = [row EXCEPT ![JobOf(w)] = new] \/ row' = [row EXCEPT ![JobOf(w)] = bad]
      BY <1>1, <1>8, <2>1 DEF MarkDone, RecordError, Data
    <3> HIDE DEF new, bad
    <3> QED
      BY <1>1, <3>1, <3>2 DEF Data
  <2>3. UNCHANGED <<ingestQueue, urlJobs, raw, articles, scheduler, publication, wMsg, paging, saving>>
    BY <1>8 DEF MarkDone, RecordError
  <2>4. Data'
    BY <1>1, <2>2, <2>3 DEF Data, paging, saving
  <2>5. wPc' = [wPc EXCEPT ![w] = wPc'[w]] /\ wPc'[w] \in Working
    BY <1>1, <1>8 DEF MarkDone, RecordError, TypeOK, Working
  <2> QED
    BY <2>1, <2>3, <2>4, <2>5, WorkingShapes
<1>9. CASE ScrapeRaises(w) \/ StatusRaises(w)
  <2>1. /\ UNCHANGED <<ingestQueue, urlJobs, row, raw, scheduler, publication, wMsg, paging, saving>>
        /\ wPc' = [wPc EXCEPT ![w] = wPc'[w]] /\ wPc'[w] \in Working /\ wPc[w] # "idle"
    BY <1>1, <1>9 DEF ScrapeRaises, StatusRaises, Raise, TypeOK, Working
  <2>2. articles' \subseteq Posts
    <3>1. wPc[w] = "write" => Head(wFound[w]) \in Posts
      BY <1>1, HeadTailProperties DEF Counted, Data
    <3> QED
      BY <1>1, <1>9, <3>1 DEF ScrapeRaises, StatusRaises, Data
  <2>3. Data'
    BY <1>1, <2>1, <2>2 DEF Data, paging, saving
  <2> QED
    BY <2>1, <2>3, WorkingShapes
<1>10. CASE SettleFailed(w) \/ AckMessage(w) \/ Die(w)
  BY <1>1, <1>10, SettlingShapes DEF SettleFailed, AckMessage, Die
<1> QED
  BY <1>2, <1>3, <1>4, <1>5, <1>6, <1>7, <1>8, <1>9, <1>10 DEF WorkerStep, WorkerTrouble
-----------------------------------------------------------------------------
(* The schedule.                                                           *)

LEMMA JobPairs ==
    \A t \in 1 .. MaxTicks, s \in Sources : <<t, s>> \in Jobs /\ <<t, s>>[1] = t /\ <<t, s>>[2] = s
BY DEF Jobs

LEMMA TickRange ==
    ASSUME TypeOK PROVE tick \in Nat /\ tick <= MaxTicks /\ 1 .. tick \subseteq 1 .. MaxTicks
BY NumbersAssumption DEF TypeOK

(* The parts of Schedule that speak of rows and messages see only whether  *)
(* there is one.                                                           *)
LEMMA ScheduleStays ==
    ASSUME TypeOK, Schedule, UNCHANGED <<published, urlJobs, scheduler>>,
           \A j \in Jobs : row'[j] = None <=> row[j] = None
    PROVE  Schedule'
<1>1. /\ tick' = tick /\ due' = due /\ schPc' = schPc /\ cut' = cut
      /\ published' = published /\ urlJobs' = urlJobs /\ due \subseteq Sources
  BY DEF scheduler, TypeOK
<1>2. Current' = Current
  BY <1>1 DEF Current
<1>3. \A j \in Jobs : (Created(j)' <=> Created(j)) /\ (Sent(j)' <=> Sent(j))
  BY <1>1 DEF Created, Sent
<1>4. \A t \in 1 .. MaxTicks, s \in Sources : Served(t, s)' <=> Served(t, s)
  BY <1>3, JobPairs DEF Served
<1>5. \A t \in 1 .. MaxTicks : Dangling(t)' = Dangling(t)
  BY <1>3, JobPairs DEF Dangling
<1>6. Ticking'
  BY <1>1, <1>2, <1>3, <1>4, JobPairs DEF Schedule, Ticking
<1>7. Ticked'
  BY <1>1, <1>3, <1>4, <1>5, TickRange DEF Schedule, Ticked
<1> QED
  BY <1>6, <1>7 DEF Schedule

(* In a tick, the one source that may be left hanging is the current one.  *)
LEMMA DanglesNow ==
    ASSUME TypeOK, Schedule, schPc # "sleep", due # {}
    PROVE  /\ Current \in Jobs /\ Current = <<tick, Current[2]>> /\ Current[2] \in due
           /\ \A j \in Jobs : j = Current \/ (Created(j) /\ j[1] = tick => Sent(j))
<1>1. tick \in 1 .. MaxTicks /\ Current = <<tick, Current[2]>> /\ Current[2] \in due
      /\ Current[2] \in Sources
  BY CurrentIsDue DEF Schedule, Ticking
<1>2. Current \in Jobs
  BY <1>1, JobPairs
<1>3. ASSUME NEW j \in Jobs, j # Current, Created(j), j[1] = tick PROVE Sent(j)
  <2>1. j = <<tick, j[2]>> /\ j[2] \in Sources
    BY <1>3 DEF Jobs
  <2>2. j[2] # Current[2]
    BY <1>1, <1>3, <2>1
  <2>3. j[2] \notin due
    BY <1>3, <2>1, <2>2 DEF Schedule, Ticking
  <2> QED
    BY <1>3, <2>1, <2>3 DEF Schedule, Ticking, Served
<1> QED
  BY <1>1, <1>2, <1>3
LEMMA StartTickSchedule ==
    ASSUME TypeOK, Schedule, StartTick PROVE Schedule'
<1>1. /\ schPc = "sleep" /\ tick < MaxTicks /\ tick' = tick + 1 /\ due' = Sources
      /\ schPc' = "create" /\ cut' = cut /\ row' = row
      /\ published' = published /\ urlJobs' = urlJobs
  BY DEF StartTick, ingestQueue
<1>2. \A j \in Jobs : (Created(j)' <=> Created(j)) /\ (Sent(j)' <=> Sent(j))
  BY <1>1 DEF Created, Sent
<1>3. tick' \in 1 .. MaxTicks /\ tick' \notin 1 .. tick /\ 1 .. tick \subseteq 1 .. tick'
      /\ \A t \in 1 .. tick' : t \in 1 .. tick \/ t = tick'
  BY <1>1, TickRange, NumbersAssumption
<1>4. \A s \in Sources : ~Created(<<tick', s>>) /\ ~Sent(<<tick', s>>)
  <2> TAKE s \in Sources
  <2>1. <<tick', s>> \in Jobs /\ <<tick', s>>[1] = tick' /\ ~(tick' <= tick)
    BY <1>1, <1>3, JobPairs, TickRange
  <2> QED
    BY <2>1 DEF Schedule, Ticked
<1>5. \A t \in 1 .. tick, s \in Sources : Served(t, s)' <=> Served(t, s)
  BY <1>2, JobPairs, TickRange DEF Served
<1>6. Ticking'
  <2>1. tick' \notin cut'
    BY <1>1, <1>3 DEF Schedule, Ticked
  <2>2. \A s \in Sources : ~Created(<<tick, s>>)' /\ ~Sent(<<tick, s>>)'
    BY <1>2, <1>3, <1>4, JobPairs
  <2> QED
    BY <1>1, <1>3, <2>1, <2>2 DEF Ticking
<1>7. \A t \in 1 .. tick' : \A r, s \in Dangling(t)' : r = s
  <2> TAKE t \in 1 .. tick'
  <2>1. CASE t = tick'
    BY <1>2, <1>3, <1>4, <2>1, JobPairs DEF Dangling
  <2>2. CASE t \in 1 .. tick
    <3>1. Dangling(t)' = Dangling(t)
      BY <1>2, <2>2, JobPairs, TickRange DEF Dangling
    <3> QED
      BY <2>2, <3>1 DEF Schedule, Ticked
  <2> QED
    BY <1>3, <2>1, <2>2
<1>8. \A j \in Jobs : Created(j)' => j[1] <= tick'
  <2> TAKE j \in Jobs
  <2>1. j[1] \in Nat
    BY NumbersAssumption DEF Jobs
  <2>2. Created(j) => j[1] <= tick
    BY DEF Schedule, Ticked
  <2> QED
    BY <1>1, <1>2, <2>1, <2>2, TickRange
<1>9. \A t \in 1 .. tick' : (t < tick' \/ schPc' = "sleep") /\ t \notin cut' =>
          \A s \in Sources : Served(t, s)'
  <2> TAKE t \in 1 .. tick'
  <2>1. t = tick' => ~(t < tick' \/ schPc' = "sleep")
    BY <1>1, <1>3
  <2>2. t \in 1 .. tick /\ t \notin cut => \A s \in Sources : Served(t, s)
    BY <1>1 DEF Schedule, Ticked
  <2> QED
    BY <1>1, <1>3, <1>5, <2>1, <2>2
<1> QED
  BY <1>1, <1>2, <1>3, <1>6, <1>7, <1>8, <1>9 DEF Schedule, Ticked

LEMMA CreateRowSchedule ==
    ASSUME TypeOK, Schedule, CreateRow PROVE Schedule'
<1>1. /\ schPc = "create" /\ due # {} /\ tick' = tick /\ due' = due
      /\ schPc' = "publish" /\ cut' = cut
      /\ published' = published /\ urlJobs' = urlJobs
      /\ row' = [row EXCEPT ![Current] = [status |-> "queued", count |-> 0, error |-> FALSE]]
  BY DEF CreateRow, ingestQueue
<1>2. /\ Current \in Jobs /\ Current = <<tick, Current[2]>> /\ Current[2] \in due
      /\ \A j \in Jobs : j = Current \/ (Created(j) /\ j[1] = tick => Sent(j))
  BY <1>1, DanglesNow
<1>3. [status |-> "queued", count |-> 0, error |-> FALSE] # None
  <2>1. [status |-> "queued", count |-> 0, error |-> FALSE] \in Row
    BY DEF Row
  <2> QED
    BY <2>1, NoneAssumption
<1>4. \A j \in Jobs : (Created(j)' <=> Created(j) \/ j = Current) /\ (Sent(j)' <=> Sent(j))
  BY <1>1, <1>2, <1>3 DEF Created, Sent, TypeOK
<1>5. Current' = Current /\ due \subseteq Sources /\ tick \in 1 .. MaxTicks
  BY <1>1 DEF Current, TypeOK, Schedule, Ticking
<1>6. \A t \in 1 .. MaxTicks, s \in Sources : Served(t, s) => Served(t, s)'
  BY <1>4, JobPairs DEF Served
<1>7. Ticking'
  <2>1. tick' \in 1 .. MaxTicks /\ tick' \notin cut' /\ \A s \in due' : ~Sent(<<tick, s>>)'
    BY <1>1, <1>4, <1>5, JobPairs DEF Schedule, Ticking
  <2>2. \A s \in due : Created(<<tick, s>>)' <=> s = Current[2]
    <3> TAKE s \in due
    <3>1. <<tick, s>> \in Jobs /\ (<<tick, s>> = Current <=> s = Current[2])
      BY <1>2, <1>5, JobPairs
    <3>2. ~Created(<<tick, s>>)
      BY <1>1 DEF Schedule, Ticking
    <3> QED
      BY <1>1, <1>4, <3>1, <3>2
  <2>3. \A s \in Sources \ due : Served(tick, s)'
    BY <1>1, <1>5, <1>6 DEF Schedule, Ticking
  <2> QED
    BY <1>1, <1>5, <2>1, <2>2, <2>3 DEF Ticking
<1>8. \A t \in 1 .. tick : \A r, s \in Dangling(t)' : r = s
  <2> TAKE t \in 1 .. tick
  <2> TAKE r, s \in Dangling(t)'
  <2>1. t \in 1 .. MaxTicks /\ r \in Sources /\ s \in Sources
        /\ Created(<<t, r>>)' /\ ~Sent(<<t, r>>)' /\ Created(<<t, s>>)' /\ ~Sent(<<t, s>>)'
    BY TickRange DEF Dangling
  <2>2. CASE t = tick
    <3>1. <<t, r>> = Current /\ <<t, s>> = Current
      BY <1>2, <1>4, <2>1, <2>2, JobPairs
    <3> QED
      BY <2>1, <3>1, JobPairs
  <2>3. CASE t # tick
    <3>1. <<t, r>> # Current /\ <<t, s>> # Current
      BY <1>2, <2>1, <2>3, JobPairs
    <3>2. r \in Dangling(t) /\ s \in Dangling(t)
      BY <1>4, <2>1, <3>1, JobPairs DEF Dangling
    <3> QED
      BY <3>2 DEF Schedule, Ticked
  <2> QED
    BY <2>2, <2>3
<1>9. \A j \in Jobs : Created(j)' => j[1] <= tick
  BY <1>2, <1>4, <1>5, JobPairs, TickRange DEF Schedule, Ticked
<1> QED
  BY <1>1, <1>4, <1>6, <1>7, <1>8, <1>9, TickRange DEF Schedule, Ticked
(* A source leaves the tick once its message is out.                       *)
LEMMA PublishMessageSchedule ==
    ASSUME Shapes, Schedule, PublishMessage, Shapes' PROVE Schedule'
<1>1. /\ schPc = "publish" /\ tick' = tick /\ due' = due \ {Current[2]}
      /\ schPc' = "create" /\ cut' = cut /\ row' = row /\ due # {}
      /\ wMsg' = wMsg /\ Busy' = Busy /\ TypeOK
  BY DEF PublishMessage, Schedule, Ticked, workers, Busy, Shapes
<1>2. /\ Current \in Jobs /\ Current = <<tick, Current[2]>> /\ Current[2] \in due
      /\ \A j \in Jobs : j = Current \/ (Created(j) /\ j[1] = tick => Sent(j))
  BY <1>1, DanglesNow
<1>3. published' \union urlJobs' = (published \union urlJobs) \union {Current}
  BY <1>1, <1>2, Routes DEF PublishMessage
<1>4. \A j \in Jobs : (Created(j)' <=> Created(j)) /\ (Sent(j)' <=> Sent(j) \/ j = Current)
  BY <1>1, <1>2, <1>3 DEF Created, Sent
<1>5. due \subseteq Sources /\ tick \in 1 .. MaxTicks
  BY <1>1 DEF TypeOK, Schedule, Ticking
<1>6. \A t \in 1 .. MaxTicks, s \in Sources : Served(t, s) => Served(t, s)'
  BY <1>4, JobPairs DEF Served
<1>7. Created(Current)
  BY <1>1, <1>2 DEF Schedule, Ticking
<1>8. Ticking'
  <2>1. \A s \in due' : ~Sent(<<tick, s>>)' /\ ~Created(<<tick, s>>)'
    <3> TAKE s \in due'
    <3>1. /\ <<tick, s>> \in Jobs /\ s \in due /\ s # Current[2] /\ <<tick, s>> # Current
      BY <1>1, <1>2, <1>5, JobPairs
    <3>2. ~Created(<<tick, s>>) /\ ~Sent(<<tick, s>>)
      BY <1>1, <3>1 DEF Schedule, Ticking
    <3> QED
      BY <1>1, <1>4, <3>1, <3>2
  <2>2. \A s \in Sources \ due' : Served(tick, s)'
    <3> TAKE s \in Sources \ due'
    <3>1. CASE s = Current[2]
      BY <1>1, <1>2, <1>4, <1>7, <3>1 DEF Served
    <3>2. CASE s \notin due
      BY <1>1, <1>5, <1>6, <3>2 DEF Schedule, Ticking
    <3> QED
      BY <1>1, <3>1, <3>2
  <2> QED
    BY <1>1, <1>5, <2>1, <2>2 DEF Ticking, Schedule
<1>9. \A t \in 1 .. tick : Dangling(t)' \subseteq Dangling(t)
  BY <1>4, JobPairs, TickRange, <1>1 DEF Dangling
<1>10. \A j \in Jobs : Sent(j)' => Created(j)'
  BY <1>4, <1>7 DEF Schedule, Ticked
<1>11. \A t \in 1 .. tick : \A r, s \in Dangling(t)' : r = s
  BY <1>9 DEF Schedule, Ticked
<1>12. \A t \in 1 .. tick : (t < tick \/ schPc' = "sleep") /\ t \notin cut =>
          \A s \in Sources : Served(t, s)'
  BY <1>1, <1>6, TickRange DEF Schedule, Ticked
<1>13. \A j \in Jobs : Created(j)' => j[1] <= tick
  BY <1>4 DEF Schedule, Ticked
<1> QED
  BY <1>1, <1>8, <1>10, <1>11, <1>12, <1>13 DEF Schedule, Ticked

LEMMA EndTickSchedule ==
    ASSUME TypeOK, Schedule, EndTick PROVE Schedule'
<1>1. /\ schPc = "create" /\ due = {} /\ tick' = tick /\ due' = due
      /\ schPc' = "sleep" /\ cut' = cut /\ row' = row
      /\ published' = published /\ urlJobs' = urlJobs
  BY DEF EndTick, ingestQueue
<1>2. \A j \in Jobs : (Created(j)' <=> Created(j)) /\ (Sent(j)' <=> Sent(j))
  BY <1>1 DEF Created, Sent
<1>3. \A t \in 1 .. tick : Dangling(t)' = Dangling(t)
  BY <1>2, JobPairs, TickRange DEF Dangling
<1>4. \A t \in 1 .. tick, s \in Sources : Served(t, s) => Served(t, s)'
  BY <1>2, JobPairs, TickRange DEF Served
<1>5. \A s \in Sources : Served(tick, s)
  BY <1>1 DEF Schedule, Ticking
<1>6. \A t \in 1 .. tick : t \notin cut => \A s \in Sources : Served(t, s)'
  <2> TAKE t \in 1 .. tick
  <2>1. t = tick \/ t < tick
    BY TickRange
  <2> QED
    BY <1>4, <1>5, <2>1 DEF Schedule, Ticked
<1> QED
  BY <1>1, <1>2, <1>3, <1>6 DEF Schedule, Ticked, Ticking

LEMMA TickFailsSchedule ==
    ASSUME Shapes, Schedule, TickFails, Shapes' PROVE Schedule'
<1>1. /\ schPc \in {"create", "publish"} /\ due # {} /\ tick' = tick /\ due' = {}
      /\ schPc' = "sleep" /\ cut' = cut \union {tick} /\ row' = row
      /\ wMsg' = wMsg /\ Busy' = Busy /\ TypeOK
  BY DEF TickFails, workers, Busy, Shapes
<1>2. /\ Current \in Jobs /\ Current = <<tick, Current[2]>> /\ Current[2] \in due
      /\ tick \in 1 .. MaxTicks
  BY <1>1, DanglesNow DEF Schedule, Ticking
<1>3. \/ schPc = "publish" /\ published' \union urlJobs' = (published \union urlJobs) \union {Current}
      \/ published' = published /\ urlJobs' = urlJobs
  <2>1. CASE schPc = "publish" /\ Route(Current)
    BY <1>1, <1>2, <2>1, Routes
  <2>2. CASE UNCHANGED <<ingestQueue, urlJobs>>
    BY <2>2 DEF ingestQueue
  <2> QED
    BY <2>1, <2>2 DEF TickFails
<1>4. \A j \in Jobs : /\ Created(j)' <=> Created(j)
                      /\ Sent(j) => Sent(j)'
                      /\ Sent(j)' => Sent(j) \/ (j = Current /\ schPc = "publish")
  BY <1>1, <1>2, <1>3 DEF Created, Sent
<1>5. schPc = "publish" => Created(Current)
  BY <1>1, <1>2 DEF Schedule, Ticking
<1>6. \A t \in 1 .. tick : Dangling(t)' \subseteq Dangling(t)
  BY <1>1, <1>4, JobPairs, TickRange DEF Dangling
<1>7. \A t \in 1 .. tick : \A r, s \in Dangling(t)' : r = s
  BY <1>6 DEF Schedule, Ticked
<1>8. \A t \in 1 .. tick, s \in Sources : Served(t, s) => Served(t, s)'
  BY <1>1, <1>4, JobPairs, TickRange DEF Served
<1>9. \A t \in 1 .. tick : t \notin cut' => \A s \in Sources : Served(t, s)'
  <2> TAKE t \in 1 .. tick
  <2>1. t = tick \/ t < tick
    BY <1>1, TickRange
  <2> QED
    BY <1>1, <1>8, <2>1 DEF Schedule, Ticked
<1>10. \A j \in Jobs : Sent(j)' => Created(j)'
  BY <1>4, <1>5 DEF Schedule, Ticked
<1>11. cut' \subseteq 1 .. tick
  BY <1>1, <1>2 DEF Schedule, Ticked
<1>12. \A j \in Jobs : Created(j)' => j[1] <= tick
  BY <1>4 DEF Schedule, Ticked
<1> QED
  BY <1>1, <1>7, <1>9, <1>10, <1>11, <1>12 DEF Schedule, Ticked, Ticking
(* A worker writes the row of its job, and never takes a row away.         *)
LEMMA RowWritten ==
    ASSUME Shapes, Schedule, NEW w \in Workers, WorkerStep(w) \/ WorkerTrouble(w)
    PROVE  /\ \/ row' = row
              \/ MarkRunning(w) \/ MarkDone(w) \/ RecordError(w)
           /\ MarkRunning(w) => row' = [row EXCEPT ![JobOf(w)] = [row[JobOf(w)] EXCEPT !.status = "running"]]
           /\ MarkDone(w) => row' = [row EXCEPT ![JobOf(w)] =
                                        [row[JobOf(w)] EXCEPT !.status = "done", !.count = wCount[w]]]
           /\ \A j \in Jobs : row'[j] = None <=> row[j] = None
<1>1. \/ row' = row
      \/ MarkRunning(w) \/ MarkDone(w) \/ RecordError(w)
  BY DEF WorkerStep, WorkerTrouble, TakeMessage, FetchPage, TakePage, ServeItem, MissItem, AfterItem,
         FetchEnvelope, SkipSeen, PutRaw, WriteArticle, ScrapeRaises, StatusRaises, SettleFailed,
         AckMessage, Die
<1>2. row \in [Jobs -> Row \union {None}] /\ wCount[w] \in Nat /\ None \notin Row
  BY NoneAssumption DEF Shapes, TypeOK
<1>3. MarkRunning(w) \/ MarkDone(w) \/ RecordError(w) => JobOf(w) \in Jobs /\ row[JobOf(w)] \in Row
  BY Held DEF MarkRunning, MarkDone, RecordError, Schedule
<1>4. MarkRunning(w) => row' = [row EXCEPT ![JobOf(w)] = [row[JobOf(w)] EXCEPT !.status = "running"]]
  BY <1>2, <1>3 DEF MarkRunning
<1>5. MarkDone(w) => row' = [row EXCEPT ![JobOf(w)] =
                                [row[JobOf(w)] EXCEPT !.status = "done", !.count = wCount[w]]]
  BY <1>2, <1>3 DEF MarkDone
<1>6. MarkRunning(w) \/ MarkDone(w) \/ RecordError(w) =>
         \E r \in Row : row' = [row EXCEPT ![JobOf(w)] = r]
  <2>1. row[JobOf(w)] \in Row =>
           /\ [row[JobOf(w)] EXCEPT !.status = "running"] \in Row
           /\ [row[JobOf(w)] EXCEPT !.status = "done", !.count = wCount[w]] \in Row
           /\ [status |-> "error", count |-> wCount[w], error |-> TRUE] \in Row
    BY <1>2 DEF Row
  <2> QED
    BY <1>3, <1>4, <1>5, <2>1 DEF RecordError
<1>7. \A j \in Jobs : row'[j] = None <=> row[j] = None
  BY <1>1, <1>2, <1>3, <1>6
<1> QED
  BY <1>1, <1>4, <1>5, <1>7

LEMMA WorkerSchedule ==
    ASSUME Shapes, Schedule, NEW w \in Workers, WorkerStep(w) \/ WorkerTrouble(w)
    PROVE  Schedule'
BY RowWritten, WorkerFrame, ScheduleStays DEF Shapes

LEMMA AuthorSchedule ==
    ASSUME TypeOK, Schedule, PublishPost \/ DeletePost PROVE Schedule'
BY ScheduleStays DEF PublishPost, DeletePost, ingestQueue
-----------------------------------------------------------------------------
(* Answers.                                                                *)
InQueue == IdsOf(waiting) \union {m.id : m \in inflight}
OnRecord == unsent \union casualties \union unmarked

LEMMA Places ==
    \A j \in Jobs : /\ InProgress(j) <=> (schPc = "publish" /\ j = Current) \/ j \in InQueue
                    /\ GivenUp(j) <=> j \in OnRecord \/ (~Supported(j) /\ j \in IdsOf(dead))
BY DEF InProgress, GivenUp, InQueue, OnRecord, IdsOf

LEMMA PlacesNext ==
    \A j \in Jobs : /\ InProgress(j)' <=> (schPc' = "publish" /\ j = Current') \/ j \in InQueue'
                    /\ GivenUp(j)' <=> j \in OnRecord' \/ (~Supported(j) /\ j \in IdsOf(dead)')
BY DEF InProgress, GivenUp, InQueue, OnRecord, IdsOf, Supported

(* What is on record stays, and what a worker does not do leaves alone the *)
(* answers of the others.                                                  *)
LEMMA OthersAnswered ==
    ASSUME Shapes, Answers, NEW w \in Workers, NEW u \in Workers \ {w}, Same(u),
           unmarked \subseteq unmarked', wPc[w] = "idle" => row' = row,
           Ticked, \A j \in Jobs : j # JobOf(w) => row'[j] = row[j]
    PROVE  Answered(u)'
<1>1. Answered(u) /\ JobOf(u)' = JobOf(u) /\ wPc'[u] = wPc[u]
  BY DEF Answers, Same, JobOf
<1>2. wPc[u] # "idle" => row'[JobOf(u)] = row[JobOf(u)]
  BY Apart, Held
<1> QED
  BY <1>1, <1>2 DEF Answered, Terminal, Supported

(* A worker that keeps its message: its job stays in progress.             *)
LEMMA WorkingAnswers ==
    ASSUME Shapes, Schedule, Answers, NEW w \in Workers, wPc[w] # "idle",
           WorkerStep(w) \/ WorkerTrouble(w),
           UNCHANGED <<ingestQueue, wMsg>>, casualties' = casualties, unmarked \subseteq unmarked',
           Answered(w)'
    PROVE  Answers'
<1>1. /\ UNCHANGED <<published, urlJobs, scheduler, publication>>
      /\ \A u \in Workers \ {w} : Same(u)
      /\ \A j \in Jobs : j # JobOf(w) => row'[j] = row[j]
  BY WorkerFrame DEF Shapes
<1>2. \A u \in Workers : Answered(u)'
  BY <1>1, OthersAnswered DEF Schedule
<1>3. InQueue' = InQueue /\ IdsOf(dead)' = IdsOf(dead) /\ OnRecord \subseteq OnRecord'
      /\ schPc' = schPc /\ Current' = Current
  BY <1>1 DEF ingestQueue, InQueue, OnRecord, scheduler, Current
<1>4. JobOf(w) \in InQueue
  BY Held DEF InQueue, JobOf, Schedule
<1>5. StuckIngestIsExplained'
  <2>1. SUFFICES ASSUME NEW j \in Jobs, row'[j] # None, IsIngest(j), ~Terminal(j)'
                 PROVE  InProgress(j)' \/ GivenUp(j)'
    BY DEF StuckIngestIsExplained, IsIngest
  <2>2. CASE j = JobOf(w)
    BY <1>3, <1>4, <2>2, PlacesNext
  <2>3. CASE j # JobOf(w)
    <3>1. row[j] # None /\ ~Terminal(j)
      BY <1>1, <2>1, <2>3 DEF Terminal
    <3>2. InProgress(j) \/ GivenUp(j)
      BY <2>1, <3>1 DEF Answers, StuckIngestIsExplained
    <3> QED
      BY <1>3, <3>2, Places, PlacesNext
  <2> QED
    BY <2>2, <2>3
<1> QED
  BY <1>2, <1>5 DEF Answers

LEMMA TakeAnswers ==
    ASSUME Shapes, Schedule, Answers, NEW w \in Workers, TakeMessage(w) PROVE Answers'
<1>1. /\ waiting # <<>> /\ wMsg'[w] \in Messages(Jobs) /\ wMsg'[w].id = Head(waiting).id
      /\ inflight' = inflight \union {wMsg'[w]} /\ dead' = dead /\ waiting' = Tail(waiting)
  BY Takes
<1>2. /\ wPc[w] = "idle" /\ UNCHANGED <<row, scheduler, casualties, unmarked>>
      /\ wPc' = [wPc EXCEPT ![w] = IF Supported(Head(waiting).id) THEN "mark" ELSE "failed"]
  BY DEF TakeMessage, troubles
<1>3. \A u \in Workers \ {w} : Same(u)
  BY WorkerFrame DEF Shapes, WorkerStep
<1>4. \A u \in Workers \ {w} : Answered(u)'
  BY <1>2, <1>3, OthersAnswered DEF Schedule
<1>5. Answered(w)'
  BY <1>1, <1>2 DEF Answered, JobOf, Supported, Shapes, TypeOK
<1>6. InQueue \subseteq InQueue'
  <2>1. \A i \in IdsOf(waiting) : i = wMsg'[w].id \/ i \in IdsOf(waiting')
    BY <1>1, IdsBeheaded DEF Shapes, QueueHolds, QueueOK
  <2>2. IdsOf(waiting)' = IdsOf(waiting')
    BY DEF IdsOf
  <2> QED
    BY <1>1, <2>1, <2>2 DEF InQueue
<1>7. OnRecord' = OnRecord /\ IdsOf(dead)' = IdsOf(dead) /\ schPc' = schPc /\ Current' = Current
  BY <1>1, <1>2 DEF OnRecord, IdsOf, scheduler, Current
<1>8. StuckIngestIsExplained'
  <2>1. SUFFICES ASSUME NEW j \in Jobs, row'[j] # None, IsIngest(j), ~Terminal(j)'
                 PROVE  InProgress(j)' \/ GivenUp(j)'
    BY DEF StuckIngestIsExplained, IsIngest
  <2>2. InProgress(j) \/ GivenUp(j)
    BY <1>2, <2>1 DEF Answers, StuckIngestIsExplained, Terminal
  <2> QED
    BY <1>6, <1>7, <2>2, Places, PlacesNext
<1> QED
  BY <1>4, <1>5, <1>8 DEF Answers
(* A worker that is done with its message: acknowledged, it has its        *)
(* answer; requeued, it is in progress; given up, the reason is on record. *)
LEMMA SettleAnswers ==
    ASSUME Shapes, Schedule, Answers, NEW w \in Workers,
           SettleFailed(w) \/ AckMessage(w) \/ Die(w)
    PROVE  Answers'
<1> DEFINE m == wMsg[w]
<1>1. /\ wPc[w] # "idle" /\ row' = row /\ unmarked' = unmarked /\ casualties \subseteq casualties'
      /\ UNCHANGED scheduler /\ Idle(w)
  BY DEF SettleFailed, AckMessage, Die, troubles
<1>2. /\ m \in Messages(Jobs) /\ m \in inflight /\ JobOf(w) = m.id
      /\ waiting \in Seq(Messages(Jobs)) /\ dead \in Seq(Messages(Jobs))
  BY <1>1, Held DEF Shapes, QueueHolds, QueueOK, Schedule, JobOf
<1>3. \A u \in Workers : Answered(u)'
  <2>1. \A u \in Workers \ {w} : Same(u)
    BY WorkerFrame DEF Shapes, WorkerStep, WorkerTrouble
  <2>2. wPc'[w] = "idle"
    BY <1>1 DEF Idle, Shapes, TypeOK
  <2>3. Answered(w)'
    BY <2>2 DEF Answered
  <2> QED
    BY <1>1, <2>1, <2>3, OthersAnswered DEF Schedule
<1>4. OnRecord \subseteq OnRecord' /\ schPc' = schPc /\ Current' = Current
  BY <1>1 DEF OnRecord, scheduler, Current
<1> HIDE DEF m
<1>5. SUFFICES ASSUME NEW j \in Jobs, row'[j] # None, IsIngest(j), ~Terminal(j)'
               PROVE  InProgress(j)' \/ GivenUp(j)'
  BY <1>3 DEF Answers, StuckIngestIsExplained, IsIngest
<1>6. (InProgress(j) \/ GivenUp(j)) /\ ~Terminal(j)
  BY <1>1, <1>5 DEF Answers, StuckIngestIsExplained, Terminal
<1>7. CASE SettleFailed(w) /\ IngestQ!Requeue(wMsg[w])
  <2>1. waiting' = Append(waiting, m) /\ inflight' = inflight \ {m} /\ dead' = dead
    BY <1>7 DEF IngestQ!Requeue, m
  <2>2. IdsOf(waiting)' = IdsOf(waiting) \union {m.id} /\ IdsOf(dead)' = IdsOf(dead)
    BY <1>2, <2>1, IdsAppended DEF IdsOf
  <2>3. InQueue \subseteq InQueue'
    BY <1>2, <2>1, <2>2 DEF InQueue
  <2> QED
    BY <1>4, <1>6, <2>2, <2>3, Places, PlacesNext
<1>8. CASE ~(SettleFailed(w) /\ IngestQ!Requeue(wMsg[w]))
  <2>1. waiting' = waiting /\ inflight' = inflight \ {m}
        /\ (dead' = dead \/ (SettleFailed(w) /\ dead' = Append(dead, m)))
    BY <1>8 DEF SettleFailed, AckMessage, Die, IngestQ!DeadLetter, IngestQ!Ack, IngestQ!Abandon, m
  <2>2. /\ IdsOf(waiting)' = IdsOf(waiting) /\ IdsOf(dead) \subseteq IdsOf(dead)'
        /\ dead' = Append(dead, m) => m.id \in IdsOf(dead)'
    BY <1>2, <2>1, IdsAppended DEF IdsOf
  <2>3. \A i \in InQueue : i = m.id \/ i \in InQueue'
    BY <1>2, <2>1, <2>2 DEF InQueue
  <2>4. CASE j # m.id
    BY <1>4, <1>6, <2>2, <2>3, <2>4, Places, PlacesNext
  <2>5. CASE j = m.id /\ Die(w)
    BY <1>2, <2>5, PlacesNext DEF Die, OnRecord
  <2>6. CASE j = m.id /\ AckMessage(w)
    BY <1>2, <1>6, <2>6 DEF AckMessage, Answers, Answered
  <2>7. CASE j = m.id /\ SettleFailed(w)
    <3>1. j \in unmarked \/ ~Supported(j)
      BY <1>2, <1>6, <2>7 DEF SettleFailed, Answers, Answered
    <3>2. dead' = Append(dead, m)
      BY <1>8, <2>7 DEF SettleFailed, IngestQ!DeadLetter, m
    <3> QED
      BY <1>4, <2>2, <2>7, <3>1, <3>2, PlacesNext DEF OnRecord
  <2> QED
    BY <2>4, <2>5, <2>6, <2>7
<1> QED
  BY <1>7, <1>8

LEMMA WorkerAnswers ==
    ASSUME Shapes, Schedule, Answers, NEW w \in Workers, WorkerStep(w) \/ WorkerTrouble(w)
    PROVE  Answers'
<1>1. wPc \in [Workers -> Working \union {"idle"}] /\ JobOf(w)' = wMsg'[w].id
  BY DEF Shapes, TypeOK, Working, JobOf
<1>2. CASE TakeMessage(w)
  BY <1>2, TakeAnswers
<1>3. CASE SettleFailed(w) \/ AckMessage(w) \/ Die(w)
  BY <1>3, SettleAnswers
<1>4. CASE \/ MarkRunning(w) \/ FetchPage(w) \/ FetchEnvelope(w) \/ SkipSeen(w) \/ PutRaw(w)
           \/ WriteArticle(w) \/ ScrapeRaises(w)
  <2>1. /\ wPc[w] # "idle" /\ UNCHANGED <<ingestQueue, wMsg>>
        /\ casualties' = casualties /\ unmarked' = unmarked
    BY <1>4 DEF MarkRunning, FetchPage, TakePage, FetchEnvelope, SkipSeen, PutRaw, WriteArticle,
                ScrapeRaises, Raise, troubles
  <2>2. wPc'[w] \notin {"ack", "failed"}
    BY <1>1, <1>4 DEF MarkRunning, FetchPage, TakePage, FetchEnvelope, SkipSeen, PutRaw, WriteArticle,
                ScrapeRaises, Raise
  <2>3. Answered(w)'
    BY <2>2 DEF Answered
  <2> QED
    BY <2>1, <2>3, WorkingAnswers
<1>5. CASE ServeItem(w) \/ MissItem(w)
  <2>1. /\ wPc[w] \in {"items", "last"} /\ UNCHANGED <<ingestQueue, wMsg>>
        /\ casualties' = casualties /\ unmarked' = unmarked
    BY <1>5 DEF ServeItem, MissItem, Serving, AfterItem
  <2>2. wPc'[w] \notin {"ack", "failed"}
    BY <1>1, <1>5, <2>1 DEF ServeItem, MissItem, AfterItem
  <2>3. Answered(w)'
    BY <2>2 DEF Answered
  <2> QED
    BY <2>1, <2>3, WorkingAnswers
<1>6. CASE MarkDone(w) \/ RecordError(w)
  <2>1. /\ wPc[w] # "idle" /\ UNCHANGED <<ingestQueue, wMsg>>
        /\ casualties' = casualties /\ unmarked' = unmarked
    BY <1>6 DEF MarkDone, RecordError, troubles
  <2>2. row \in [Jobs -> Row \union {None}] /\ JobOf(w) \in Jobs /\ row[JobOf(w)] \in Row
        /\ wCount[w] \in Nat
    BY <2>1, Held DEF Shapes, TypeOK, Schedule
  <2>3. row'[JobOf(w)].status \in {"done", "error"} /\ row'[JobOf(w)] # None
    <3>1. CASE MarkDone(w)
      <4>1. row'[JobOf(w)] = [row[JobOf(w)] EXCEPT !.status = "done", !.count = wCount[w]]
        BY <2>2, <3>1, RowWritten DEF WorkerStep
      <4>2. [row[JobOf(w)] EXCEPT !.status = "done", !.count = wCount[w]] \in Row
            /\ [row[JobOf(w)] EXCEPT !.status = "done", !.count = wCount[w]].status = "done"
        BY <2>2 DEF Row
      <4> QED
        BY <4>1, <4>2, NoneApart
    <3>2. CASE RecordError(w)
      <4>1. row'[JobOf(w)] = [status |-> "error", count |-> wCount[w], error |-> TRUE]
        BY <2>2, <3>2 DEF RecordError
      <4>2. /\ [status |-> "error", count |-> wCount[w], error |-> TRUE] \in Row
            /\ [status |-> "error", count |-> wCount[w], error |-> TRUE].status = "error"
        BY <2>2 DEF Row
      <4> QED
        BY <4>1, <4>2, NoneApart
    <3> QED
      BY <1>6, <3>1, <3>2
  <2>4. Answered(w)'
    BY <2>1, <2>3 DEF Answered, Terminal, JobOf
  <2> QED
    BY <2>1, <2>4, WorkingAnswers
<1>7. CASE StatusRaises(w)
  <2>1. /\ wPc[w] # "idle" /\ UNCHANGED <<ingestQueue, wMsg>> /\ casualties' = casualties
        /\ unmarked' = unmarked \union {JobOf(w)} /\ wPc' = [wPc EXCEPT ![w] = "failed"]
    BY <1>7 DEF StatusRaises, Raise
  <2>2. Answered(w)'
    BY <1>1, <2>1 DEF Answered, JobOf
  <2> QED
    BY <2>1, <2>2, WorkingAnswers
<1> QED
  BY <1>2, <1>3, <1>4, <1>5, <1>6, <1>7 DEF WorkerStep, WorkerTrouble
LEMMA AuthorAnswers ==
    ASSUME Answers, PublishPost \/ DeletePost PROVE Answers'
<1>1. UNCHANGED <<ingestQueue, row, scheduler, wPc, wMsg, casualties, unmarked>>
  BY DEF PublishPost, DeletePost, workers, troubles
<1>2. InQueue' = InQueue /\ IdsOf(dead)' = IdsOf(dead) /\ OnRecord' = OnRecord
      /\ schPc' = schPc /\ Current' = Current
  BY <1>1 DEF ingestQueue, InQueue, OnRecord, scheduler, Current, IdsOf
<1>3. StuckIngestIsExplained'
  <2>1. \A j \in Jobs : (InProgress(j)' <=> InProgress(j)) /\ (GivenUp(j)' <=> GivenUp(j))
    BY <1>2, Places, PlacesNext
  <2> QED
    BY <1>1, <2>1 DEF Answers, StuckIngestIsExplained, Terminal, IsIngest
<1>4. \A u \in Workers : Answered(u)'
  BY <1>1 DEF Answers, Answered, Terminal, JobOf, Supported
<1> QED
  BY <1>3, <1>4 DEF Answers

(* The scheduler: a new row is about to be sent, and once it is, waits.    *)
LEMMA SchedulerAnswers ==
    ASSUME Shapes, Schedule, Answers, StartTick \/ EnqueueStep \/ TickFails
    PROVE  Answers'
<1>1. /\ workers' = workers /\ casualties' = casualties /\ unmarked' = unmarked
      /\ wPc' = wPc /\ wMsg' = wMsg /\ Busy' = Busy
  BY DEF StartTick, EnqueueStep, CreateRow, PublishMessage, EndTick, TickFails, troubles, workers, Busy
<1>2. schPc \in {"create", "publish"} /\ due # {} =>
         /\ Current \in Jobs /\ Current[2] \in due /\ Current = <<tick, Current[2]>>
  BY DanglesNow DEF Shapes
<1>3. CreateRow => row[Current] = None
  BY <1>2 DEF CreateRow, Schedule, Ticking, Created
<1>4. \A j \in Jobs : row'[j] = row[j] \/ (CreateRow /\ j = Current)
  BY DEF StartTick, EnqueueStep, CreateRow, PublishMessage, EndTick, TickFails, Shapes, TypeOK
<1>5. \A u \in Workers : Answered(u)'
  <2> TAKE u \in Workers
  <2>1. Answered(u) /\ JobOf(u)' = JobOf(u)
    BY <1>1 DEF Answers, JobOf
  <2>2. wPc[u] # "idle" => row'[JobOf(u)] = row[JobOf(u)]
    BY <1>3, <1>4, Held, NoneApart DEF Schedule
  <2> QED
    BY <1>1, <2>1, <2>2 DEF Answered, Terminal, Supported
<1>6. SUFFICES ASSUME NEW j \in Jobs, row'[j] # None, IsIngest(j), ~Terminal(j)'
               PROVE  InProgress(j)' \/ GivenUp(j)'
  BY <1>5 DEF Answers, StuckIngestIsExplained, IsIngest
<1>7. row'[j] = row[j] => InProgress(j) \/ GivenUp(j)
  BY <1>6 DEF Answers, StuckIngestIsExplained, Terminal
<1>8. CASE StartTick \/ EndTick
  <2>1. /\ schPc # "publish" /\ InQueue' = InQueue /\ OnRecord' = OnRecord
        /\ IdsOf(dead)' = IdsOf(dead) /\ row' = row
    BY <1>8 DEF StartTick, EndTick, InQueue, OnRecord, IdsOf, ingestQueue, troubles
  <2> QED
    BY <1>7, <2>1, Places, PlacesNext
<1>9. CASE CreateRow
  <2>1. /\ schPc' = "publish" /\ schPc # "publish" /\ Current' = Current /\ InQueue' = InQueue
        /\ OnRecord' = OnRecord /\ IdsOf(dead)' = IdsOf(dead)
    BY <1>9 DEF CreateRow, InQueue, OnRecord, IdsOf, ingestQueue, troubles, Current
  <2> QED
    BY <1>4, <1>7, <2>1, Places, PlacesNext
<1>10. CASE (PublishMessage \/ TickFails) /\ schPc = "publish" /\ Route(Current)
  <2>1. row' = row /\ OnRecord \subseteq OnRecord' /\ Current \in Jobs
    BY <1>1, <1>2, <1>10 DEF PublishMessage, TickFails, OnRecord, Schedule, Ticked
  <2>2. /\ dead' = dead /\ inflight' = inflight
        /\ IF IsIngest(Current) THEN waiting' = Append(waiting, [id |-> Current, attempts |-> 0])
           ELSE waiting' = waiting
    BY <1>1, <1>10, <2>1, Routes
  <2>3. IdsOf(dead)' = IdsOf(dead) /\ InQueue \subseteq InQueue'
        /\ (IsIngest(Current) => Current \in InQueue')
    <3> DEFINE m == [id |-> Current, attempts |-> 0]
    <3>1. m \in Messages(Jobs) /\ m.id = Current /\ (IsIngest(Current) => waiting' = Append(waiting, m))
      BY <2>1, <2>2 DEF Messages
    <3> HIDE DEF m
    <3>2. waiting \in Seq(Messages(Jobs))
      BY DEF Shapes, QueueHolds, QueueOK
    <3>3. CASE IsIngest(Current)
      <4>1. IdsOf(waiting') = IdsOf(waiting) \union {Current}
        BY <3>1, <3>2, <3>3, IdsAppended
      <4>2. IdsOf(waiting)' = IdsOf(waiting') /\ IdsOf(dead)' = IdsOf(dead')
        BY DEF IdsOf
      <4> QED
        BY <2>2, <3>3, <4>1, <4>2 DEF InQueue
    <3>4. CASE ~IsIngest(Current)
      BY <2>2, <3>4 DEF InQueue, IdsOf
    <3> QED
      BY <3>3, <3>4
  <2> QED
    BY <1>6, <1>7, <2>1, <2>3, Places, PlacesNext
<1>11. CASE TickFails /\ UNCHANGED <<ingestQueue, urlJobs>>
            /\ unsent' = IF schPc = "publish" THEN unsent \union {Current} ELSE unsent
  <2>1. /\ row' = row /\ InQueue' = InQueue /\ IdsOf(dead)' = IdsOf(dead) /\ OnRecord \subseteq OnRecord'
        /\ (schPc = "publish" => Current \in OnRecord')
    BY <1>1, <1>11 DEF TickFails, InQueue, IdsOf, ingestQueue, OnRecord
  <2> QED
    BY <1>7, <2>1, Places, PlacesNext
<1> QED
  BY <1>8, <1>9, <1>10, <1>11 DEF EnqueueStep, PublishMessage, TickFails
-----------------------------------------------------------------------------
(* Counts.                                                                 *)
LEMMA CountedStays ==
    ASSUME NEW u \in Workers, Counted(u), articles \subseteq articles', raw \subseteq raw',
           wSeen'[u] = wSeen[u], wCount'[u] = wCount[u],
           wPc'[u] = "write" => wPc[u] = "write" /\ wFound'[u] = wFound[u]
    PROVE  Counted(u)'
BY DEF Counted

(* What is done stays as it was recorded.                                  *)
LEMMA DoneStays ==
    ASSUME DoneCountsArticles, articles \subseteq articles', articles' \subseteq raw',
           \A j \in Jobs : row'[j] # None /\ row'[j].status = "done" =>
               row'[j] = row[j] /\ outcome'[j] = outcome[j]
    PROVE  DoneCountsArticles'
BY DEF DoneCountsArticles

(* A worker other than one that has just finished leaves done jobs alone.  *)
LEMMA DoneUntouched ==
    ASSUME Shapes, Schedule, Recorded, NEW w \in Workers, WorkerStep(w) \/ WorkerTrouble(w)
    PROVE  /\ Recorded'
           /\ \A j \in Jobs : row'[j] # None /\ row'[j].status = "done" =>
                  \/ row'[j] = row[j] /\ outcome'[j] = outcome[j]
                  \/ MarkDone(w) /\ j = JobOf(w)
           /\ MarkDone(w) => /\ JobOf(w) \in Jobs /\ row'[JobOf(w)].count = wCount[w]
                             /\ outcome'[JobOf(w)] = [had |-> wHad[w], saved |-> wSeen[w],
                                                      missed |-> wMissed[w], flaws |-> wFlaws[w]]
<1>1. \A j \in Jobs : j # JobOf(w) => row'[j] = row[j]
  BY WorkerFrame DEF Shapes
<1>2. outcome' = outcome \/ MarkDone(w)
  BY DEF WorkerStep, WorkerTrouble, TakeMessage, MarkRunning, FetchPage, TakePage, ServeItem, MissItem,
         AfterItem, FetchEnvelope, SkipSeen, PutRaw, WriteArticle, RecordError, ScrapeRaises,
         StatusRaises, Raise, SettleFailed, AckMessage, Die
<1>3. MarkRunning(w) \/ MarkDone(w) \/ RecordError(w) =>
         JobOf(w) \in Jobs /\ row[JobOf(w)] \in Row /\ row[JobOf(w)] # None
  BY Held DEF MarkRunning, MarkDone, RecordError, Schedule
<1>4. row \in [Jobs -> Row \union {None}] /\ wCount[w] \in Nat
  BY DEF Shapes, TypeOK
<1>5. CASE MarkDone(w)
  <2> DEFINE new == [had |-> wHad[w], saved |-> wSeen[w], missed |-> wMissed[w], flaws |-> wFlaws[w]]
  <2>1. outcome' = [outcome EXCEPT ![JobOf(w)] = new] /\ JobOf(w) \in Jobs
    BY <1>3, <1>5 DEF MarkDone
  <2>2. new \in Outcome
    BY DEF Outcome, Shapes, TypeOK
  <2>3. row'[JobOf(w)].count = wCount[w]
    <3>1. row'[JobOf(w)] = [row[JobOf(w)] EXCEPT !.status = "done", !.count = wCount[w]]
      BY <1>3, <1>4, <1>5, RowWritten
    <3>2. [row[JobOf(w)] EXCEPT !.status = "done", !.count = wCount[w]].count = wCount[w]
      BY <1>3, <1>5 DEF Row
    <3> QED
      BY <3>1, <3>2
  <2> HIDE DEF new
  <2>4. Recorded' /\ outcome'[JobOf(w)] = new
        /\ \A j \in Jobs : j # JobOf(w) => outcome'[j] = outcome[j]
    BY <2>1, <2>2 DEF Recorded
  <2> QED
    BY <1>1, <1>5, <2>1, <2>3, <2>4 DEF new
<1>6. CASE ~MarkDone(w)
  <2>1. row'[JobOf(w)] = row[JobOf(w)] \/ row'[JobOf(w)].status # "done"
    <3>1. MarkRunning(w) => row'[JobOf(w)].status = "running"
      <4>1. MarkRunning(w) => row'[JobOf(w)] = [row[JobOf(w)] EXCEPT !.status = "running"]
        BY <1>3, <1>4, RowWritten
      <4>2. row[JobOf(w)] \in Row => [row[JobOf(w)] EXCEPT !.status = "running"].status = "running"
        BY DEF Row
      <4> QED
        BY <1>3, <4>1, <4>2
    <3>2. RecordError(w) => row'[JobOf(w)].status = "error"
      BY <1>3, <1>4 DEF RecordError
    <3>3. row' = row \/ MarkRunning(w) \/ RecordError(w)
      BY <1>6, RowWritten
    <3> QED
      BY <3>1, <3>2, <3>3
  <2> QED
    BY <1>1, <1>2, <1>6, <2>1 DEF Recorded
<1> QED
  BY <1>5, <1>6

LEMMA SetGrows ==
    ASSUME NEW S \in SUBSET Posts, NEW p \in Posts \ S
    PROVE  Cardinality(S \union {p}) = Cardinality(S) + 1
<1>1. IsFiniteSet(1 .. MaxPosts)
  BY FS_Interval, NumbersAssumption
<1>2. IsFiniteSet(S)
  BY <1>1, FS_Subset DEF Posts
<1> QED
  BY <1>2, FS_AddElement

LEMMA WorkerCounts ==
    ASSUME Shapes, Schedule, Counts, NEW w \in Workers, WorkerStep(w) \/ WorkerTrouble(w)
    PROVE  Counts'
<1>1. /\ \A u \in Workers \ {w} : Same(u)
      /\ wPc \in [Workers -> Working \union {"idle"}] /\ wSeen[w] \subseteq Posts
      /\ wFound[w] \in Seq(Posts) /\ articles \subseteq raw /\ Counted(w)
      /\ wSeen \in [Workers -> SUBSET Posts] /\ wCount \in [Workers -> Nat]
  BY WorkerFrame DEF Shapes, TypeOK, Working, Counts, DoneCountsArticles
<1>2. wPc[w] = "write" => Head(wFound[w]) \in Posts \ wSeen[w] /\ Head(wFound[w]) \in raw
  BY <1>1, HeadTailProperties DEF Counted
<1>3. /\ articles \subseteq articles' /\ raw \subseteq raw' /\ articles' \subseteq raw'
      /\ articles' = articles \/ articles' = articles \union {Head(wFound[w])}
  <2>1. CASE PutRaw(w)
    BY <1>1, <2>1 DEF PutRaw
  <2>2. CASE WriteArticle(w) \/ ScrapeRaises(w)
    BY <1>1, <1>2, <2>2 DEF WriteArticle, ScrapeRaises
  <2>3. CASE ~(PutRaw(w) \/ WriteArticle(w) \/ ScrapeRaises(w))
    <3>1. UNCHANGED <<raw, articles>>
      BY <2>3 DEF WorkerStep, WorkerTrouble, TakeMessage, MarkRunning, FetchPage, TakePage, ServeItem,
             MissItem, AfterItem, FetchEnvelope, SkipSeen, MarkDone, RecordError, StatusRaises,
             SettleFailed, AckMessage, Die
    <3> QED
      BY <1>1, <3>1
  <2> QED
    BY <2>1, <2>2, <2>3
<1>4. \A u \in Workers \ {w} : Counted(u)'
  BY <1>1, <1>3, CountedStays DEF Counts, Same
<1>5. Counted(w)'
  <2>1. CASE PutRaw(w)
    <3>1. wSeen'[w] = wSeen[w] /\ wCount'[w] = wCount[w] /\ wFound'[w] = wFound[w]
          /\ wFound[w] # <<>> /\ Head(wFound[w]) \notin wSeen[w] /\ Head(wFound[w]) \in raw'
          /\ articles' = articles
      BY <2>1 DEF PutRaw, paging, saving
    <3> QED
      BY <1>1, <3>1 DEF Counted
  <2>2. CASE WriteArticle(w)
    <3>1. /\ wSeen'[w] = wSeen[w] \union {Head(wFound[w])} /\ wCount'[w] = wCount[w] + 1
          /\ wPc'[w] = "persist" /\ articles' = articles \union {Head(wFound[w])} /\ wPc[w] = "write"
      BY <1>1, <2>2 DEF WriteArticle
    <3>2. Cardinality(wSeen[w] \union {Head(wFound[w])}) = Cardinality(wSeen[w]) + 1
      BY <1>1, <1>2, <3>1, SetGrows
    <3> QED
      BY <1>1, <3>1, <3>2 DEF Counted
  <2>3. CASE SettleFailed(w) \/ AckMessage(w) \/ Die(w)
    <3>1. wSeen'[w] = {} /\ wCount'[w] = 0 /\ wPc'[w] = "idle"
      BY <1>1, <2>3 DEF SettleFailed, AckMessage, Die, Idle
    <3> QED
      BY <3>1, FS_EmptySet DEF Counted
  <2>4. CASE ~(PutRaw(w) \/ WriteArticle(w) \/ SettleFailed(w) \/ AckMessage(w) \/ Die(w))
    <3>1. wSeen'[w] = wSeen[w] /\ wCount'[w] = wCount[w]
      BY <2>4 DEF WorkerStep, WorkerTrouble, TakeMessage, MarkRunning, FetchPage, TakePage, ServeItem,
             MissItem, AfterItem, FetchEnvelope, SkipSeen, MarkDone, RecordError, ScrapeRaises,
             StatusRaises, Raise, saving
    <3>2. wPc'[w] # "write"
      <4>1. CASE ServeItem(w) \/ MissItem(w)
        BY <1>1, <4>1 DEF ServeItem, MissItem, AfterItem, Serving
      <4>2. CASE SkipSeen(w)
        BY <4>2 DEF SkipSeen
      <4>3. CASE ~(ServeItem(w) \/ MissItem(w) \/ SkipSeen(w))
        BY <1>1, <2>4, <4>3 DEF WorkerStep, WorkerTrouble, TakeMessage, MarkRunning, FetchPage,
               TakePage, FetchEnvelope, MarkDone, RecordError, ScrapeRaises, StatusRaises, Raise
      <4> QED
        BY <4>1, <4>2, <4>3
    <3> QED
      BY <1>1, <1>3, <3>1, <3>2, CountedStays
  <2> QED
    BY <2>1, <2>2, <2>3, <2>4
<1>6. Recorded' /\ DoneCountsArticles'
  <2>1. CASE MarkDone(w)
    <3>1. articles' = articles /\ raw' = raw
      BY <2>1 DEF MarkDone
    <3>2. outcome'[JobOf(w)].saved = wSeen[w] /\ row'[JobOf(w)].count = wCount[w]
      <4>1. /\ row'[JobOf(w)].count = wCount[w]
            /\ outcome'[JobOf(w)] = [had |-> wHad[w], saved |-> wSeen[w],
                                     missed |-> wMissed[w], flaws |-> wFlaws[w]]
        BY <2>1, DoneUntouched DEF Counts
      <4> QED
        BY <4>1
    <3>3. \A j \in Jobs \ {JobOf(w)} : row'[j] # None /\ row'[j].status = "done" =>
               row'[j] = row[j] /\ outcome'[j] = outcome[j]
      BY DoneUntouched DEF Counts
    <3>4. wSeen[w] \subseteq articles /\ wCount[w] = Cardinality(wSeen[w])
      BY <1>1 DEF Counted
    <3> QED
      BY <3>1, <3>2, <3>3, <3>4, DoneUntouched DEF Counts, DoneCountsArticles
  <2>2. CASE ~MarkDone(w)
    BY <1>3, <2>2, DoneUntouched, DoneStays DEF Counts
  <2> QED
    BY <2>1, <2>2
<1> QED
  BY <1>4, <1>5, <1>6 DEF Counts

(* The scheduler and the author leave what is done alone.                  *)
LEMMA OtherCounts ==
    ASSUME Shapes, Schedule, Counts, StartTick \/ EnqueueStep \/ TickFails \/ PublishPost \/ DeletePost
    PROVE  Counts'
<1>1. UNCHANGED <<raw, articles, outcome, wPc, wFound, wSeen, wCount>>
  BY DEF StartTick, EnqueueStep, CreateRow, PublishMessage, EndTick, TickFails, PublishPost,
         DeletePost, workers, paging, saving
<1>2. \A u \in Workers : Counted(u)'
  BY <1>1, CountedStays DEF Counts
<1>3. \A j \in Jobs : row'[j] # None /\ row'[j].status = "done" => row'[j] = row[j]
  <2>1. row' = row \/ row' = [row EXCEPT ![Current] = [status |-> "queued", count |-> 0, error |-> FALSE]]
    BY DEF StartTick, EnqueueStep, CreateRow, PublishMessage, EndTick, TickFails, PublishPost, DeletePost
  <2>2. [status |-> "queued", count |-> 0, error |-> FALSE].status # "done"
    OBVIOUS
  <2> QED
    BY <2>1, <2>2 DEF Shapes, TypeOK
<1> QED
  BY <1>1, <1>2, <1>3, DoneStays DEF Counts, Recorded, DoneCountsArticles
-----------------------------------------------------------------------------
(* Pages.                                                                  *)

(* What paging needs of a worker does not look at the other workers.       *)
LEMMA PagedStays ==
    ASSUME NEW u \in Workers, Paged(u), wOffset'[u] = wOffset[u], wPage'[u] = wPage[u],
           wFound'[u] = wFound[u], wSeen'[u] = wSeen[u], wHad'[u] = wHad[u],
           wMissed'[u] = wMissed[u], wFlaws'[u] = wFlaws[u],
           \/ wPc'[u] = wPc[u]
           \/ wPc[u] = "persist" /\ wPc'[u] = "write",
           PageToCome(u) => Beyond(u) \subseteq Beyond(u)'
    PROVE  Paged(u)'
<1>1. Found(u)' = Found(u) /\ Owing(u)' = Owing(u)
  BY DEF Found, Owing, Items
<1>2. Items(wPage[u])' = Items(wPage[u])
  BY DEF Items
<1>3. (Serving(u)' <=> Serving(u)) /\ (Scraping(u)' <=> Scraping(u))
  BY DEF Serving, Scraping
<1>4. Ahead(u) => Ahead(u)'
  BY <1>1, <1>2 DEF Ahead, PageToCome
<1>5. Ordered(u) => Ordered(u)'
  BY <1>1, <1>2, <1>3 DEF Ordered
<1> QED
  BY <1>3, <1>4, <1>5 DEF Paged, Descends, Readable

LEMMA SkippedStays ==
    ASSUME NothingSkipped,
           \A j \in Jobs : row'[j] # None /\ row'[j].status = "done" =>
               row'[j] = row[j] /\ outcome'[j] = outcome[j]
    PROVE  NothingSkipped'
BY DEF NothingSkipped

LEMMA SchedulerPages ==
    ASSUME Shapes, Pages, StartTick \/ EnqueueStep \/ TickFails PROVE Pages'
<1>1. UNCHANGED <<outcome, publication, wPc, wOffset, wPage, wFound, wSeen, wHad, wMissed, wFlaws>>
  BY DEF StartTick, EnqueueStep, CreateRow, PublishMessage, EndTick, TickFails, workers, paging, saving
<1>2. archive' = archive /\ newest' = newest
  BY <1>1 DEF publication
<1>3. \A u \in Workers : Paged(u)'
  BY <1>1, <1>2, PagedStays DEF Pages, Beyond
<1>4. \A j \in Jobs : row'[j] # None /\ row'[j].status = "done" => row'[j] = row[j]
  <2>1. row' = row \/ row' = [row EXCEPT ![Current] = [status |-> "queued", count |-> 0, error |-> FALSE]]
    BY DEF StartTick, EnqueueStep, CreateRow, PublishMessage, EndTick, TickFails
  <2>2. [status |-> "queued", count |-> 0, error |-> FALSE].status # "done"
    OBVIOUS
  <2> QED
    BY <2>1, <2>2 DEF Shapes, TypeOK
<1>5. NothingSkipped'
  BY <1>1, <1>4, SkippedStays DEF Pages
<1> QED
  BY <1>2, <1>3, <1>5 DEF Pages, Archived, Descends

(* A post published pushes the others down, out of no page to come.        *)
LEMMA PublishPages ==
    ASSUME Shapes, Pages, PublishPost PROVE Pages'
<1>1. UNCHANGED <<row, outcome, wPc, wOffset, wPage, wFound, wSeen, wHad, wMissed, wFlaws>>
  BY DEF PublishPost, workers, paging, saving
<1>2. /\ archive' \in Seq(Posts) /\ Len(archive) \in Nat /\ Len(archive') = Len(archive) + 1
      /\ archive'[1] = newest' /\ newest' = newest + 1
      /\ \A k \in 1 .. Len(archive) + 1 : k # 1 => k - 1 \in 1 .. Len(archive) /\ archive'[k] = archive[k - 1]
      /\ \A k \in 1 .. Len(archive) : k + 1 \in 1 .. Len(archive) + 1 /\ archive'[k + 1] = archive[k]
  BY PostPublished DEF Shapes, PublishPost
<1>3. newest \in Nat /\ \A k \in 1 .. Len(archive) : archive[k] \in Nat
  <2>1. archive \in Seq(Posts) /\ newest \in Nat
    BY DEF Shapes, TypeOK
  <2>2. \A p \in Posts : p \in Nat
    BY NumbersAssumption DEF Posts
  <2> QED
    BY <2>1, <2>2, ElementOfSeq
<1>4. Archived'
  <2>1. \A i \in 1 .. Len(archive') : archive'[i] <= newest'
    BY <1>2, <1>3 DEF Pages, Archived
  <2>2. ASSUME NEW i \in 1 .. Len(archive'), NEW k \in 1 .. Len(archive'), i < k
        PROVE  archive'[i] > archive'[k]
    <3>1. k - 1 \in 1 .. Len(archive) /\ archive'[k] = archive[k - 1]
      BY <1>2, <2>2
    <3>2. CASE i = 1
      BY <1>2, <1>3, <3>1, <3>2 DEF Pages, Archived
    <3>3. CASE i # 1
      <4>1. i - 1 \in 1 .. Len(archive) /\ archive'[i] = archive[i - 1] /\ i - 1 < k - 1
        BY <1>2, <2>2, <3>3
      <4> QED
        BY <3>1, <4>1 DEF Pages, Archived, Descends
    <3> QED
      BY <3>2, <3>3
  <2> QED
    BY <2>1, <2>2 DEF Archived, Descends
<1>5. ASSUME NEW u \in Workers PROVE Paged(u)'
  <2>1. wOffset[u] \in Nat
    BY DEF Shapes, TypeOK
  <2>2. Beyond(u) \subseteq Beyond(u)'
    <3>1. SUFFICES ASSUME NEW k \in 1 .. Len(archive), k > wOffset[u] PROVE archive[k] \in Beyond(u)'
      BY DEF Beyond
    <3>2. k + 1 \in 1 .. Len(archive') /\ k + 1 > wOffset'[u] /\ archive'[k + 1] = archive[k]
      BY <1>1, <1>2, <2>1, <3>1
    <3> QED
      BY <3>2 DEF Beyond
  <2> QED
    BY <1>1, <2>2, PagedStays DEF Pages
<1>6. NothingSkipped'
  BY <1>1, SkippedStays DEF Pages
<1> QED
  BY <1>4, <1>5, <1>6 DEF Pages

(* A post deleted moves the others up, which is noted where it matters.    *)
LEMMA DeletePages ==
    ASSUME Shapes, Pages, DeletePost PROVE Pages'
<1>1. /\ UNCHANGED <<row, outcome, wPc, wOffset, wPage, wFound, wSeen, wHad, wMissed, newest>>
      /\ wFlaws' = [w \in Workers |-> IF PageToCome(w) THEN wFlaws[w] \union {"deletion"} ELSE wFlaws[w]]
  BY DEF DeletePost, saving
<1>2. /\ Len(archive) \in Nat /\ Len(archive') = Len(archive) - 1
      /\ \E i \in 1 .. Len(archive) : \A k \in 1 .. Len(archive') :
            archive'[k] = archive[IF k < i THEN k ELSE k + 1]
  BY PostDeleted DEF Shapes
<1>3. Archived'
  <2>1. PICK i \in 1 .. Len(archive) : \A k \in 1 .. Len(archive') :
            archive'[k] = archive[IF k < i THEN k ELSE k + 1]
    BY <1>2
  <2> DEFINE at(k) == IF k < i THEN k ELSE k + 1
  <2>2. \A k \in 1 .. Len(archive') : at(k) \in 1 .. Len(archive) /\ archive'[k] = archive[at(k)]
    BY <1>2, <2>1
  <2>3. \A k, l \in 1 .. Len(archive') : k < l => at(k) < at(l)
    BY <1>2, <2>1
  <2> HIDE DEF at
  <2> QED
    BY <1>1, <2>2, <2>3 DEF Pages, Archived, Descends
<1>4. ASSUME NEW u \in Workers PROVE Paged(u)'
  <2>1. Paged(u)
    BY DEF Pages
  <2>2. CASE PageToCome(u)
    <3>1. /\ wPc'[u] \notin {"idle", "mark"} /\ "deletion" \in wFlaws'[u] /\ (Serving(u)' <=> Serving(u))
          /\ wPage'[u] = wPage[u] /\ wHad'[u] = wHad[u]
      BY <1>1, <2>2 DEF PageToCome, Serving
    <3> QED
      BY <2>1, <3>1 DEF Paged, Descends, Readable
  <2>3. CASE ~PageToCome(u)
    BY <1>1, <2>1, <2>3, PagedStays
  <2> QED
    BY <2>2, <2>3
<1>5. NothingSkipped'
  BY <1>1, SkippedStays DEF Pages
<1> QED
  BY <1>3, <1>4, <1>5 DEF Pages
(* A page is fetched: what the scrape owes is on it or further down, and   *)
(* after a short page there is nothing further down.                       *)
LEMMA FetchPaged ==
    ASSUME Shapes, Pages, NEW w \in Workers, FetchPage(w) PROVE Paged(w)'
<1> DEFINE o == wOffset[w]
           page == PageAt(wOffset[w])
<1>1. /\ wPc[w] = "page" /\ o \in Nat /\ archive' = archive
      /\ wPage' = [wPage EXCEPT ![w] = page] /\ wOffset' = [wOffset EXCEPT ![w] = @ + Len(page)]
      /\ UNCHANGED <<wFound, wSeen, wHad, wMissed, wFlaws>>
      /\ wPc' = [wPc EXCEPT ![w] = IF wPage'[w] = <<>> THEN "persist"
                                   ELSE IF Len(wPage'[w]) < PageSize THEN "last" ELSE "items"]
  BY DEF FetchPage, TakePage, Shapes, TypeOK, saving, publication
<1>2. /\ page \in Seq(Posts) /\ Len(page) \in 0 .. PageSize
      /\ \A k \in 1 .. Len(page) : o + k \in 1 .. Len(archive) /\ page[k] = archive[o + k]
      /\ Len(page) < PageSize => o + Len(page) >= Len(archive)
  BY <1>1, PageHas DEF Shapes
<1>3. archive \in Seq(Posts) /\ Len(archive) \in Nat /\ PageSize \in Nat \ {0}
      /\ \A k \in 1 .. Len(archive) : archive[k] \in Nat
  <2>1. archive \in Seq(Posts) /\ PageSize \in Nat \ {0} /\ Posts \subseteq Nat
    BY NumbersAssumption DEF Shapes, TypeOK, Posts
  <2> QED
    BY <2>1, LenProperties, ElementOfSeq
<1> HIDE DEF page, o
<1>4. wPage'[w] = page /\ wOffset'[w] = o + Len(page) /\ Len(page) \in Nat
      /\ wPc'[w] = IF page = <<>> THEN "persist" ELSE IF Len(page) < PageSize THEN "last" ELSE "items"
  BY <1>1, <1>2, <1>3 DEF Shapes, TypeOK, o
<1>5. Found(w)' = Found(w) /\ Owing(w)' = Owing(w) /\ Items(wPage[w])' = Items(page)
  BY <1>1, <1>4 DEF Found, Owing, Items
<1>6. Beyond(w) = Items(page) \union Beyond(w)'
  <2>1. Beyond(w) = {archive[i] : i \in {k \in 1 .. Len(archive) : k > o}}
        /\ Beyond(w)' = {archive[i] : i \in {k \in 1 .. Len(archive) : k > o + Len(page)}}
    BY <1>1, <1>4 DEF Beyond, o
  <2>2. \A k \in 1 .. Len(archive) : k > o + Len(page) => k > o
    BY <1>1, <1>3, <1>4
  <2>3. \A k \in 1 .. Len(archive) : k > o /\ ~(k > o + Len(page)) =>
            k - o \in 1 .. Len(page) /\ page[k - o] = archive[k]
    BY <1>1, <1>2, <1>3, <1>4
  <2>4. \A k \in 1 .. Len(page) : o + k \in 1 .. Len(archive) /\ o + k > o /\ page[k] = archive[o + k]
    BY <1>1, <1>2, <1>4
  <2>5. Items(page) \subseteq Beyond(w)
    BY <2>1, <2>4 DEF Items
  <2>6. Beyond(w)' \subseteq Beyond(w)
    BY <2>1, <2>2
  <2>7. Beyond(w) \subseteq Items(page) \union Beyond(w)'
    BY <2>1, <2>3 DEF Items
  <2> QED
    BY <2>5, <2>6, <2>7
<1>7. Len(page) < PageSize => Beyond(w)' = {}
  BY <1>1, <1>2, <1>3, <1>4 DEF Beyond
<1>8. page = <<>> => Len(page) < PageSize /\ Items(page) = {}
  BY <1>3, EmptySeq, ItemsOfNone
<1>9. Descends(page)
  BY <1>1, <1>2, <1>3, <1>4 DEF Pages, Archived, Descends
<1>10. \A p \in Beyond(w)', x \in Items(page) : p < x
  <2>1. SUFFICES ASSUME NEW k \in 1 .. Len(archive), k > o + Len(page), NEW i \in 1 .. Len(page)
                 PROVE  archive[k] < page[i]
    BY <1>1, <1>4 DEF Beyond, Items
  <2>2. o + i \in 1 .. Len(archive) /\ o + i < k /\ page[i] = archive[o + i]
    BY <1>1, <1>2, <1>4, <2>1
  <2> QED
    BY <1>3, <2>2 DEF Pages, Archived, Descends
<1>11. ASSUME "deletion" \notin wFlaws[w] PROVE Ahead(w)' /\ Ordered(w)'
  <2>1. Owing(w) \subseteq Beyond(w) /\ Ordered(w)
    BY <1>1, <1>11 DEF Pages, Paged, Scraping, Ahead
  <2>2. Ahead(w)'
    BY <1>4, <1>5, <1>6, <1>7, <1>8, <2>1 DEF Ahead
  <2>3. Ordered(w)'
    <3>1. \A p \in Owing(w)', q \in (wHad[w] \intersect Found(w))' : p < q
      BY <1>1, <1>5, <2>1 DEF Ordered
    <3>2. \A p \in Owing(w)' \ Items(wPage[w])', x \in Items(wPage[w])' : p < x
      BY <1>5, <1>6, <1>10, <2>1
    <3> QED
      BY <3>1, <3>2 DEF Ordered
  <2> QED
    BY <2>2, <2>3
<1>12. wPc'[w] \notin {"idle", "mark"} /\ (Serving(w)' => wPage'[w] # <<>>)
  BY <1>4 DEF Serving
<1> QED
  BY <1>1, <1>4, <1>9, <1>11, <1>12 DEF Paged, Pages, Readable

(* An item is served: the scrape owes it no more, and what it still owes   *)
(* is older.                                                               *)
LEMMA ServePaged ==
    ASSUME Shapes, Pages, NEW w \in Workers, ServeItem(w) \/ MissItem(w) PROVE Paged(w)'
<1> DEFINE h == Head(wPage[w])
           rest == Tail(wPage[w])
           full == Len(wFound'[w]) >= Limit
<1>1. Paged(w) /\ Serving(w) /\ wPage[w] # <<>> /\ wPage[w] \in Seq(Posts) /\ wPage[w] \in Seq(Nat)
      /\ Descends(wPage[w])
  <2>1. Posts \subseteq Nat
    BY DEF Posts
  <2>2. wPage[w] \in Seq(Posts)
    BY DEF Shapes, TypeOK
  <2>3. wPage[w] \in Seq(Nat)
    BY <2>1, <2>2, SeqMonotonic
  <2> QED
    BY <2>2, <2>3 DEF Pages, Paged, ServeItem, MissItem, Serving
<1>2. AfterItem(w, wFound'[w]) /\ wFound'[w] \in {wFound[w], Append(wFound[w], h)}
      /\ wFound[w] \in Seq(Posts)
  BY DEF ServeItem, MissItem, AfterItem, Shapes, TypeOK
<1>3. /\ h \in Posts /\ rest \in Seq(Posts) /\ Items(wPage[w]) = {h} \union Items(rest)
      /\ Descends(rest) /\ \A x \in Items(rest) : x < h
      /\ rest = <<>> => Items(rest) = {}
  <2>1. h \in Posts /\ rest \in Seq(Posts)
    BY <1>1, HeadTailProperties
  <2> QED
    BY <1>1, <2>1, ItemsBeheaded, DescendsBeheaded, ItemsOfNone
<1> HIDE DEF h, rest
<1>4. /\ wPc[w] \in {"items", "last"} /\ wPc \in [Workers -> Working \union {"idle"}]
      /\ wPage \in [Workers -> Seq(Posts)] /\ wFlaws \in [Workers -> SUBSET Flaws]
      /\ wMissed \in [Workers -> SUBSET Posts]
  BY <1>1 DEF Serving, Shapes, TypeOK, Working
<1>5. /\ wPage'[w] = (IF full THEN <<>> ELSE rest)
      /\ wFlaws'[w] = (IF full THEN wFlaws[w] \union {"limit"} ELSE wFlaws[w])
      /\ wPc'[w] = (IF full \/ (rest = <<>> /\ wPc[w] = "last") THEN "persist"
                    ELSE IF rest = <<>> THEN "page" ELSE wPc[w])
      /\ wSeen' = wSeen /\ wHad' = wHad /\ wOffset' = wOffset /\ archive' = archive
  BY <1>2, <1>4 DEF AfterItem, saving, publication, rest
<1> HIDE DEF full
<1>6. Owing(w)' \subseteq Owing(w) \ {h} /\ Found(w)' \subseteq Found(w) \union {h}
  <2>1. CASE ServeItem(w) /\ Readable(h)
    <3>1. wFound'[w] = Append(wFound[w], h) /\ wMissed' = wMissed
      BY <1>2, <2>1 DEF ServeItem, AfterItem, Shapes, TypeOK, h
    <3>2. Items(wFound[w])' = Items(wFound[w]) \union {h}
      BY <1>2, <1>3, <3>1, ItemsAppended DEF Items
    <3>3. Found(w)' = Found(w) \union {h}
      BY <1>5, <3>2 DEF Found
    <3> QED
      BY <1>5, <3>1, <3>3 DEF Owing
  <2>2. CASE ServeItem(w) /\ ~Readable(h)
    <3>1. wFound'[w] = wFound[w] /\ wMissed' = wMissed
      BY <1>2, <2>2 DEF ServeItem, AfterItem, Shapes, TypeOK, h
    <3>2. h \notin wHad[w]
      BY <1>1, <2>2 DEF Paged
    <3>3. Found(w)' = Found(w)
      BY <1>5, <3>1 DEF Found, Items
    <3> QED
      BY <1>5, <3>1, <3>2, <3>3 DEF Owing
  <2>3. CASE MissItem(w)
    <3>1. wFound'[w] = wFound[w] /\ wMissed'[w] = wMissed[w] \union {h}
      BY <1>2, <1>4, <2>3 DEF MissItem, AfterItem, Shapes, TypeOK, h
    <3>3. Found(w)' = Found(w)
      BY <1>5, <3>1 DEF Found, Items
    <3> QED
      BY <1>5, <3>1, <3>3 DEF Owing
  <2> QED
    BY <2>1, <2>2, <2>3
<1>7. Beyond(w)' = Beyond(w)
  BY <1>5 DEF Beyond
<1>8. ASSUME "deletion" \notin wFlaws[w] PROVE Ahead(w)' /\ Ordered(w)'
  <2>1. Ahead(w) /\ Ordered(w)
    BY <1>4, <1>8, <1>1 DEF Paged, Scraping
  <2>2. Ahead(w)'
    <3>1. CASE full
      BY <1>5, <3>1 DEF Ahead
    <3>2. CASE ~full /\ wPc[w] = "last"
      <4>1. Owing(w)' \subseteq Items(rest)
        BY <1>3, <1>6, <2>1, <3>2 DEF Ahead
      <4>2. Items(wPage[w])' = Items(rest)
        BY <1>5, <3>2 DEF Items
      <4> QED
        BY <1>3, <1>5, <3>2, <4>1, <4>2 DEF Ahead
    <3>3. CASE ~full /\ wPc[w] = "items"
      <4>1. Owing(w)' \subseteq Items(rest) \union Beyond(w)
        BY <1>3, <1>6, <2>1, <3>3 DEF Ahead
      <4>2. Items(wPage[w])' = Items(rest)
        BY <1>5, <3>3 DEF Items
      <4> QED
        BY <1>3, <1>5, <1>7, <3>3, <4>1, <4>2 DEF Ahead
    <3> QED
      BY <1>4, <3>1, <3>2, <3>3
  <2>3. \A p \in Owing(w) \ {h} : p < h
    BY <1>1, <1>3, <2>1 DEF Ordered
  <2>4. \A p \in Owing(w)', q \in (wHad[w] \intersect Found(w))' : p < q
    BY <1>5, <1>6, <2>1, <2>3 DEF Ordered
  <2>5. Serving(w)' => \A p \in Owing(w)' \ Items(wPage[w])', x \in Items(wPage[w])' : p < x
    <3>1. CASE full
      BY <1>5, <3>1 DEF Serving
    <3>2. CASE ~full
      <4>1. Items(wPage[w])' = Items(rest)
        BY <1>5, <3>2 DEF Items
      <4> QED
        BY <1>1, <1>3, <1>6, <2>1, <4>1 DEF Ordered
    <3> QED
      BY <3>1, <3>2
  <2> QED
    BY <2>2, <2>4, <2>5 DEF Ordered
<1>9. /\ wPc'[w] \notin {"idle", "mark"}
      /\ Serving(w)' => wPage'[w] # <<>> /\ wPage'[w] = rest
      /\ "deletion" \in wFlaws'[w] <=> "deletion" \in wFlaws[w]
  BY <1>4, <1>5 DEF Serving
<1> QED
  BY <1>1, <1>3, <1>5, <1>8, <1>9 DEF Paged, Descends, Readable
(* Writing an article, or skipping one written before, finds nothing new.  *)
LEMMA SavePaged ==
    ASSUME Shapes, Pages, Counts, NEW w \in Workers, SkipSeen(w) \/ WriteArticle(w) PROVE Paged(w)'
<1> DEFINE h == Head(wFound[w])
<1>1. /\ wFound[w] # <<>> /\ wFound[w] \in Seq(Posts) /\ wPc[w] \in {"persist", "write"}
      /\ UNCHANGED <<wHad, wMissed, wFlaws, archive, wOffset>>
      /\ wPc'[w] = "persist" /\ wFound'[w] = Tail(wFound[w])
      /\ \/ h \in wSeen[w] /\ wSeen'[w] = wSeen[w]
         \/ wSeen'[w] = wSeen[w] \union {h}
  BY DEF SkipSeen, WriteArticle, Drop, Counts, Counted, Shapes, TypeOK, saving, publication
<1>2. Items(wFound[w]) = {h} \union Items(Tail(wFound[w]))
  BY <1>1, ItemsBeheaded
<1>3. Items(wFound[w])' = Items(Tail(wFound[w]))
  BY <1>1 DEF Items
<1> HIDE DEF h
<1>4. Found(w)' = Found(w)
  BY <1>1, <1>2, <1>3 DEF Found
<1>5. Owing(w)' = Owing(w)
  BY <1>1, <1>4 DEF Owing
<1>6. "deletion" \notin wFlaws[w] => Ahead(w) /\ Ordered(w)
  BY <1>1 DEF Pages, Paged, Scraping
<1>7. "deletion" \notin wFlaws[w] => Ahead(w)' /\ Ordered(w)'
  BY <1>1, <1>4, <1>5, <1>6 DEF Ahead, Ordered, Serving
<1>8. ~Serving(w)'
  BY <1>1 DEF Serving
<1> QED
  BY <1>1, <1>7, <1>8 DEF Paged, Pages, Readable

(* A scrape begins: it owes every readable post of the archive.            *)
LEMMA MarkPaged ==
    ASSUME Shapes, Pages, NEW w \in Workers, MarkRunning(w) PROVE Paged(w)'
<1>1. /\ wOffset[w] = 0 /\ wFound[w] = <<>> /\ wSeen[w] = {}
      /\ UNCHANGED <<wFound, wSeen, wOffset, archive>>
      /\ wHad'[w] = {p \in InArchive : Readable(p)}
      /\ wFlaws'[w] = IF Limit = 0 THEN {"limit"} ELSE {}
      /\ wPc'[w] = IF Limit = 0 THEN "persist" ELSE "page"
  BY DEF MarkRunning, Pages, Paged, Shapes, TypeOK, saving, publication
<1>2. Found(w)' = {}
  BY <1>1, ItemsOfNone DEF Found, Items
<1>3. InArchive \subseteq Beyond(w)'
  <2>1. Len(archive) \in Nat
    BY LenProperties DEF Shapes, TypeOK
  <2>2. \A i \in 1 .. Len(archive) : i > wOffset'[w]
    BY <1>1, <2>1
  <2> QED
    BY <1>1, <2>2 DEF InArchive, Beyond
<1>4. Ahead(w)'
  BY <1>1, <1>3 DEF Ahead, Owing
<1>5. Ordered(w)' /\ ~Serving(w)'
  BY <1>1, <1>2 DEF Ordered, Serving
<1> QED
  BY <1>1, <1>4, <1>5 DEF Paged, Readable

(* A worker's other steps: at the end of the archive it owes nothing, and  *)
(* elsewhere it turns no page.                                             *)
LEMMA WorkerPaged ==
    ASSUME Shapes, Pages, Counts, NEW w \in Workers, WorkerStep(w) \/ WorkerTrouble(w)
    PROVE  Paged(w)'
<1>1. Paged(w) /\ wPc \in [Workers -> Working \union {"idle"}]
      /\ wFlaws \in [Workers -> SUBSET Flaws]
  BY DEF Pages, Shapes, TypeOK, Working
<1>2. CASE FetchPage(w)
  BY <1>2, FetchPaged
<1>3. CASE ServeItem(w) \/ MissItem(w)
  BY <1>3, ServePaged
<1>4. CASE SkipSeen(w) \/ WriteArticle(w)
  BY <1>4, SavePaged
<1>5. CASE MarkRunning(w)
  BY <1>5, MarkPaged
<1>6. CASE PutRaw(w)
  <2>1. UNCHANGED <<wOffset, wPage, wFound, wSeen, wHad, wMissed, wFlaws, archive>>
        /\ wPc[w] = "persist" /\ wPc'[w] = "write"
    BY <1>1, <1>6 DEF PutRaw, paging, saving, publication
  <2> QED
    BY <1>1, <2>1, PagedStays DEF PageToCome
<1>7. CASE TakeMessage(w)
  <2>1. UNCHANGED <<wOffset, wPage, wFound, wSeen, wHad, wMissed, wFlaws>>
        /\ wPc[w] = "idle" /\ wPc'[w] \in {"mark", "failed"}
    BY <1>1, <1>7 DEF TakeMessage, paging, saving
  <2> QED
    BY <1>1, <2>1 DEF Paged, Serving, Scraping, Readable
<1>8. CASE FetchEnvelope(w)
  <2>1. /\ UNCHANGED <<wOffset, wPage, wFound, wSeen, wHad, wMissed, archive>>
        /\ wPc[w] = "page" /\ wPc'[w] = "persist"
        /\ wFlaws'[w] = wFlaws[w] \union {"envelope"}
    BY <1>1, <1>8 DEF FetchEnvelope, saving, publication
  <2>2. Found(w)' = Found(w) /\ Owing(w)' = Owing(w)
    BY <2>1 DEF Found, Owing, Items
  <2>3. "deletion" \notin wFlaws'[w] => Ahead(w)' /\ Ordered(w)'
    BY <1>1, <2>1, <2>2 DEF Paged, Scraping, Ahead, Ordered, Serving
  <2> QED
    BY <1>1, <2>1, <2>3 DEF Paged, Serving, Readable
<1>9. CASE MarkDone(w) \/ RecordError(w) \/ ScrapeRaises(w) \/ StatusRaises(w)
  <2>1. wHad' = wHad /\ wPc'[w] \in {"ack", "failed", "record"}
    BY <1>1, <1>9 DEF MarkDone, RecordError, ScrapeRaises, StatusRaises, Raise, paging
  <2> QED
    BY <1>1, <2>1 DEF Paged, Serving, Scraping, Readable
<1>10. CASE SettleFailed(w) \/ AckMessage(w) \/ Die(w)
  <2>1. Idle(w)
    BY <1>10 DEF SettleFailed, AckMessage, Die
  <2>2. /\ wPc'[w] = "idle" /\ wOffset'[w] = 0 /\ wFound'[w] = <<>> /\ wSeen'[w] = {}
        /\ wHad'[w] = {} /\ wFlaws'[w] = {}
    BY <2>1 DEF Idle, Shapes, TypeOK
  <2> QED
    BY <2>2 DEF Paged, Serving, Scraping
<1> QED
  BY <1>2, <1>3, <1>4, <1>5, <1>6, <1>7, <1>8, <1>9, <1>10 DEF WorkerStep, WorkerTrouble

LEMMA WorkerPages ==
    ASSUME Shapes, Schedule, Counts, Pages, NEW w \in Workers, WorkerStep(w) \/ WorkerTrouble(w)
    PROVE  Pages'
<1>1. /\ archive' = archive /\ newest' = newest
      /\ \A u \in Workers \ {w} : Same(u)
  BY WorkerFrame DEF Shapes, publication
<1>2. \A u \in Workers \ {w} : Paged(u)'
  BY <1>1, PagedStays DEF Pages, Same, Beyond
<1>3. Archived'
  BY <1>1 DEF Pages, Archived, Descends
<1>4. NothingSkipped'
  <2>1. \A j \in Jobs : row'[j] # None /\ row'[j].status = "done" =>
            \/ row'[j] = row[j] /\ outcome'[j] = outcome[j]
            \/ MarkDone(w) /\ j = JobOf(w)
    BY DoneUntouched DEF Counts
  <2>2. CASE ~MarkDone(w)
    BY <2>1, <2>2, SkippedStays DEF Pages
  <2>3. CASE MarkDone(w)
    <3>1. outcome'[JobOf(w)] = [had |-> wHad[w], saved |-> wSeen[w],
                                missed |-> wMissed[w], flaws |-> wFlaws[w]]
      BY <2>3, DoneUntouched DEF Counts
    <3>2. wPc[w] = "persist" /\ Found(w) = wSeen[w]
      BY <2>3, ItemsOfNone DEF MarkDone, Found
    <3>3. "deletion" \notin wFlaws[w] =>
             /\ \A p \in Owing(w), q \in wHad[w] \intersect wSeen[w] : p < q
             /\ Owing(w) # {} => wFlaws[w] \intersect {"limit", "envelope"} # {}
      BY <3>2 DEF Pages, Paged, Scraping, Ahead, Ordered
    <3>4. Owing(w) = wHad[w] \ (wSeen[w] \union wMissed[w])
      BY <3>2 DEF Owing
    <3>5. SUFFICES ASSUME NEW j \in Jobs, row'[j] # None, row'[j].status = "done",
                          "deletion" \notin outcome'[j].flaws
                   PROVE  LET run  == outcome'[j]
                              lost == run.had \ (run.saved \union run.missed)
                          IN  /\ \A p \in lost, q \in run.had \intersect run.saved : p < q
                              /\ lost # {} => run.flaws \intersect {"limit", "envelope"} # {}
      BY DEF NothingSkipped
    <3>6. CASE j = JobOf(w)
      <4>1. /\ outcome'[j].had = wHad[w] /\ outcome'[j].saved = wSeen[w]
            /\ outcome'[j].missed = wMissed[w] /\ outcome'[j].flaws = wFlaws[w]
        BY <3>1, <3>6
      <4> QED
        BY <3>3, <3>4, <3>5, <4>1
    <3>7. CASE j # JobOf(w)
      BY <2>1, <3>5, <3>7 DEF Pages, NothingSkipped
    <3> QED
      BY <3>6, <3>7
  <2> QED
    BY <2>2, <2>3
<1> QED
  BY <1>2, <1>3, <1>4, WorkerPaged DEF Pages
-----------------------------------------------------------------------------
(* The inductive invariant, and what it promises.                          *)
LEMMA InitHolds == Init => IInv
<1> SUFFICES ASSUME Init PROVE IInv
  OBVIOUS
<1>1. /\ {Limit, FirstPosts, MaxPosts, MaxDeletions} \subseteq Nat /\ FirstPosts <= MaxPosts
      /\ MaxTicks \in Nat
  BY NumbersAssumption
<1>2. /\ archive \in Seq(Posts) /\ Len(archive) = FirstPosts
      /\ \A i \in 1 .. FirstPosts : archive[i] = FirstPosts + 1 - i
  <2>1. archive = [i \in 1 .. FirstPosts |-> FirstPosts + 1 - i]
    BY DEF Init
  <2>2. \A i \in 1 .. FirstPosts : FirstPosts + 1 - i \in Posts
    BY <1>1 DEF Posts
  <2> QED
    BY <1>1, <2>1, <2>2, IsASeq
<1>3. /\ published = {} /\ waiting = <<>> /\ inflight = {} /\ dead = <<>> /\ urlJobs = {}
      /\ <<>> \in Seq(Messages(Jobs)) /\ Len(<<>>) = 0 /\ <<>> \in Seq(Posts)
  BY EmptySeq DEF Init, IngestQ!QueueInit
<1>4. Busy = {} /\ DOMAIN wMsg = Workers
  BY DEF Init, Busy
<1>5. QueueHolds
  BY <1>3, <1>4 DEF QueueHolds, QueueOK
<1>6. TypeOK
  BY <1>1, <1>2, <1>3, NoneApart DEF Init, TypeOK
<1>7. \A j \in Jobs : ~Created(j) /\ ~Sent(j)
  BY <1>3 DEF Init, Created, Sent
<1>8. Schedule
  BY <1>7 DEF Init, Schedule, Ticking, Ticked
<1>9. Answers
  BY <1>7 DEF Init, Answers, StuckIngestIsExplained, Created, Answered
<1>10. Counts
  BY <1>7, FS_EmptySet DEF Init, Counts, Recorded, DoneCountsArticles, Created, Counted
<1>11. NothingSkipped
  BY <1>7 DEF NothingSkipped, Created
<1>12. Archived
  BY <1>1, <1>2 DEF Init, Archived, Descends
<1>13. \A w \in Workers : Paged(w)
  BY DEF Init, Paged, Serving, Scraping
<1> QED
  BY <1>5, <1>6, <1>8, <1>9, <1>10, <1>11, <1>12, <1>13 DEF IInv, Shapes, Pages

LEMMA StepHolds == IInv /\ [Next]_vars => IInv'
<1> SUFFICES ASSUME IInv, [Next]_vars PROVE IInv'
  OBVIOUS
<1>1. Shapes /\ Schedule /\ Answers /\ Counts /\ Pages /\ TypeOK
  BY DEF IInv, Shapes
<1>2. CASE StartTick \/ EnqueueStep \/ TickFails
  <2>1. Shapes'
    BY <1>1, <1>2, SchedulerShapes
  <2>2. Schedule'
    BY <1>1, <1>2, <2>1, StartTickSchedule, CreateRowSchedule, PublishMessageSchedule,
       EndTickSchedule, TickFailsSchedule DEF EnqueueStep
  <2> QED
    BY <1>1, <1>2, <2>1, <2>2, SchedulerAnswers, OtherCounts, SchedulerPages DEF IInv
<1>3. CASE PublishPost \/ DeletePost
  BY <1>1, <1>3, AuthorShapes, AuthorSchedule, AuthorAnswers, OtherCounts, PublishPages, DeletePages
     DEF IInv
<1>4. ASSUME NEW w \in Workers, WorkerStep(w) \/ WorkerTrouble(w) PROVE IInv'
  <2>1. Shapes'
    BY <1>1, <1>4, WorkerShapes DEF Counts, Pages
  <2> QED
    BY <1>1, <1>4, <2>1, WorkerSchedule, WorkerAnswers, WorkerCounts, WorkerPages DEF IInv
<1>5. CASE UNCHANGED vars
  <2>1. UNCHANGED <<ingestQueue, urlJobs, row, raw, articles, scheduler, publication, outcome, wPc, wMsg,
                    wOffset, wPage, wFound, wSeen, wCount, wHad, wMissed, wFlaws, casualties, unmarked>>
    BY <1>5 DEF vars, workers, paging, saving, troubles
  <2>2. Shapes'
    BY <1>1, <2>1 DEF Shapes, TypeOK, QueueHolds, QueueOK, Busy, ingestQueue, scheduler, publication
  <2>3. Schedule'
    BY <1>1, <2>1, ScheduleStays DEF ingestQueue
  <2>4. Answers'
    <3>1. InQueue' = InQueue /\ IdsOf(dead)' = IdsOf(dead) /\ OnRecord' = OnRecord
          /\ schPc' = schPc /\ Current' = Current
      BY <2>1 DEF ingestQueue, InQueue, OnRecord, scheduler, Current, IdsOf
    <3>2. \A j \in Jobs : (InProgress(j)' <=> InProgress(j)) /\ (GivenUp(j)' <=> GivenUp(j))
      BY <3>1, Places, PlacesNext
    <3>3. \A w \in Workers : Answered(w)'
      BY <1>1, <2>1 DEF Answers, Answered, Terminal, JobOf, Supported
    <3> QED
      BY <1>1, <2>1, <3>2, <3>3 DEF Answers, StuckIngestIsExplained, Terminal, IsIngest
  <2>5. Counts'
    BY <1>1, <2>1, CountedStays, DoneStays DEF Counts, Recorded, DoneCountsArticles
  <2>6. Pages'
    <3>1. archive' = archive /\ newest' = newest
      BY <2>1 DEF publication
    <3> QED
      BY <1>1, <2>1, <3>1, PagedStays, SkippedStays DEF Pages, Archived, Descends, Beyond
  <2> QED
    BY <2>2, <2>3, <2>4, <2>5, <2>6 DEF IInv
<1> QED
  BY <1>2, <1>3, <1>4, <1>5 DEF Next

LEMMA IInvHolds == Spec => []IInv
BY InitHolds, StepHolds, PTL DEF Spec

-----------------------------------------------------------------------------
(* Every variable has its type, in every reachable state.                  *)
THEOREM TypesHold == Spec => []TypeOK
<1>1. IInv => TypeOK
  BY DEF IInv, Shapes
<1> QED
  BY <1>1, IInvHolds, PTL

(* A finished tick of enqueue_due_sources has a row and a message for each *)
(* enabled source, whatever failed in other ticks; one that was cut short  *)
(* leaves at most one row without its message.                             *)
THEOREM TicksCoverSources == Spec => []TickCoversSources
<1>1. IInv => TickCoversSources
  <2> SUFFICES ASSUME IInv, NEW t \in 1 .. tick
               PROVE  /\ (t < tick \/ schPc = "sleep") /\ t \notin cut =>
                            \A s \in Sources : row[<<t, s>>] # None /\ Sent(<<t, s>>)
                      /\ Cardinality({s \in Sources : row[<<t, s>>] # None /\ ~Sent(<<t, s>>)}) <= 1
    BY DEF TickCoversSources
  <2>1. \A r, s \in Dangling(t) : r = s
    BY DEF IInv, Schedule, Ticked
  <2>2. Cardinality(Dangling(t)) <= 1
    <3>1. CASE Dangling(t) = {}
      BY <3>1, FS_EmptySet
    <3>2. ASSUME NEW s \in Dangling(t) PROVE Cardinality(Dangling(t)) = 1
      <4>1. Dangling(t) = {s}
        BY <2>1, <3>2
      <4> QED
        BY <4>1, FS_Singleton
    <3> QED
      BY <3>1, <3>2
  <2>3. Dangling(t) = {s \in Sources : row[<<t, s>>] # None /\ ~Sent(<<t, s>>)}
    BY DEF Dangling, Created
  <2> QED
    BY <2>2, <2>3 DEF IInv, Schedule, Ticked, Served, Created
<1> QED
  BY <1>1, IInvHolds, PTL

(* However scrape_publication interleaves with the author's publishing, a  *)
(* done job has stored every readable post that was there when it began,   *)
(* newest first down to where the limit or an error envelope stopped it,   *)
(* unless the post's own fetch failed or a post was deleted meanwhile.     *)
THEOREM NothingIsSkipped == Spec => []NothingSkipped
<1>1. IInv => NothingSkipped
  BY DEF IInv, Pages
<1> QED
  BY <1>1, IInvHolds, PTL

(* The result_count that handle_ingest_job reports is the number of posts  *)
(* its sink has written, all of them stored, and none before its raw copy. *)
THEOREM DoneJobsCountArticles == Spec => []DoneCountsArticles
<1>1. IInv => DoneCountsArticles
  BY DEF IInv, Counts
<1> QED
  BY <1>1, IInvHolds, PTL

(* A row of an ingest job that is neither done nor error is being worked   *)
(* on, or the reason that it never will be is on record.                   *)
THEOREM StuckIngestsAreExplained == Spec => []StuckIngestIsExplained
<1>1. IInv => StuckIngestIsExplained
  BY DEF IInv, Answers
<1> QED
  BY <1>1, IInvHolds, PTL
=============================================================================
