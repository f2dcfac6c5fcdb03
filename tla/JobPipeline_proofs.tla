------------------------- MODULE JobPipeline_proofs -------------------------
(***************************************************************************)
(* Proofs about JobPipeline, for any jobs, urls, workers and retry limit:  *)
(* types, the claim check, what a finished job has, and why a job that is  *)
(* stuck is stuck.                                                         *)
(***************************************************************************)
EXTENDS JobPipeline, QueueLemmas, TLAPS

(* The two queues of the pipeline.                                         *)

Busy  == {s \in Scrapers : scPc[s] # "idle"}
BusyT == {t \in Transformers : trPc[t] # "idle"}

JobOK == /\ QueueOK(Jobs, jobPublished, jobWaiting, jobInflight, Scrapers, Busy, scMsg)
         /\ jobDead \in Seq(Messages(Jobs))
ResOK == /\ QueueOK(Pointer, resPublished, resWaiting, resInflight, Transformers, BusyT, trMsg)
         /\ resDead \in Seq(Messages(Pointer))

(* A busy worker holds a message of its queue.                             *)
LEMMA JobHeld ==
    ASSUME JobOK, NEW s \in Scrapers, scPc[s] # "idle"
    PROVE  /\ scMsg[s] \in Messages(Jobs) /\ scMsg[s] \in jobInflight
           /\ scMsg[s].id \in Jobs /\ scMsg[s].id \in jobPublished /\ scMsg[s].attempts \in Nat
<1>1. scMsg[s] \in jobInflight /\ scMsg[s].id \in jobPublished /\ jobInflight \subseteq Messages(Jobs)
  BY DEF JobOK, QueueOK, Busy
<1> QED
  BY <1>1 DEF Messages

LEMMA PointerHeld ==
    ASSUME ResOK, NEW t \in Transformers, trPc[t] # "idle"
    PROVE  /\ trMsg[t] \in Messages(Pointer) /\ trMsg[t] \in resInflight
           /\ trMsg[t].id \in Pointer /\ trMsg[t].id \in resPublished
           /\ JobOf(t) \in Jobs /\ UrlOf[JobOf(t)] \in Urls
<1>1. trMsg[t] \in resInflight /\ trMsg[t].id \in resPublished /\ resInflight \subseteq Messages(Pointer)
  BY DEF ResOK, QueueOK, BusyT
<1>2. trMsg[t].id \in Pointer
  BY <1>1 DEF Messages
<1> QED
  BY <1>1, <1>2, UrlOfAssumption DEF JobOf, Pointer

(* Nothing happens to a queue and its consumers.                           *)
LEMMA JobStays ==
    ASSUME JobOK, UNCHANGED <<jobQueue, scMsg>>, Busy' = Busy PROVE JobOK'
BY DEF JobOK, QueueOK, jobQueue

LEMMA ResStays ==
    ASSUME ResOK, UNCHANGED <<resQueue, trMsg>>, BusyT' = BusyT PROVE ResOK'
BY DEF ResOK, QueueOK, resQueue

(* A worker settles its message, in whichever way.                         *)
LEMMA ScraperSettles ==
    ASSUME JobOK, NEW s \in Scrapers, scPc[s] # "idle", DOMAIN scPc = Scrapers,
           ScraperIdle(s),
           \/ JobQ!Ack(scMsg[s]) \/ JobQ!Requeue(scMsg[s])
           \/ JobQ!DeadLetter(scMsg[s]) \/ JobQ!Abandon(scMsg[s])
    PROVE  JobOK'
<1>1. Busy' = Busy \ {s} /\ s \in Busy /\ scMsg' = [scMsg EXCEPT ![s] = None]
  BY DEF Busy, ScraperIdle
<1>2. QueueOK(Jobs, jobPublished, jobWaiting, jobInflight, Scrapers, Busy, scMsg)
  BY DEF JobOK
<1>3. CASE JobQ!Ack(scMsg[s]) \/ JobQ!DeadLetter(scMsg[s]) \/ JobQ!Abandon(scMsg[s])
  <2>1. /\ jobPublished' = jobPublished /\ jobWaiting' = jobWaiting
        /\ jobInflight' = jobInflight \ {scMsg[s]}
        /\ jobDead' \in {jobDead, Append(jobDead, scMsg[s])}
    BY <1>3 DEF JobQ!Ack, JobQ!DeadLetter, JobQ!Abandon
  <2>2. jobDead' \in Seq(Messages(Jobs))
    BY <2>1, JobHeld, Appended DEF JobOK
  <2>3. QueueOK(Jobs, jobPublished, jobWaiting, jobInflight \ {scMsg[s]}, Scrapers, Busy \ {s},
                [scMsg EXCEPT ![s] = None])
    BY <1>1, <1>2, SettleOK
  <2> QED
    BY <1>1, <2>1, <2>2, <2>3 DEF JobOK
<1>4. CASE JobQ!Requeue(scMsg[s])
  <2>1. /\ jobPublished' = jobPublished /\ jobWaiting' = Append(jobWaiting, scMsg[s])
        /\ jobInflight' = jobInflight \ {scMsg[s]} /\ jobDead' = jobDead
    BY <1>4 DEF JobQ!Requeue
  <2>2. QueueOK(Jobs, jobPublished, Append(jobWaiting, scMsg[s]), jobInflight \ {scMsg[s]},
                Scrapers, Busy \ {s}, [scMsg EXCEPT ![s] = None])
    BY <1>1, <1>2, RequeueOK
  <2> QED
    BY <1>1, <2>1, <2>2 DEF JobOK
<1> QED
  BY <1>3, <1>4

LEMMA TransformerSettles ==
    ASSUME ResOK, NEW t \in Transformers, trPc[t] # "idle", DOMAIN trPc = Transformers,
           TransformerIdle(t),
           \/ ResQ!Ack(trMsg[t]) \/ ResQ!Requeue(trMsg[t])
           \/ ResQ!DeadLetter(trMsg[t]) \/ ResQ!Abandon(trMsg[t])
    PROVE  ResOK'
<1>1. BusyT' = BusyT \ {t} /\ t \in BusyT /\ trMsg' = [trMsg EXCEPT ![t] = None]
  BY DEF BusyT, TransformerIdle
<1>2. QueueOK(Pointer, resPublished, resWaiting, resInflight, Transformers, BusyT, trMsg)
  BY DEF ResOK
<1>3. CASE ResQ!Ack(trMsg[t]) \/ ResQ!DeadLetter(trMsg[t]) \/ ResQ!Abandon(trMsg[t])
  <2>1. /\ resPublished' = resPublished /\ resWaiting' = resWaiting
        /\ resInflight' = resInflight \ {trMsg[t]}
        /\ resDead' \in {resDead, Append(resDead, trMsg[t])}
    BY <1>3 DEF ResQ!Ack, ResQ!DeadLetter, ResQ!Abandon
  <2>2. resDead' \in Seq(Messages(Pointer))
    BY <2>1, PointerHeld, Appended DEF ResOK
  <2>3. QueueOK(Pointer, resPublished, resWaiting, resInflight \ {trMsg[t]}, Transformers,
                BusyT \ {t}, [trMsg EXCEPT ![t] = None])
    BY <1>1, <1>2, SettleOK
  <2> QED
    BY <1>1, <2>1, <2>2, <2>3 DEF ResOK
<1>4. CASE ResQ!Requeue(trMsg[t])
  <2>1. /\ resPublished' = resPublished /\ resWaiting' = Append(resWaiting, trMsg[t])
        /\ resInflight' = resInflight \ {trMsg[t]} /\ resDead' = resDead
    BY <1>4 DEF ResQ!Requeue
  <2>2. QueueOK(Pointer, resPublished, Append(resWaiting, trMsg[t]), resInflight \ {trMsg[t]},
                Transformers, BusyT \ {t}, [trMsg EXCEPT ![t] = None])
    BY <1>1, <1>2, RequeueOK
  <2> QED
    BY <1>1, <2>1, <2>2 DEF ResOK
<1> QED
  BY <1>3, <1>4

(* A worker takes the first message.                                       *)
LEMMA ScraperTakes ==
    ASSUME JobOK, NEW s \in Scrapers, DOMAIN scPc = Scrapers, TakeJob(s)
    PROVE  JobOK' /\ scMsg' = [scMsg EXCEPT ![s] = scMsg'[s]] /\ scMsg'[s] \in Messages(Jobs)
           /\ scMsg'[s].id = Head(jobWaiting).id /\ jobPublished' = jobPublished
<1> DEFINE m == [Head(jobWaiting) EXCEPT !.attempts = @ + 1]
<1>1. /\ scPc[s] = "idle" /\ jobWaiting # <<>> /\ jobWaiting' = Tail(jobWaiting)
      /\ jobInflight' = jobInflight \union {m} /\ jobPublished' = jobPublished /\ jobDead' = jobDead
      /\ scMsg' = [scMsg EXCEPT ![s] = m] /\ scPc' = [scPc EXCEPT ![s] = "fetch"]
  BY DEF TakeJob, JobQ!Reserve, JobQ!Delivered
<1>2. Busy' = Busy \union {s} /\ s \in Scrapers \ Busy
  BY <1>1 DEF Busy
<1>3. QueueOK(Jobs, jobPublished, jobWaiting, jobInflight, Scrapers, Busy, scMsg)
  BY DEF JobOK
<1>4. /\ m \in Messages(Jobs) /\ m.id = Head(jobWaiting).id
      /\ QueueOK(Jobs, jobPublished, Tail(jobWaiting), jobInflight \union {m}, Scrapers,
                 Busy \union {s}, [scMsg EXCEPT ![s] = m])
  BY <1>1, <1>2, <1>3, ReserveOK
<1> HIDE DEF m
<1>5. scMsg'[s] = m
  BY <1>1, <1>3 DEF QueueOK
<1> QED
  BY <1>1, <1>2, <1>4, <1>5 DEF JobOK

LEMMA TransformerTakes ==
    ASSUME ResOK, NEW t \in Transformers, DOMAIN trPc = Transformers, TakePointer(t)
    PROVE  ResOK' /\ trMsg' = [trMsg EXCEPT ![t] = trMsg'[t]] /\ trMsg'[t] \in Messages(Pointer)
           /\ trMsg'[t].id = Head(resWaiting).id /\ resPublished' = resPublished
<1> DEFINE m == [Head(resWaiting) EXCEPT !.attempts = @ + 1]
<1>1. /\ trPc[t] = "idle" /\ resWaiting # <<>> /\ resWaiting' = Tail(resWaiting)
      /\ resInflight' = resInflight \union {m} /\ resPublished' = resPublished /\ resDead' = resDead
      /\ trMsg' = [trMsg EXCEPT ![t] = m] /\ trPc' = [trPc EXCEPT ![t] = "running_get"]
  BY DEF TakePointer, ResQ!Reserve, ResQ!Delivered
<1>2. BusyT' = BusyT \union {t} /\ t \in Transformers \ BusyT
  BY <1>1 DEF BusyT
<1>3. QueueOK(Pointer, resPublished, resWaiting, resInflight, Transformers, BusyT, trMsg)
  BY DEF ResOK
<1>4. /\ m \in Messages(Pointer) /\ m.id = Head(resWaiting).id
      /\ QueueOK(Pointer, resPublished, Tail(resWaiting), resInflight \union {m}, Transformers,
                 BusyT \union {t}, [trMsg EXCEPT ![t] = m])
  BY <1>1, <1>2, <1>3, ReserveOK
<1> HIDE DEF m
<1>5. trMsg'[t] = m
  BY <1>1, <1>3 DEF QueueOK
<1> QED
  BY <1>1, <1>2, <1>4, <1>5 DEF ResOK

-----------------------------------------------------------------------------
(* The inductive invariant: types, the queues, and what each place of a    *)
(* handler has established.                                                *)

Rows == /\ \A j \in jobPublished : row[j] # None
        /\ \A j \in Jobs : submission[j] = "created" => row[j] # None

Fetched == \A s \in Scrapers :
    /\ scPc[s] \in {"put", "publish", "ack"} => scGot[s] \in Outcome
    /\ scPc[s] = "publish" => object[UrlOf[scMsg[s].id]] # None

Validated == \A t \in Transformers :
    /\ trPc[t] = "write" => trGot[t] \in Raw /\ trGot[t].kind = "page"
    /\ trPc[t] \in {"done_get", "done_commit"} => article[UrlOf[JobOf(t)]] # None

Shapes == TypeOK /\ JobOK /\ ResOK /\ puts \in Nat
Claims == Rows /\ Fetched /\ Validated /\ PointerResolves /\ DoneHasArticle
IInv == Shapes /\ Claims

(* What the types make of the worker's places, for the lemmas above.       *)
LEMMA Places ==
    ASSUME TypeOK
    PROVE  DOMAIN scPc = Scrapers /\ DOMAIN trPc = Transformers
BY DEF TypeOK

LEMMA NoneApart ==
    /\ None \notin Row /\ None \notin Raw /\ None \notin Outcome
    /\ None \notin Messages(Jobs) /\ None \notin Messages(Pointer)
    /\ JobQ!Message = Messages(Jobs) /\ ResQ!Message = Messages(Pointer)
BY NoneAssumption DEF JobQ!Message, ResQ!Message, Messages

(* A commit changes one row, and its status to the new value or not.       *)
LEMMA CommitRow ==
    ASSUME IInv, NEW t \in Transformers, trPc[t] # "idle",
           NEW values, Commit(t, values),
           \/ values = [status |-> "running"]
           \/ values = [status |-> "done", count |-> 1]
           \/ values = [status |-> "error", count |-> 0, error |-> TRUE]
    PROVE  /\ row' \in [Jobs -> Row \union {None}]
           /\ \A j \in Jobs : j # JobOf(t) => row'[j] = row[j]
           /\ row[JobOf(t)] \in Row /\ row'[JobOf(t)] \in Row
           /\ row'[JobOf(t)].status =
                 IF values.status # trRow[t].status THEN values.status ELSE row[JobOf(t)].status
<1> DEFINE j == JobOf(t)
           old == row[j]
           new == [c \in DOMAIN old |-> IF c \in DOMAIN values /\ values[c] # trRow[t][c]
                                       THEN values[c] ELSE old[c]]
<1>1. j \in Jobs /\ trMsg[t].id \in resPublished /\ row \in [Jobs -> Row \union {None}]
  BY PointerHeld DEF IInv, Shapes, TypeOK
<1>2. old \in Row
  BY <1>1 DEF IInv, Claims, PointerResolves, JobOf
<1>3. row' = [row EXCEPT ![j] = new]
  BY DEF Commit
<1> HIDE DEF j, old
<1>4. DOMAIN old = {"status", "count", "error"} /\ old.status \in {"queued", "running", "done", "error"}
      /\ old.count \in {0, 1} /\ old.error \in BOOLEAN
  BY <1>2 DEF Row
<1>5. new \in Row /\ new.status = IF values.status # trRow[t].status THEN values.status ELSE old.status
  <2>1. CASE values = [status |-> "running"]
    BY <1>4, <2>1 DEF Row
  <2>2. CASE values = [status |-> "done", count |-> 1]
    BY <1>4, <2>2 DEF Row
  <2>3. CASE values = [status |-> "error", count |-> 0, error |-> TRUE]
    BY <1>4, <2>3 DEF Row
  <2> QED
    BY <2>1, <2>2, <2>3
<1> HIDE DEF new
<1>6. row'[j] = new /\ \A i \in Jobs : i # j => row'[i] = row[i]
  BY <1>1, <1>3
<1> QED
  BY <1>1, <1>2, <1>3, <1>5, <1>6 DEF j, old

(* Nothing is stored, and a worker stands still or where nothing is owed.  *)
LEMMA ClaimsStay ==
    ASSUME IInv, UNCHANGED <<jobPublished, resPublished, submission, stores>>,
           \A s \in Scrapers :
              \/ scPc'[s] = scPc[s] /\ scGot'[s] = scGot[s] /\ scMsg'[s] = scMsg[s]
              \/ scPc'[s] \in {"idle", "fetch"},
           \A t \in Transformers :
              \/ trPc'[t] = trPc[t] /\ trGot'[t] = trGot[t] /\ trMsg'[t] = trMsg[t]
              \/ trPc'[t] \notin {"write", "done_get", "done_commit"}
    PROVE  Claims'
<1> USE DEF IInv, Claims, stores
<1>1. Rows' /\ PointerResolves' /\ DoneHasArticle'
  BY DEF Rows, PointerResolves, DoneHasArticle
<1>2. Fetched'
  BY DEF Fetched
<1>3. Validated'
  BY DEF Validated, JobOf
<1> QED
  BY <1>1, <1>2, <1>3

(* The request handler.                                                    *)
LEMMA SubmitKeeps ==
    ASSUME IInv, NEW j \in Jobs, Submit(j) PROVE IInv'
<1> USE DEF IInv, Shapes, Claims, stores, scraperVars, transformerVars, history
<1>1. CASE CreateJob(j)
  <2> DEFINE new == [status |-> "queued", count |-> 0, error |-> FALSE]
  <2>1. new \in Row
    BY DEF Row
  <2> HIDE DEF new
  <2>2. /\ row' = [row EXCEPT ![j] = new] /\ submission' = [submission EXCEPT ![j] = "created"]
        /\ submission[j] = "none"
        /\ UNCHANGED <<jobQueue, resQueue, object, article, scraperVars, transformerVars, history>>
    BY <1>1 DEF CreateJob, new
  <2>3. \A i \in Jobs : row'[i] # None <=> (row[i] # None \/ i = j)
    BY <2>1, <2>2, NoneApart DEF TypeOK
  <2>4. TypeOK'
    BY <2>1, <2>2 DEF TypeOK
  <2>5. JobOK' /\ ResOK'
    BY <2>2, JobStays, ResStays DEF Busy, BusyT
  <2>6. Rows'
    BY <2>2, <2>3 DEF Rows, jobQueue, TypeOK, JobOK, QueueOK
  <2>7. Fetched' /\ Validated'
    BY <2>2 DEF Fetched, Validated, JobOf
  <2>8. PointerResolves'
    BY <2>2, <2>3 DEF PointerResolves, resQueue, ResOK, QueueOK, Pointer
  <2>9. DoneHasArticle'
    <3>1. \A i \in Jobs : row'[i] # row[i] => row'[i].status = "queued"
      BY <2>2 DEF TypeOK, new
    <3> QED
      BY <2>2, <2>3, <3>1 DEF DoneHasArticle
  <2> QED
    BY <2>2, <2>4, <2>5, <2>6, <2>7, <2>8, <2>9
<1>2. CASE PublishJob(j)
  <2>1. /\ submission[j] = "created" /\ submission' = [submission EXCEPT ![j] = "published"]
        /\ j \notin jobPublished /\ jobPublished' = jobPublished \union {j}
        /\ jobWaiting' = Append(jobWaiting, [id |-> j, attempts |-> 0])
        /\ jobInflight' = jobInflight /\ jobDead' = jobDead
        /\ UNCHANGED <<resQueue, stores, scraperVars, transformerVars, history>>
    BY <1>2 DEF PublishJob, JobQ!Publish
  <2>2. JobOK'
    <3>1. QueueOK(Jobs, jobPublished', jobWaiting', jobInflight, Scrapers, Busy, scMsg)
      BY <2>1, PublishOK DEF JobOK
    <3>2. Busy' = Busy
      BY <2>1 DEF Busy
    <3> QED
      BY <2>1, <3>1, <3>2 DEF JobOK
  <2>3. ResOK'
    BY <2>1, ResStays DEF BusyT
  <2>4. TypeOK'
    BY <2>1 DEF TypeOK
  <2>5. Rows'
    BY <2>1 DEF Rows, TypeOK
  <2>6. Fetched' /\ Validated' /\ PointerResolves' /\ DoneHasArticle'
    BY <2>1 DEF Fetched, Validated, JobOf, PointerResolves, DoneHasArticle, resQueue
  <2> QED
    BY <2>1, <2>2, <2>3, <2>4, <2>5, <2>6
<1>3. CASE PublishJobFails(j)
  <2>1. /\ submission' = [submission EXCEPT ![j] = "failed"]
        /\ UNCHANGED <<jobQueue, resQueue, stores, scraperVars, transformerVars, puts, casualties>>
    BY <1>3 DEF PublishJobFails
  <2>2. JobOK' /\ ResOK'
    BY <2>1, JobStays, ResStays DEF Busy, BusyT
  <2>3. TypeOK'
    BY <2>1 DEF TypeOK
  <2>4. Rows'
    BY <2>1 DEF Rows, TypeOK, jobQueue
  <2>5. Fetched' /\ Validated' /\ PointerResolves' /\ DoneHasArticle'
    BY <2>1 DEF Fetched, Validated, JobOf, PointerResolves, DoneHasArticle, resQueue
  <2> QED
    BY <2>1, <2>2, <2>3, <2>4, <2>5
<1> QED
  BY <1>1, <1>2, <1>3 DEF Submit

(* The scraper worker, step by step.                                       *)
LEMMA ScraperKeeps ==
    ASSUME IInv, NEW s \in Scrapers, ScraperStep(s) \/ ScraperRaises(s) \/ ScraperDies(s)
    PROVE  IInv'
<1> USE DEF IInv, Shapes, stores, transformerVars, history
<1>1. CASE TakeJob(s)
  <2>1. JobOK' /\ scMsg' = [scMsg EXCEPT ![s] = scMsg'[s]] /\ scMsg'[s] \in Messages(Jobs)
        /\ jobPublished' = jobPublished
    BY <1>1, ScraperTakes, Places
  <2>2. /\ scPc' = [scPc EXCEPT ![s] = "fetch"] /\ scGot' = scGot
        /\ UNCHANGED <<resQueue, submission, stores, transformerVars, history>>
    BY <1>1 DEF TakeJob
  <2>3. ResOK'
    BY <2>2, ResStays DEF BusyT
  <2>4. TypeOK'
    BY <2>1, <2>2, NoneApart DEF TypeOK
  <2>5. Claims'
    <3>1. \A u \in Scrapers : \/ scPc'[u] = scPc[u] /\ scGot'[u] = scGot[u] /\ scMsg'[u] = scMsg[u]
                              \/ scPc'[u] \in {"idle", "fetch"}
      BY <2>1, <2>2 DEF TypeOK
    <3> QED
      BY <2>1, <2>2, <3>1, ClaimsStay DEF resQueue
  <2> QED
    BY <2>1, <2>2, <2>3, <2>4, <2>5
<1>2. CASE Fetch(s)
  <2>1. PICK o \in Outcome : scGot' = [scGot EXCEPT ![s] = o]
    BY <1>2 DEF Fetch
  <2>2. /\ scPc[s] = "fetch" /\ scPc' = [scPc EXCEPT ![s] = "put"] /\ scMsg' = scMsg
        /\ UNCHANGED <<jobQueue, resQueue, submission, stores, transformerVars, history>>
    BY <1>2 DEF Fetch
  <2>3. JobOK' /\ ResOK'
    <3>1. Busy' = Busy /\ BusyT' = BusyT
      BY <2>2 DEF Busy, BusyT, TypeOK
    <3> QED
      BY <2>2, <3>1, JobStays, ResStays
  <2>4. TypeOK'
    BY <2>1, <2>2 DEF TypeOK
  <2>5. Fetched'
    BY <2>1, <2>2 DEF Claims, Fetched, TypeOK
  <2>6. Rows' /\ Validated' /\ PointerResolves' /\ DoneHasArticle'
    BY <2>2 DEF Claims, Rows, Validated, JobOf, PointerResolves, DoneHasArticle, jobQueue, resQueue
  <2> QED
    BY <2>2, <2>3, <2>4, <2>5, <2>6 DEF Claims
<1>3. CASE PutRaw(s)
  <2> DEFINE u == UrlOf[scMsg[s].id]
             raw == [kind |-> scGot[s].kind, nr |-> puts + 1]
  <2>1. /\ scPc[s] = "put" /\ scPc' = [scPc EXCEPT ![s] = "publish"]
        /\ object' = [object EXCEPT ![u] = raw] /\ puts' = puts + 1
        /\ UNCHANGED <<jobQueue, resQueue, submission, row, article, scMsg, scGot,
                       transformerVars, faults, deaths, casualties>>
    BY <1>3 DEF PutRaw
  <2>2. u \in Urls
    BY <2>1, JobHeld, UrlOfAssumption
  <2>3. raw \in Raw
    <3>1. scGot[s] \in Outcome
      BY <2>1 DEF Claims, Fetched
    <3> QED
      BY <3>1 DEF Outcome, Raw
  <2> HIDE DEF raw
  <2>4. \A v \in Urls : object[v] # None \/ v = u => object'[v] # None
    BY <2>1, <2>2, <2>3, NoneApart DEF TypeOK
  <2>5. JobOK' /\ ResOK'
    <3>1. Busy' = Busy /\ BusyT' = BusyT
      BY <2>1 DEF Busy, BusyT, TypeOK
    <3> QED
      BY <2>1, <3>1, JobStays, ResStays
  <2>6. TypeOK'
    BY <2>1, <2>2, <2>3 DEF TypeOK
  <2>7. Fetched'
    <3>1. \A v \in Scrapers : scPc[v] # "idle" => UrlOf[scMsg[v].id] \in Urls
      BY JobHeld, UrlOfAssumption
    <3> QED
      BY <2>1, <2>4, <3>1 DEF Claims, Fetched, TypeOK
  <2>8. PointerResolves'
    <3>1. \A p \in resPublished : p.job \in Jobs /\ UrlOf[p.job] \in Urls
      BY UrlOfAssumption DEF ResOK, QueueOK, Pointer
    <3> QED
      BY <2>1, <2>4, <3>1 DEF Claims, PointerResolves, resQueue
  <2>9. Rows' /\ Validated' /\ DoneHasArticle'
    BY <2>1 DEF Claims, Rows, Validated, JobOf, DoneHasArticle, jobQueue
  <2>10. puts' \in Nat
    BY <2>1
  <2> QED
    BY <2>5, <2>6, <2>7, <2>8, <2>9, <2>10 DEF Claims
<1>4. CASE PublishPointer(s)
  <2> DEFINE p == PointerOf(s)
  <2>1. /\ scPc[s] = "publish" /\ scPc' = [scPc EXCEPT ![s] = "ack"]
        /\ p \in Pointer /\ p \notin resPublished /\ resPublished' = resPublished \union {p}
        /\ resWaiting' = Append(resWaiting, [id |-> p, attempts |-> 0])
        /\ resInflight' = resInflight /\ resDead' = resDead
        /\ UNCHANGED <<jobQueue, submission, stores, scMsg, scGot, transformerVars, history>>
    BY <1>4 DEF PublishPointer, ResQ!Publish
  <2>2. p.job = scMsg[s].id
    BY DEF PointerOf
  <2> HIDE DEF p
  <2>3. JobOK'
    <3>1. Busy' = Busy
      BY <2>1 DEF Busy, TypeOK
    <3> QED
      BY <2>1, <3>1, JobStays
  <2>4. ResOK'
    <3>1. QueueOK(Pointer, resPublished', resWaiting', resInflight, Transformers, BusyT, trMsg)
      BY <2>1, PublishOK DEF ResOK
    <3>2. BusyT' = BusyT
      BY <2>1 DEF BusyT
    <3> QED
      BY <2>1, <3>1, <3>2 DEF ResOK
  <2>5. TypeOK'
    BY <2>1 DEF TypeOK
  <2>6. PointerResolves'
    <3>1. object[UrlOf[p.job]] # None /\ row[p.job] # None
      BY <2>1, <2>2, JobHeld DEF Claims, Fetched, Rows
    <3> QED
      BY <2>1, <3>1 DEF Claims, PointerResolves
  <2>7. Fetched'
    BY <2>1 DEF Claims, Fetched, TypeOK
  <2>8. Rows' /\ Validated' /\ DoneHasArticle'
    BY <2>1 DEF Claims, Rows, Validated, JobOf, DoneHasArticle, jobQueue
  <2> QED
    BY <2>1, <2>3, <2>4, <2>5, <2>6, <2>7, <2>8 DEF Claims
<1>5. CASE AckJob(s) \/ ScraperRaises(s) \/ ScraperDies(s)
  <2>1. /\ scPc[s] # "idle" /\ ScraperIdle(s)
        /\ UNCHANGED <<resQueue, submission, stores, transformerVars, puts>>
    BY <1>5 DEF AckJob, ScraperRaises, ScraperDies
  <2>2. \/ JobQ!Ack(scMsg[s]) \/ JobQ!Requeue(scMsg[s])
        \/ JobQ!DeadLetter(scMsg[s]) \/ JobQ!Abandon(scMsg[s])
    BY <1>5 DEF AckJob, ScraperRaises, ScraperDies
  <2>3. JobOK' /\ jobPublished' = jobPublished
    BY <2>1, <2>2, ScraperSettles, Places
       DEF JobQ!Ack, JobQ!Requeue, JobQ!DeadLetter, JobQ!Abandon
  <2>4. ResOK'
    BY <2>1, ResStays DEF BusyT
  <2>5. casualties' \subseteq Jobs
    BY <1>5, <2>1, JobHeld DEF AckJob, ScraperRaises, ScraperDies, TypeOK
  <2>6. TypeOK'
    BY <2>1, <2>5 DEF TypeOK, ScraperIdle
  <2>7. Claims'
    <3>1. \A u \in Scrapers : \/ scPc'[u] = scPc[u] /\ scGot'[u] = scGot[u] /\ scMsg'[u] = scMsg[u]
                              \/ scPc'[u] \in {"idle", "fetch"}
      BY <2>1 DEF TypeOK, ScraperIdle
    <3> QED
      BY <2>1, <2>3, <3>1, ClaimsStay DEF resQueue
  <2> QED
    BY <2>1, <2>3, <2>4, <2>6, <2>7
<1> QED
  BY <1>1, <1>2, <1>3, <1>4, <1>5 DEF ScraperStep

(* The transform worker, step by step.                                     *)
LEMMA CommitKeeps ==
    ASSUME IInv, NEW t \in Transformers, trPc[t] # "idle", NEW values, Commit(t, values),
           \/ values = [status |-> "running"]
           \/ values = [status |-> "done", count |-> 1] /\ trPc[t] = "done_commit"
           \/ values = [status |-> "error", count |-> 0, error |-> TRUE],
           NEW to \in {"read", "error_get", "ack"}, trPc' = [trPc EXCEPT ![t] = to]
    PROVE  IInv'
<1> USE DEF IInv, Shapes, Claims, scraperVars, history
<1>1. /\ row' \in [Jobs -> Row \union {None}]
      /\ \A j \in Jobs : j # JobOf(t) => row'[j] = row[j]
      /\ row[JobOf(t)] \in Row /\ row'[JobOf(t)] \in Row
      /\ row'[JobOf(t)].status \in {values.status, row[JobOf(t)].status}
  BY CommitRow
<1>2. /\ trRow' = [trRow EXCEPT ![t] = None]
      /\ UNCHANGED <<jobQueue, resQueue, submission, object, article, trMsg, trGot,
                     scraperVars, history>>
  BY DEF Commit
<1>3. Busy' = Busy /\ BusyT' = BusyT
  BY <1>2 DEF Busy, BusyT, TypeOK
<1>4. JobOK' /\ ResOK'
  BY <1>2, <1>3, JobStays, ResStays
<1>5. TypeOK'
  BY <1>1, <1>2 DEF TypeOK
<1>6. \A j \in Jobs : row[j] # None => row'[j] # None
  BY <1>1, NoneApart
<1>7. Rows'
  BY <1>2, <1>6 DEF Rows, jobQueue, JobOK, QueueOK
<1>8. PointerResolves'
  BY <1>2, <1>6 DEF PointerResolves, resQueue, ResOK, QueueOK, Pointer
<1>9. Fetched'
  BY <1>2 DEF Fetched
<1>10. Validated'
  BY <1>2 DEF Validated, JobOf, TypeOK
<1>11. DoneHasArticle'
  <2>1. ASSUME NEW j \in Jobs, row'[j] # None, row'[j].status = "done"
        PROVE  article[UrlOf[j]] # None
    <3>1. CASE j # JobOf(t)
      BY <1>1, <2>1, <3>1 DEF DoneHasArticle
    <3>2. CASE j = JobOf(t) /\ row[j].status = "done"
      BY <1>1, <3>2, NoneApart DEF DoneHasArticle
    <3>3. CASE j = JobOf(t) /\ values.status = "done"
      <4>1. trPc[t] = "done_commit"
        BY <3>3
      <4> QED
        BY <3>3, <4>1 DEF Validated
    <3> QED
      BY <1>1, <2>1, <3>1, <3>2, <3>3
  <2> QED
    BY <1>2, <2>1 DEF DoneHasArticle
<1> QED
  BY <1>2, <1>4, <1>5, <1>7, <1>8, <1>9, <1>10, <1>11

LEMMA GetRowKeeps ==
    ASSUME IInv, NEW t \in Transformers, NEW from, NEW to, GetRow(t, from, to),
           \/ from \in {"running_get", "error_get"} /\ to \in {"running_commit", "error_commit"}
           \/ from = "done_get" /\ to = "done_commit"
    PROVE  IInv'
<1> USE DEF IInv, Shapes, Claims, stores, scraperVars, history
<1>1. /\ trPc[t] = from /\ trPc' = [trPc EXCEPT ![t] = to]
      /\ trRow' = [trRow EXCEPT ![t] = row[JobOf(t)]]
      /\ UNCHANGED <<jobQueue, resQueue, submission, stores, trMsg, trGot, scraperVars, history>>
  BY DEF GetRow
<1>2. Busy' = Busy /\ BusyT' = BusyT
  BY <1>1 DEF Busy, BusyT, TypeOK
<1>3. JobOK' /\ ResOK'
  BY <1>1, <1>2, JobStays, ResStays
<1>4. JobOf(t) \in Jobs
  BY <1>1, PointerHeld
<1>5. TypeOK'
  BY <1>1, <1>4 DEF TypeOK
<1>6. Validated'
  BY <1>1 DEF Validated, JobOf, TypeOK
<1>7. Rows' /\ Fetched' /\ PointerResolves' /\ DoneHasArticle'
  BY <1>1 DEF Rows, Fetched, PointerResolves, DoneHasArticle, jobQueue, resQueue
<1> QED
  BY <1>1, <1>3, <1>5, <1>6, <1>7

LEMMA TransformerKeeps ==
    ASSUME IInv, NEW t \in Transformers,
           TransformStep(t) \/ TransformerRaises(t) \/ TransformerDies(t)
    PROVE  IInv'
<1> USE DEF IInv, Shapes, stores, scraperVars, history
<1>1. CASE TakePointer(t)
  <2>1. ResOK' /\ trMsg' = [trMsg EXCEPT ![t] = trMsg'[t]] /\ trMsg'[t] \in Messages(Pointer)
        /\ resPublished' = resPublished
    BY <1>1, TransformerTakes, Places
  <2>2. /\ trPc' = [trPc EXCEPT ![t] = "running_get"]
        /\ UNCHANGED <<jobQueue, submission, stores, trGot, trRow, scraperVars, history>>
    BY <1>1 DEF TakePointer
  <2>3. JobOK'
    BY <2>2, JobStays DEF Busy
  <2>4. TypeOK'
    BY <2>1, <2>2, NoneApart DEF TypeOK
  <2>5. Claims'
    <3>1. \A u \in Transformers :
             \/ trPc'[u] = trPc[u] /\ trGot'[u] = trGot[u] /\ trMsg'[u] = trMsg[u]
             \/ trPc'[u] \notin {"write", "done_get", "done_commit"}
      BY <2>1, <2>2 DEF TypeOK
    <3> QED
      BY <2>1, <2>2, <3>1, ClaimsStay DEF jobQueue
  <2> QED
    BY <2>1, <2>2, <2>3, <2>4, <2>5
<1>2. CASE GetForRunning(t) \/ GetForDone(t) \/ GetForError(t)
  BY <1>2, GetRowKeeps DEF GetForRunning, GetForDone, GetForError
<1>3. CASE MarkRunning(t) \/ MarkDone(t) \/ MarkError(t)
  BY <1>3, CommitKeeps DEF MarkRunning, MarkDone, MarkError
<1>4. CASE ReadRaw(t)
  <2>1. /\ trPc[t] = "read" /\ trGot' = [trGot EXCEPT ![t] = object[UrlOf[JobOf(t)]]]
        /\ trPc' = [trPc EXCEPT ![t] =
                       IF trGot'[t] # None /\ trGot'[t].kind = "page" THEN "write" ELSE "error_get"]
        /\ UNCHANGED <<jobQueue, resQueue, submission, stores, trMsg, trRow, scraperVars, history>>
    BY <1>4 DEF ReadRaw
  <2>2. object[UrlOf[JobOf(t)]] \in Raw \union {None}
    BY <2>1, PointerHeld DEF TypeOK
  <2>3. JobOK' /\ ResOK'
    <3>1. Busy' = Busy /\ BusyT' = BusyT
      BY <2>1 DEF Busy, BusyT, TypeOK
    <3> QED
      BY <2>1, <3>1, JobStays, ResStays
  <2>4. TypeOK'
    BY <2>1, <2>2 DEF TypeOK
  <2>5. Validated'
    BY <2>1, <2>2 DEF Claims, Validated, JobOf, TypeOK
  <2>6. Rows' /\ Fetched' /\ PointerResolves' /\ DoneHasArticle'
    BY <2>1 DEF Claims, Rows, Fetched, PointerResolves, DoneHasArticle, jobQueue, resQueue
  <2> QED
    BY <2>1, <2>3, <2>4, <2>5, <2>6 DEF Claims
<1>5. CASE WriteArticle(t)
  <2> DEFINE u == UrlOf[JobOf(t)]
  <2>1. /\ trPc[t] = "write" /\ trPc' = [trPc EXCEPT ![t] = "done_get"]
        /\ article' = [article EXCEPT ![u] = trGot[t]]
        /\ UNCHANGED <<jobQueue, resQueue, submission, row, object, trMsg, trGot, trRow,
                       scraperVars, history>>
    BY <1>5 DEF WriteArticle
  <2>2. u \in Urls
    BY <2>1, PointerHeld
  <2>3. trGot[t] \in Raw /\ trGot[t].kind = "page"
    BY <2>1 DEF Claims, Validated
  <2> HIDE DEF u
  <2>4. \A v \in Urls : article'[v] = IF v = u THEN trGot[t] ELSE article[v]
    BY <2>1, <2>2 DEF TypeOK
  <2>5. JobOK' /\ ResOK'
    <3>1. Busy' = Busy /\ BusyT' = BusyT
      BY <2>1 DEF Busy, BusyT, TypeOK
    <3> QED
      BY <2>1, <3>1, JobStays, ResStays
  <2>6. TypeOK'
    BY <2>1, <2>2, <2>3 DEF TypeOK
  <2>7. Validated'
    <3>1. \A v \in Transformers : trPc[v] # "idle" => UrlOf[JobOf(v)] \in Urls
      BY PointerHeld
    <3>2. \A v \in Transformers : JobOf(v)' = JobOf(v)
      BY <2>1 DEF JobOf
    <3>3. article'[UrlOf[JobOf(t)]] # None
      BY <2>2, <2>3, <2>4, NoneApart DEF u
    <3>4. ASSUME NEW v \in Transformers, v # t, trPc'[v] \in {"done_get", "done_commit"}
          PROVE  article'[UrlOf[JobOf(v)]] # None
      <4>1. trPc[v] = trPc'[v]
        BY <2>1, <3>4 DEF TypeOK
      <4> QED
        BY <2>3, <2>4, <3>1, <3>4, <4>1, NoneApart DEF Claims, Validated
    <3>5. \A v \in Transformers : trPc'[v] = "write" => trPc[v] = "write"
      BY <2>1 DEF TypeOK
    <3> QED
      BY <2>1, <3>2, <3>3, <3>4, <3>5 DEF Claims, Validated
  <2>8. DoneHasArticle'
    BY <2>1, <2>3, <2>4, NoneApart, UrlOfAssumption DEF Claims, DoneHasArticle
  <2>9. Rows' /\ Fetched' /\ PointerResolves'
    BY <2>1 DEF Claims, Rows, Fetched, PointerResolves, jobQueue, resQueue
  <2> QED
    BY <2>1, <2>5, <2>6, <2>7, <2>8, <2>9 DEF Claims
<1>6. CASE AckPointer(t) \/ TransformerRaises(t) \/ TransformerDies(t)
  <2>1. /\ trPc[t] # "idle" /\ TransformerIdle(t)
        /\ UNCHANGED <<jobQueue, submission, stores, scraperVars, puts>>
    BY <1>6 DEF AckPointer, TransformerRaises, TransformerDies
  <2>2. \/ ResQ!Ack(trMsg[t]) \/ ResQ!Requeue(trMsg[t])
        \/ ResQ!DeadLetter(trMsg[t]) \/ ResQ!Abandon(trMsg[t])
    BY <1>6 DEF AckPointer, TransformerRaises, TransformerDies
  <2>3. ResOK' /\ resPublished' = resPublished
    BY <2>1, <2>2, TransformerSettles, Places
       DEF ResQ!Ack, ResQ!Requeue, ResQ!DeadLetter, ResQ!Abandon
  <2>4. JobOK'
    BY <2>1, JobStays DEF Busy
  <2>5. casualties' \subseteq Jobs
    BY <1>6, <2>1, PointerHeld DEF AckPointer, TransformerRaises, TransformerDies, TypeOK
  <2>6. TypeOK'
    BY <2>1, <2>5 DEF TypeOK, TransformerIdle
  <2>7. Claims'
    <3>1. \A u \in Transformers :
             \/ trPc'[u] = trPc[u] /\ trGot'[u] = trGot[u] /\ trMsg'[u] = trMsg[u]
             \/ trPc'[u] \notin {"write", "done_get", "done_commit"}
      BY <2>1 DEF TypeOK, TransformerIdle
    <3> QED
      BY <2>1, <2>3, <3>1, ClaimsStay DEF jobQueue
  <2> QED
    BY <2>1, <2>3, <2>4, <2>6, <2>7
<1> QED
  BY <1>1, <1>2, <1>3, <1>4, <1>5, <1>6 DEF TransformStep

(* Every step of the pipeline keeps the invariant.                         *)
LEMMA IInvHolds == Spec => []IInv
<1>1. Init => IInv
  <2> USE DEF Init, JobQ!QueueInit, ResQ!QueueInit
  <2>1. Init => TypeOK /\ puts \in Nat
    BY DEF TypeOK
  <2>2. Init => JobOK /\ ResOK
    BY EmptySeq DEF JobOK, ResOK, QueueOK, Busy, BusyT
  <2>3. Init => Claims
    BY DEF Claims, Rows, Fetched, Validated, PointerResolves, DoneHasArticle
  <2> QED
    BY <2>1, <2>2, <2>3 DEF IInv, Shapes
<1>2. IInv /\ [Next]_vars => IInv'
  <2>1. IInv /\ Next => IInv'
    BY SubmitKeeps, ScraperKeeps, TransformerKeeps DEF Next
  <2>2. ASSUME IInv, UNCHANGED vars PROVE IInv'
    <3> USE <2>2 DEF vars, IInv, Shapes, stores, scraperVars, transformerVars, history
    <3>1. JobOK' /\ ResOK'
      BY JobStays, ResStays DEF Busy, BusyT
    <3>2. TypeOK' /\ puts' \in Nat
      BY DEF TypeOK
    <3>3. Claims'
      BY ClaimsStay DEF jobQueue, resQueue
    <3> QED
      BY <3>1, <3>2, <3>3
  <2> QED
    BY <2>1, <2>2
<1> QED
  BY <1>1, <1>2, PTL DEF Spec

(* Types: proof of the type invariant.                                     *)
THEOREM TypesHold == Spec => []TypeOK
<1>1. IInv => TypeOK
  BY DEF IInv, Shapes
<1> QED
  BY <1>1, IInvHolds, PTL

(* Claim check: a pointer that was published resolves for good.            *)
THEOREM PointersResolve == Spec => []PointerResolves
<1>1. IInv => PointerResolves
  BY DEF IInv, Claims
<1> QED
  BY <1>1, IInvHolds, PTL

(* A job that is done has its article, and articles are made from pages.   *)
THEOREM DoneJobsHaveArticles == Spec => []DoneHasArticle
<1>1. IInv => DoneHasArticle
  BY DEF IInv, Claims
<1> QED
  BY <1>1, IInvHolds, PTL

-----------------------------------------------------------------------------
(* Why a stuck job is stuck.  A row that is not terminal is owed work by   *)
(* somebody: the request handler, a queue, a scraper that has not          *)
(* published, or a transform that has not made its last commit yet, where  *)
(* a commit that will write nothing because the status it wants is the one *)
(* it read does not count.                                                 *)

Pending(t) ==
    \/ trPc[t] \in {"running_get", "running_commit", "read", "write", "done_get", "error_get"}
    \/ trPc[t] = "done_commit" /\ trRow[t].status # "done"
    \/ trPc[t] = "error_commit" /\ trRow[t].status # "error"

WorkedOn(j) ==
    \/ submission[j] = "created"
    \/ j \in IdsOf(jobWaiting)
    \/ \E s \in Scrapers : scPc[s] \in {"fetch", "put", "publish"} /\ scMsg[s].id = j
    \/ \E p \in IdsOf(resWaiting) : p.job = j
    \/ \E t \in Transformers : Pending(t) /\ JobOf(t) = j

Lost(j) ==
    \/ submission[j] = "failed"
    \/ j \in IdsOf(jobDead)
    \/ \E p \in IdsOf(resDead) : p.job = j
    \/ j \in casualties

Owed == \A j \in Jobs : row[j] = None \/ Terminal(j) \/ Lost(j) \/ WorkedOn(j)

(* No row changes, what is lost stays lost, and work that leaves one place *)
(* is in another, or lost.                                                 *)
LEMMA OwedStays ==
    ASSUME Owed, row' = row, \A j \in Jobs : Lost(j) => Lost(j)',
           \A j \in Jobs : WorkedOn(j) => WorkedOn(j)' \/ Lost(j)'
    PROVE  Owed'
BY DEF Owed, Terminal

LEMMA SubmitOwes ==
    ASSUME IInv, Owed, NEW j \in Jobs, Submit(j) PROVE Owed'
<1> USE DEF stores, scraperVars, transformerVars, history, jobQueue, resQueue
<1>1. CASE CreateJob(j)
  <2>1. /\ row' = [row EXCEPT ![j] = [status |-> "queued", count |-> 0, error |-> FALSE]]
        /\ submission[j] = "none" /\ submission' = [submission EXCEPT ![j] = "created"]
        /\ UNCHANGED <<jobQueue, resQueue, object, article, scraperVars, transformerVars, history>>
    BY <1>1 DEF CreateJob
  <2>2. submission'[j] = "created" /\ \A i \in Jobs \ {j} : submission'[i] = submission[i] /\ row'[i] = row[i]
    BY <2>1 DEF IInv, Shapes, TypeOK
  <2>3. WorkedOn(j)'
    BY <2>2 DEF WorkedOn
  <2>4. ASSUME NEW i \in Jobs \ {j}
        PROVE  row'[i] = None \/ Terminal(i)' \/ Lost(i)' \/ WorkedOn(i)'
    <3>1. Lost(i) => Lost(i)'
      BY <2>1, <2>2 DEF Lost
    <3>2. WorkedOn(i) => WorkedOn(i)'
      BY <2>1, <2>2 DEF WorkedOn, Pending, JobOf
    <3> QED
      BY <2>2, <3>1, <3>2 DEF Owed, Terminal
  <2> QED
    BY <2>3, <2>4 DEF Owed
<1>2. CASE PublishJob(j)
  <2>1. /\ submission[j] = "created" /\ submission' = [submission EXCEPT ![j] = "published"]
        /\ jobWaiting' = Append(jobWaiting, [id |-> j, attempts |-> 0]) /\ jobDead' = jobDead
        /\ UNCHANGED <<resQueue, stores, scraperVars, transformerVars, history>>
    BY <1>2 DEF PublishJob, JobQ!Publish
  <2>2. IdsOf(jobWaiting)' = IdsOf(jobWaiting) \union {j}
    <3>1. [id |-> j, attempts |-> 0] \in Messages(Jobs) /\ jobWaiting \in Seq(Messages(Jobs))
      BY DEF Messages, IInv, Shapes, JobOK, QueueOK
    <3> QED
      BY <2>1, <3>1, IdsAppended
  <2>3. \A i \in Jobs \ {j} : submission'[i] = submission[i]
    BY <2>1 DEF IInv, Shapes, TypeOK
  <2>4. \A i \in Jobs : Lost(i) => Lost(i)'
    BY <2>1, <2>3 DEF Lost
  <2>5. \A i \in Jobs : WorkedOn(i) => WorkedOn(i)'
    BY <2>1, <2>2, <2>3 DEF WorkedOn, Pending, JobOf
  <2> QED
    BY <2>1, <2>4, <2>5, OwedStays
<1>3. CASE PublishJobFails(j)
  <2>1. /\ submission' = [submission EXCEPT ![j] = "failed"]
        /\ UNCHANGED <<jobQueue, resQueue, stores, scraperVars, transformerVars, casualties>>
    BY <1>3 DEF PublishJobFails
  <2>2. submission'[j] = "failed" /\ \A i \in Jobs \ {j} : submission'[i] = submission[i]
    BY <2>1 DEF IInv, Shapes, TypeOK
  <2>3. \A i \in Jobs : Lost(i) => Lost(i)'
    BY <2>1, <2>2 DEF Lost
  <2>4. Lost(j)'
    BY <2>2 DEF Lost
  <2>5. \A i \in Jobs \ {j} : WorkedOn(i) => WorkedOn(i)'
    BY <2>1, <2>2 DEF WorkedOn, Pending, JobOf
  <2> QED
    BY <2>1, <2>3, <2>4, <2>5, OwedStays
<1> QED
  BY <1>1, <1>2, <1>3 DEF Submit

(* A scraper's message: waiting again, dead-lettered, or acknowledged when *)
(* the pointer has been published.                                         *)
LEMMA ScraperOwes ==
    ASSUME IInv, Owed, NEW s \in Scrapers, ScraperStep(s) \/ ScraperRaises(s) \/ ScraperDies(s)
    PROVE  Owed'
<1> USE DEF stores, transformerVars, history, resQueue
<1>1. jobWaiting \in Seq(Messages(Jobs)) /\ jobDead \in Seq(Messages(Jobs))
  BY DEF IInv, Shapes, JobOK, QueueOK
<1>2. DOMAIN scPc = Scrapers /\ DOMAIN scMsg = Scrapers
  BY DEF IInv, Shapes, TypeOK
<1>3. CASE TakeJob(s)
  <2>1. scMsg' = [scMsg EXCEPT ![s] = scMsg'[s]] /\ scMsg'[s].id = Head(jobWaiting).id
    BY <1>2, <1>3, ScraperTakes DEF IInv, Shapes
  <2>2. /\ scPc[s] = "idle" /\ scPc' = [scPc EXCEPT ![s] = "fetch"] /\ jobDead' = jobDead
        /\ jobWaiting # <<>> /\ jobWaiting' = Tail(jobWaiting)
        /\ UNCHANGED <<resQueue, submission, stores, transformerVars, history>>
    BY <1>3 DEF TakeJob, JobQ!Reserve
  <2>3. \A i \in IdsOf(jobWaiting) : i = scMsg'[s].id \/ i \in IdsOf(jobWaiting)'
    BY <1>1, <2>1, <2>2, IdsBeheaded
  <2>4. \A i \in Jobs : Lost(i) => Lost(i)'
    BY <2>2 DEF Lost
  <2>5. \A u \in Scrapers \ {s} : scPc'[u] = scPc[u] /\ scMsg'[u] = scMsg[u]
    BY <1>2, <2>1, <2>2
  <2>6. scPc'[s] = "fetch"
    BY <1>2, <2>2
  <2>7. \A i \in Jobs : WorkedOn(i) => WorkedOn(i)'
    BY <2>2, <2>3, <2>5, <2>6 DEF WorkedOn, Pending, JobOf
  <2> QED
    BY <2>2, <2>4, <2>7, OwedStays
<1>4. CASE Fetch(s) \/ PutRaw(s)
  <2>1. /\ scPc[s] \in {"fetch", "put"} /\ scMsg' = scMsg
        /\ \E to \in {"put", "publish"} : scPc' = [scPc EXCEPT ![s] = to]
        /\ UNCHANGED <<jobQueue, resQueue, submission, row, transformerVars, casualties>>
    BY <1>4 DEF Fetch, PutRaw
  <2>2. \A i \in Jobs : Lost(i) => Lost(i)'
    BY <2>1 DEF Lost, jobQueue
  <2>3. \A i \in Jobs : WorkedOn(i) => WorkedOn(i)'
    BY <1>2, <2>1 DEF WorkedOn, Pending, JobOf, jobQueue
  <2> QED
    BY <2>1, <2>2, <2>3, OwedStays
<1>5. CASE PublishPointer(s)
  <2> DEFINE p == PointerOf(s)
  <2>1. /\ scPc[s] = "publish" /\ scPc' = [scPc EXCEPT ![s] = "ack"]
        /\ p \in Pointer /\ resWaiting' = Append(resWaiting, [id |-> p, attempts |-> 0])
        /\ resDead' = resDead
        /\ UNCHANGED <<jobQueue, submission, stores, scMsg, transformerVars, history>>
    BY <1>5 DEF PublishPointer, ResQ!Publish
  <2>2. p.job = scMsg[s].id
    BY DEF PointerOf
  <2> HIDE DEF p
  <2>3. IdsOf(resWaiting)' = IdsOf(resWaiting) \union {p}
    <3>1. [id |-> p, attempts |-> 0] \in Messages(Pointer) /\ resWaiting \in Seq(Messages(Pointer))
      BY <2>1 DEF Messages, IInv, Shapes, ResOK, QueueOK
    <3> QED
      BY <2>1, <3>1, IdsAppended
  <2>4. \A i \in Jobs : Lost(i) => Lost(i)'
    BY <2>1 DEF Lost, jobQueue
  <2>5. \A u \in Scrapers \ {s} : scPc'[u] = scPc[u]
    BY <1>2, <2>1
  <2>6. \A i \in Jobs : WorkedOn(i) => WorkedOn(i)'
    BY <2>1, <2>2, <2>3, <2>5 DEF WorkedOn, Pending, JobOf, jobQueue
  <2> QED
    BY <2>1, <2>4, <2>6, OwedStays
<1>6. CASE AckJob(s) \/ ScraperRaises(s) \/ ScraperDies(s)
  <2>1. /\ scPc[s] # "idle" /\ ScraperIdle(s)
        /\ UNCHANGED <<resQueue, submission, stores, transformerVars>>
    BY <1>6 DEF AckJob, ScraperRaises, ScraperDies
  <2>2. \A u \in Scrapers \ {s} : scPc'[u] = scPc[u] /\ scMsg'[u] = scMsg[u]
    BY <1>2, <2>1 DEF ScraperIdle
  <2>3. scMsg[s] \in Messages(Jobs)
    BY <2>1, JobHeld DEF IInv, Shapes
  <2>4. /\ \A i \in IdsOf(jobWaiting) : i \in IdsOf(jobWaiting)'
        /\ \A i \in IdsOf(jobDead) : i \in IdsOf(jobDead)'
        /\ \A i \in casualties : i \in casualties'
        /\ \/ scPc[s] = "ack" \/ scMsg[s].id \in IdsOf(jobWaiting)'
           \/ scMsg[s].id \in IdsOf(jobDead)' \/ scMsg[s].id \in casualties'
    <3>1. CASE AckJob(s)
      BY <3>1 DEF AckJob, JobQ!Ack
    <3>2. CASE ScraperRaises(s) /\ JobQ!Requeue(scMsg[s])
      <4>1. IdsOf(jobWaiting)' = IdsOf(jobWaiting) \union {scMsg[s].id}
        BY <1>1, <2>3, <3>2, IdsAppended DEF JobQ!Requeue
      <4> QED
        BY <3>2, <4>1 DEF ScraperRaises, JobQ!Requeue
    <3>3. CASE ScraperRaises(s) /\ JobQ!DeadLetter(scMsg[s])
      <4>1. IdsOf(jobDead)' = IdsOf(jobDead) \union {scMsg[s].id}
        BY <1>1, <2>3, <3>3, IdsAppended DEF JobQ!DeadLetter
      <4> QED
        BY <3>3, <4>1 DEF ScraperRaises, JobQ!DeadLetter
    <3>4. CASE ScraperDies(s)
      BY <3>4 DEF ScraperDies, JobQ!Abandon
    <3> QED
      BY <1>6, <3>1, <3>2, <3>3, <3>4 DEF ScraperRaises
  <2>5. \A i \in Jobs : Lost(i) => Lost(i)'
    BY <2>1, <2>4 DEF Lost
  <2>6. \A i \in Jobs : WorkedOn(i) => WorkedOn(i)' \/ Lost(i)'
    <3>1. ASSUME NEW i \in Jobs, WorkedOn(i), ~Lost(i)' PROVE WorkedOn(i)'
      <4>1. CASE submission[i] = "created" \/ i \in IdsOf(jobWaiting)
        BY <2>1, <2>4, <4>1 DEF WorkedOn
      <4>2. CASE \E u \in Scrapers : scPc[u] \in {"fetch", "put", "publish"} /\ scMsg[u].id = i
        BY <2>2, <2>4, <3>1, <4>2 DEF WorkedOn, Lost
      <4>3. CASE \/ \E p \in IdsOf(resWaiting) : p.job = i
                 \/ \E t \in Transformers : Pending(t) /\ JobOf(t) = i
        BY <2>1, <4>3 DEF WorkedOn, Pending, JobOf
      <4> QED
        BY <3>1, <4>1, <4>2, <4>3 DEF WorkedOn
    <3> QED
      BY <3>1
  <2> QED
    BY <2>1, <2>5, <2>6, OwedStays
<1> QED
  BY <1>3, <1>4, <1>5, <1>6 DEF ScraperStep

(* A commit: its own job gets the status wanted, or keeps one somebody     *)
(* else still owes work for.                                               *)
LEMMA CommitOwes ==
    ASSUME IInv, Owed, NEW t \in Transformers, NEW values, Commit(t, values),
           NEW to \in {"read", "error_get", "ack"}, trPc' = [trPc EXCEPT ![t] = to],
           \/ trPc[t] = "running_commit" /\ values = [status |-> "running"] /\ to # "ack"
           \/ trPc[t] = "done_commit" /\ values = [status |-> "done", count |-> 1]
           \/ trPc[t] = "error_commit" /\ values = [status |-> "error", count |-> 0, error |-> TRUE]
    PROVE  Owed'
<1>1. /\ \A j \in Jobs : j # JobOf(t) => row'[j] = row[j]
      /\ row[JobOf(t)] \in Row /\ row'[JobOf(t)] \in Row
      /\ row'[JobOf(t)].status =
            IF values.status # trRow[t].status THEN values.status ELSE row[JobOf(t)].status
  BY CommitRow
<1>2. /\ trRow' = [trRow EXCEPT ![t] = None]
      /\ UNCHANGED <<jobQueue, resQueue, submission, trMsg, scraperVars, history>>
  BY DEF Commit
<1>3. \A v \in Transformers \ {t} : Pending(v) => Pending(v)' /\ JobOf(v)' = JobOf(v)
  BY <1>2 DEF Pending, JobOf, IInv, Shapes, TypeOK
<1>4. trPc'[t] = to /\ JobOf(t)' = JobOf(t)
  BY <1>2 DEF JobOf, IInv, Shapes, TypeOK
<1>5. \A i \in Jobs : Lost(i) => Lost(i)'
  BY <1>2 DEF Lost, jobQueue, resQueue, history
<1>6. ASSUME NEW i \in Jobs, WorkedOn(i), i # JobOf(t) \/ ~Pending(t) PROVE WorkedOn(i)'
  BY <1>2, <1>3, <1>6 DEF WorkedOn, jobQueue, resQueue, scraperVars
<1>7. ASSUME NEW i \in Jobs, i # JobOf(t)
      PROVE  row'[i] = None \/ Terminal(i)' \/ Lost(i)' \/ WorkedOn(i)'
  BY <1>1, <1>5, <1>6, <1>7 DEF Owed, Terminal
<1>8. ASSUME JobOf(t) \in Jobs
      PROVE  Terminal(JobOf(t))' \/ Lost(JobOf(t))' \/ WorkedOn(JobOf(t))'
  <2> DEFINE j == JobOf(t)
  <2>1. row[j] # None /\ row'[j] # None
    BY <1>1, NoneApart
  <2>2. CASE to # "ack"
    <3>1. Pending(t)'
      BY <1>4, <2>2 DEF Pending
    <3> QED
      BY <1>4, <3>1 DEF WorkedOn
  <2>3. CASE to = "ack" /\ values.status # trRow[t].status
    <3>1. row'[j].status \in {"done", "error"}
      BY <1>1, <2>3
    <3>2. Terminal(j)'
      BY <1>4, <2>1, <3>1 DEF Terminal
    <3> QED
      BY <3>2
  <2>4. CASE to = "ack" /\ values.status = trRow[t].status
    <3>1. ~Pending(t)
      BY <2>4 DEF Pending
    <3>2. row'[j].status = row[j].status
      BY <1>1, <2>4
    <3>3. Terminal(j) \/ Lost(j) \/ WorkedOn(j)
      BY <1>8, <2>1 DEF Owed
    <3>4. CASE Terminal(j)
      BY <1>4, <2>1, <3>2, <3>4 DEF Terminal
    <3>5. CASE Lost(j)
      BY <1>2, <1>4, <3>5 DEF Lost, jobQueue, resQueue, history
    <3>6. CASE WorkedOn(j)
      BY <1>2, <1>3, <1>4, <3>1, <3>6 DEF WorkedOn, jobQueue, resQueue, scraperVars
    <3> QED
      BY <3>3, <3>4, <3>5, <3>6
  <2> QED
    BY <2>2, <2>3, <2>4
<1> QED
  BY <1>4, <1>7, <1>8 DEF Owed, Terminal, Lost, WorkedOn

(* Reading the row: the worker stays pending, or the row is terminal.      *)
LEMMA GetRowOwes ==
    ASSUME IInv, Owed, NEW t \in Transformers, NEW from, NEW to, GetRow(t, from, to),
           \/ from = "running_get" /\ to = "running_commit"
           \/ from = "done_get" /\ to = "done_commit"
           \/ from = "error_get" /\ to = "error_commit"
    PROVE  Owed'
<1>1. /\ trPc[t] = from /\ trPc' = [trPc EXCEPT ![t] = to]
      /\ trRow' = [trRow EXCEPT ![t] = row[JobOf(t)]]
      /\ UNCHANGED <<jobQueue, resQueue, submission, stores, trMsg, scraperVars, history>>
  BY DEF GetRow
<1>2. row[JobOf(t)] # None
  BY <1>1, PointerHeld DEF IInv, Shapes, Claims, PointerResolves, JobOf
<1>3. /\ trPc'[t] = to /\ trRow'[t] = row[JobOf(t)]
      /\ \A v \in Transformers \ {t} : trPc'[v] = trPc[v] /\ trRow'[v] = trRow[v]
  BY <1>1 DEF IInv, Shapes, TypeOK
<1>4. Pending(t)' \/ Terminal(JobOf(t))
  BY <1>2, <1>3 DEF Pending, Terminal
<1>5. \A v \in Transformers : JobOf(v)' = JobOf(v)
  BY <1>1 DEF JobOf
<1>6. \A v \in Transformers \ {t} : Pending(v) => Pending(v)'
  BY <1>3 DEF Pending
<1>7. \A i \in Jobs : Lost(i) => Lost(i)'
  BY <1>1 DEF Lost, jobQueue, resQueue, history
<1>8. ASSUME NEW i \in Jobs, WorkedOn(i) PROVE Terminal(i) \/ WorkedOn(i)'
  BY <1>1, <1>4, <1>5, <1>6, <1>8 DEF WorkedOn, jobQueue, resQueue, scraperVars
<1> QED
  BY <1>1, <1>7, <1>8 DEF Owed, Terminal, stores

LEMMA TransformerOwes ==
    ASSUME IInv, Owed, NEW t \in Transformers,
           TransformStep(t) \/ TransformerRaises(t) \/ TransformerDies(t)
    PROVE  Owed'
<1> USE DEF stores, scraperVars, history, jobQueue
<1>1. resWaiting \in Seq(Messages(Pointer)) /\ resDead \in Seq(Messages(Pointer))
  BY DEF IInv, Shapes, ResOK, QueueOK
<1>2. DOMAIN trPc = Transformers /\ DOMAIN trMsg = Transformers /\ DOMAIN trRow = Transformers
  BY DEF IInv, Shapes, TypeOK
<1>3. CASE TakePointer(t)
  <2>1. trMsg' = [trMsg EXCEPT ![t] = trMsg'[t]] /\ trMsg'[t].id = Head(resWaiting).id
    BY <1>2, <1>3, TransformerTakes DEF IInv, Shapes
  <2>2. /\ trPc[t] = "idle" /\ trPc' = [trPc EXCEPT ![t] = "running_get"] /\ trRow' = trRow
        /\ resWaiting # <<>> /\ resWaiting' = Tail(resWaiting) /\ resDead' = resDead
        /\ UNCHANGED <<jobQueue, submission, stores, scraperVars, history>>
    BY <1>3 DEF TakePointer, ResQ!Reserve
  <2>3. \A p \in IdsOf(resWaiting) : p = trMsg'[t].id \/ p \in IdsOf(resWaiting)'
    BY <1>1, <2>1, <2>2, IdsBeheaded
  <2>4. \A i \in Jobs : Lost(i) => Lost(i)'
    BY <2>2 DEF Lost
  <2>5. /\ Pending(t)' /\ ~Pending(t) /\ JobOf(t)' = trMsg'[t].id.job
        /\ \A v \in Transformers \ {t} : Pending(v) => Pending(v)' /\ JobOf(v)' = JobOf(v)
    BY <1>2, <2>1, <2>2 DEF Pending, JobOf
  <2>6. ASSUME NEW i \in Jobs, WorkedOn(i) PROVE WorkedOn(i)'
    <3>1. CASE \E p \in IdsOf(resWaiting) : p.job = i
      BY <2>3, <2>5, <3>1 DEF WorkedOn
    <3>2. CASE \E v \in Transformers : Pending(v) /\ JobOf(v) = i
      BY <2>5, <3>2 DEF WorkedOn
    <3> QED
      BY <2>2, <2>6, <3>1, <3>2 DEF WorkedOn
  <2> QED
    BY <2>2, <2>4, <2>6, OwedStays
<1>4. CASE GetForRunning(t) \/ GetForDone(t) \/ GetForError(t)
  BY <1>4, GetRowOwes DEF GetForRunning, GetForDone, GetForError
<1>5. CASE MarkRunning(t) \/ MarkDone(t) \/ MarkError(t)
  BY <1>5, CommitOwes DEF MarkRunning, MarkDone, MarkError
<1>6. CASE ReadRaw(t) \/ WriteArticle(t)
  <2>1. /\ trPc[t] \in {"read", "write"} /\ trMsg' = trMsg /\ trRow' = trRow
        /\ \E to \in {"write", "error_get", "done_get"} : trPc' = [trPc EXCEPT ![t] = to]
        /\ UNCHANGED <<jobQueue, resQueue, submission, row, scraperVars, history>>
    BY <1>6 DEF ReadRaw, WriteArticle
  <2>2. \A v \in Transformers : Pending(v) => Pending(v)' /\ JobOf(v)' = JobOf(v)
    BY <1>2, <2>1 DEF Pending, JobOf
  <2>3. \A i \in Jobs : Lost(i) => Lost(i)'
    BY <2>1 DEF Lost, resQueue
  <2>4. \A i \in Jobs : WorkedOn(i) => WorkedOn(i)'
    BY <2>1, <2>2 DEF WorkedOn, resQueue
  <2> QED
    BY <2>1, <2>3, <2>4, OwedStays
<1>7. CASE AckPointer(t) \/ TransformerRaises(t) \/ TransformerDies(t)
  <2>1. /\ trPc[t] # "idle" /\ TransformerIdle(t)
        /\ UNCHANGED <<jobQueue, submission, stores, scraperVars>>
    BY <1>7 DEF AckPointer, TransformerRaises, TransformerDies
  <2>2. \A v \in Transformers \ {t} : Pending(v) => Pending(v)' /\ JobOf(v)' = JobOf(v)
    BY <1>2, <2>1 DEF TransformerIdle, Pending, JobOf
  <2>3. trMsg[t] \in Messages(Pointer)
    BY <2>1, PointerHeld DEF IInv, Shapes
  <2>4. /\ \A p \in IdsOf(resWaiting) : p \in IdsOf(resWaiting)'
        /\ \A p \in IdsOf(resDead) : p \in IdsOf(resDead)'
        /\ \A i \in casualties : i \in casualties'
        /\ \/ trPc[t] = "ack" \/ trMsg[t].id \in IdsOf(resWaiting)'
           \/ trMsg[t].id \in IdsOf(resDead)' \/ JobOf(t) \in casualties'
    <3>1. CASE AckPointer(t)
      BY <3>1 DEF AckPointer, ResQ!Ack
    <3>2. CASE TransformerRaises(t) /\ ResQ!Requeue(trMsg[t])
      <4>1. IdsOf(resWaiting)' = IdsOf(resWaiting) \union {trMsg[t].id}
        BY <1>1, <2>3, <3>2, IdsAppended DEF ResQ!Requeue
      <4> QED
        BY <3>2, <4>1 DEF TransformerRaises, ResQ!Requeue
    <3>3. CASE TransformerRaises(t) /\ ResQ!DeadLetter(trMsg[t])
      <4>1. IdsOf(resDead)' = IdsOf(resDead) \union {trMsg[t].id}
        BY <1>1, <2>3, <3>3, IdsAppended DEF ResQ!DeadLetter
      <4> QED
        BY <3>3, <4>1 DEF TransformerRaises, ResQ!DeadLetter
    <3>4. CASE TransformerDies(t)
      BY <3>4 DEF TransformerDies, ResQ!Abandon
    <3> QED
      BY <1>7, <3>1, <3>2, <3>3, <3>4 DEF TransformerRaises
  <2>5. \A i \in Jobs : Lost(i) => Lost(i)'
    BY <2>1, <2>4 DEF Lost
  <2>6. ASSUME NEW i \in Jobs, WorkedOn(i) PROVE WorkedOn(i)' \/ Lost(i)'
    <3>1. CASE Pending(t) /\ JobOf(t) = i
      <4>1. trPc[t] # "ack" /\ trMsg[t].id.job = i
        BY <3>1 DEF Pending, JobOf
      <4> QED
        BY <2>4, <3>1, <4>1 DEF WorkedOn, Lost
    <3>2. CASE \E v \in Transformers \ {t} : Pending(v) /\ JobOf(v) = i
      BY <2>2, <3>2 DEF WorkedOn
    <3>3. CASE \/ submission[i] = "created" \/ i \in IdsOf(jobWaiting)
               \/ \E s \in Scrapers : scPc[s] \in {"fetch", "put", "publish"} /\ scMsg[s].id = i
               \/ \E p \in IdsOf(resWaiting) : p.job = i
      BY <2>1, <2>4, <3>3 DEF WorkedOn
    <3> QED
      BY <2>6, <3>1, <3>2, <3>3 DEF WorkedOn
  <2> QED
    BY <2>1, <2>5, <2>6, OwedStays
<1> QED
  BY <1>3, <1>4, <1>5, <1>6, <1>7 DEF TransformStep

(* Every row that is not terminal is in progress, or is lost for a reason  *)
(* the model names: no early return and no lost update leaves it behind.   *)
THEOREM StuckJobsExplained == Spec => []StuckJobIsExplained
<1>1. Init => Owed
  BY DEF Init, Owed
<1>2. IInv /\ Owed /\ [Next]_vars => Owed'
  <2>1. IInv /\ Owed /\ Next => Owed'
    BY SubmitOwes, ScraperOwes, TransformerOwes DEF Next
  <2>2. ASSUME Owed, UNCHANGED vars PROVE Owed'
    <3>1. UNCHANGED <<jobQueue, resQueue, submission, stores, scraperVars, transformerVars, history>>
      BY <2>2 DEF vars
    <3>2. \A i \in Jobs : Lost(i) => Lost(i)'
      BY <3>1 DEF Lost, jobQueue, resQueue, history
    <3>3. \A i \in Jobs : WorkedOn(i) => WorkedOn(i)'
      BY <3>1 DEF WorkedOn, Pending, JobOf, jobQueue, resQueue, scraperVars, transformerVars
    <3> QED
      BY <2>2, <3>1, <3>2, <3>3, OwedStays DEF stores
  <2> QED
    BY <2>1, <2>2
<1>3. IInv /\ Owed => StuckJobIsExplained
  <2>1. ASSUME IInv, NEW j \in Jobs, WorkedOn(j) PROVE InProgress(j)
    <3>1. CASE \E s \in Scrapers : scPc[s] \in {"fetch", "put", "publish"} /\ scMsg[s].id = j
      BY <2>1, <3>1, JobHeld DEF InProgress, IInv, Shapes
    <3>2. CASE \E t \in Transformers : Pending(t) /\ JobOf(t) = j
      <4>1. PICK t \in Transformers : Pending(t) /\ JobOf(t) = j
        BY <3>2
      <4>2. trMsg[t] \in resInflight /\ trMsg[t].id.job = j
        BY <2>1, <4>1, PointerHeld DEF Pending, JobOf, IInv, Shapes
      <4> QED
        BY <4>2 DEF InProgress
    <3>3. CASE \/ submission[j] = "created" \/ j \in IdsOf(jobWaiting)
               \/ \E p \in IdsOf(resWaiting) : p.job = j
      BY <3>3 DEF IdsOf, InProgress
    <3> QED
      BY <2>1, <3>1, <3>2, <3>3 DEF WorkedOn
  <2>2. \A j \in Jobs : Lost(j) => GivenUp(j)
    BY DEF Lost, GivenUp, IdsOf
  <2> QED
    BY <2>1, <2>2 DEF Owed, StuckJobIsExplained
<1> QED
  BY <1>1, <1>2, <1>3, IInvHolds, PTL DEF Spec

-----------------------------------------------------------------------------
(* The order of the statuses while no call has failed: every job then has  *)
(* at most one pointer, so that one transform only writes its row, and the *)
(* row has the status that transform's place says.                         *)

Scraping == {"fetch", "put", "publish"}

OnePointer ==
    /\ \A p \in resPublished : p.job \in jobPublished
    /\ \A p \in resPublished, i \in IdsOf(jobWaiting) : p.job # i
    /\ \A p \in resPublished, s \in Scrapers : scPc[s] \in Scraping => p.job # scMsg[s].id
    /\ \A p, q \in resPublished : p.job = q.job => p = q

StatusOf(t) ==
    /\ trPc[t] \in {"running_get", "running_commit"} => row[JobOf(t)].status = "queued"
    /\ trPc[t] = "running_commit" => trRow[t].status = "queued"
    /\ trPc[t] \in {"read", "write", "done_get", "done_commit", "error_get", "error_commit"}
          => row[JobOf(t)].status = "running"
    /\ trPc[t] \in {"done_commit", "error_commit"} => trRow[t].status = "running"

Statuses ==
    /\ \A j \in Jobs : row[j] # None /\ (\A p \in resPublished : p.job # j) => row[j].status = "queued"
    /\ \A p \in IdsOf(resWaiting) : row[p.job].status = "queued"
    /\ \A t \in Transformers : StatusOf(t)

Orderly == /\ faults \in Nat /\ \A j \in Jobs : submission[j] = "none" => row[j] = None
           /\ faults = 0 => OnePointer /\ Statuses

(* The ids of a queue are published, and none is held by a consumer.       *)
LEMMA WaitingApart ==
    ASSUME IInv
    PROVE  /\ \A i \in IdsOf(jobWaiting) : i \in jobPublished
           /\ \A i \in IdsOf(jobWaiting), s \in Scrapers : scPc[s] # "idle" => i # scMsg[s].id
           /\ \A s, u \in Scrapers : scPc[s] # "idle" /\ scPc[u] # "idle" /\ s # u
                                        => scMsg[s].id # scMsg[u].id
           /\ \A p \in IdsOf(resWaiting) : p \in resPublished
           /\ \A p \in IdsOf(resWaiting), t \in Transformers : trPc[t] # "idle" => p # trMsg[t].id
           /\ \A t, v \in Transformers : trPc[t] # "idle" /\ trPc[v] # "idle" /\ t # v
                                        => trMsg[t].id # trMsg[v].id
<1>1. /\ \A i \in IdsOf(jobWaiting) : i \in jobPublished
      /\ \A i \in IdsOf(jobWaiting), s \in Scrapers : scPc[s] # "idle" => i # scMsg[s].id
      /\ \A s, u \in Scrapers : scPc[s] # "idle" /\ scPc[u] # "idle" /\ s # u
                                   => scMsg[s].id # scMsg[u].id
  BY DEF IInv, Shapes, JobOK, QueueOK, Busy, IdsOf
<1>2. /\ \A p \in IdsOf(resWaiting) : p \in resPublished
      /\ \A p \in IdsOf(resWaiting), t \in Transformers : trPc[t] # "idle" => p # trMsg[t].id
      /\ \A t, v \in Transformers : trPc[t] # "idle" /\ trPc[v] # "idle" /\ t # v
                                   => trMsg[t].id # trMsg[v].id
  BY DEF IInv, Shapes, ResOK, QueueOK, BusyT, IdsOf
<1> QED
  BY <1>1, <1>2

(* A transform is alone with its job.                                      *)
LEMMA AloneWithJob ==
    ASSUME IInv, OnePointer, NEW t \in Transformers, trPc[t] # "idle"
    PROVE  /\ \A v \in Transformers : trPc[v] # "idle" /\ v # t => JobOf(v) # JobOf(t)
           /\ \A p \in IdsOf(resWaiting) : p.job # JobOf(t)
<1>1. \A v \in Transformers : trPc[v] # "idle" => trMsg[v].id \in resPublished
  BY PointerHeld DEF IInv, Shapes
<1>2. \A v \in Transformers : trPc[v] # "idle" /\ v # t => trMsg[v].id # trMsg[t].id
  BY WaitingApart
<1>3. \A p \in IdsOf(resWaiting) : p # trMsg[t].id /\ p \in resPublished
  BY WaitingApart
<1> QED
  BY <1>1, <1>2, <1>3 DEF OnePointer, JobOf

LEMMA SubmitOrders ==
    ASSUME IInv, Orderly, NEW j \in Jobs, Submit(j) PROVE Orderly'
<1> USE DEF stores, scraperVars, transformerVars, history, jobQueue, resQueue
<1>1. CASE CreateJob(j)
  <2>1. /\ row' = [row EXCEPT ![j] = [status |-> "queued", count |-> 0, error |-> FALSE]]
        /\ submission[j] = "none" /\ submission' = [submission EXCEPT ![j] = "created"]
        /\ UNCHANGED <<jobQueue, resQueue, object, article, scraperVars, transformerVars, history>>
    BY <1>1 DEF CreateJob
  <2>2. /\ submission'[j] = "created" /\ row'[j].status = "queued" /\ row[j] = None
        /\ \A i \in Jobs \ {j} : submission'[i] = submission[i] /\ row'[i] = row[i]
    BY <2>1 DEF Orderly, IInv, Shapes, TypeOK
  <2>3. \A p \in resPublished : p.job \in Jobs \ {j}
    BY <2>2 DEF IInv, Shapes, ResOK, QueueOK, Pointer, Claims, PointerResolves
  <2>4. \A t \in Transformers : trPc[t] # "idle" => JobOf(t) \in Jobs \ {j}
    BY <2>3, PointerHeld DEF IInv, Shapes, JobOf
  <2>5. OnePointer => OnePointer'
    BY <2>1 DEF OnePointer
  <2>6. Statuses => Statuses'
    <3>1. (\A t \in Transformers : StatusOf(t)) => \A t \in Transformers : StatusOf(t)'
      BY <2>1, <2>2, <2>4 DEF StatusOf, JobOf
    <3>2. (\A p \in IdsOf(resWaiting) : row[p.job].status = "queued")
             => \A p \in IdsOf(resWaiting) : row'[p.job].status = "queued"
      BY <2>2, <2>3, WaitingApart
    <3> QED
      BY <2>1, <2>2, <3>1, <3>2 DEF Statuses
  <2> QED
    BY <2>1, <2>2, <2>5, <2>6 DEF Orderly
<1>2. CASE PublishJob(j)
  <2>1. /\ submission[j] = "created" /\ submission' = [submission EXCEPT ![j] = "published"]
        /\ j \notin jobPublished /\ jobPublished' = jobPublished \union {j}
        /\ jobWaiting' = Append(jobWaiting, [id |-> j, attempts |-> 0])
        /\ UNCHANGED <<resQueue, stores, scraperVars, transformerVars, history>>
    BY <1>2 DEF PublishJob, JobQ!Publish
  <2>2. IdsOf(jobWaiting)' = IdsOf(jobWaiting) \union {j}
    <3>1. [id |-> j, attempts |-> 0] \in Messages(Jobs) /\ jobWaiting \in Seq(Messages(Jobs))
      BY DEF Messages, IInv, Shapes, JobOK, QueueOK
    <3> QED
      BY <2>1, <3>1, IdsAppended
  <2>3. \A i \in Jobs : submission'[i] = "none" => submission[i] = "none"
    BY <2>1 DEF IInv, Shapes, TypeOK
  <2>4. OnePointer => OnePointer'
    BY <2>1, <2>2 DEF OnePointer
  <2>5. Statuses => Statuses'
    BY <2>1 DEF Statuses, StatusOf, JobOf
  <2> QED
    BY <2>1, <2>3, <2>4, <2>5 DEF Orderly
<1>3. CASE PublishJobFails(j)
  <2>1. /\ submission' = [submission EXCEPT ![j] = "failed"] /\ faults' = faults + 1 /\ row' = row
    BY <1>3 DEF PublishJobFails
  <2>2. \A i \in Jobs : submission'[i] = "none" => submission[i] = "none"
    BY <2>1 DEF IInv, Shapes, TypeOK
  <2> QED
    BY <2>1, <2>2 DEF Orderly
<1> QED
  BY <1>1, <1>2, <1>3 DEF Submit

LEMMA ScraperOrders ==
    ASSUME IInv, Orderly, NEW s \in Scrapers, ScraperStep(s) \/ ScraperRaises(s) \/ ScraperDies(s)
    PROVE  Orderly'
<1> USE DEF stores, transformerVars, history, resQueue
<1>1. jobWaiting \in Seq(Messages(Jobs)) /\ resWaiting \in Seq(Messages(Pointer))
  BY DEF IInv, Shapes, JobOK, ResOK, QueueOK
<1>2. DOMAIN scPc = Scrapers /\ DOMAIN scMsg = Scrapers
  BY DEF IInv, Shapes, TypeOK
<1>3. ASSUME UNCHANGED <<submission, row, resPublished, resWaiting, trPc, trMsg, trRow>>
      PROVE  Statuses => Statuses'
  BY <1>3 DEF Statuses, StatusOf, JobOf
<1>4. CASE TakeJob(s)
  <2>1. scMsg' = [scMsg EXCEPT ![s] = scMsg'[s]] /\ scMsg'[s].id = Head(jobWaiting).id
    BY <1>2, <1>4, ScraperTakes DEF IInv, Shapes
  <2>2. /\ scPc' = [scPc EXCEPT ![s] = "fetch"] /\ jobPublished' = jobPublished
        /\ jobWaiting # <<>> /\ jobWaiting' = Tail(jobWaiting)
        /\ UNCHANGED <<resQueue, submission, stores, transformerVars, history>>
    BY <1>4 DEF TakeJob, JobQ!Reserve
  <2>3. \A u \in Scrapers \ {s} : scPc'[u] = scPc[u] /\ scMsg'[u] = scMsg[u]
    BY <1>2, <2>1, <2>2
  <2>4. Head(jobWaiting).id \in IdsOf(jobWaiting) /\ \A i \in IdsOf(jobWaiting)' : i \in IdsOf(jobWaiting)
    BY <1>1, <2>2, Beheaded DEF IdsOf
  <2>5. OnePointer => OnePointer'
    BY <2>1, <2>2, <2>3, <2>4 DEF OnePointer
  <2> QED
    BY <1>3, <2>2, <2>5 DEF Orderly
<1>5. CASE Fetch(s) \/ PutRaw(s)
  <2>1. /\ scPc[s] \in {"fetch", "put"} /\ scMsg' = scMsg
        /\ \E to \in {"put", "publish"} : scPc' = [scPc EXCEPT ![s] = to]
        /\ UNCHANGED <<jobQueue, resQueue, submission, row, transformerVars, faults>>
    BY <1>5 DEF Fetch, PutRaw
  <2>2. \A u \in Scrapers : scPc'[u] \in Scraping => scPc[u] \in Scraping
    BY <1>2, <2>1 DEF Scraping
  <2>3. OnePointer => OnePointer'
    BY <2>1, <2>2 DEF OnePointer, jobQueue
  <2> QED
    BY <1>3, <2>1, <2>3 DEF Orderly
<1>6. CASE PublishPointer(s)
  <2> DEFINE p == PointerOf(s)
  <2>1. /\ scPc[s] = "publish" /\ scPc' = [scPc EXCEPT ![s] = "ack"]
        /\ p \in Pointer /\ resPublished' = resPublished \union {p}
        /\ resWaiting' = Append(resWaiting, [id |-> p, attempts |-> 0])
        /\ UNCHANGED <<jobQueue, submission, stores, scMsg, transformerVars, history>>
    BY <1>6 DEF PublishPointer, ResQ!Publish
  <2>2. p.job = scMsg[s].id
    BY DEF PointerOf
  <2> HIDE DEF p
  <2>3. IdsOf(resWaiting)' = IdsOf(resWaiting) \union {p}
    <3>1. [id |-> p, attempts |-> 0] \in Messages(Pointer)
      BY <2>1 DEF Messages
    <3> QED
      BY <1>1, <2>1, <3>1, IdsAppended
  <2>4. /\ scMsg[s].id \in jobPublished /\ scMsg[s].id \in Jobs /\ row[scMsg[s].id] # None
        /\ \A i \in IdsOf(jobWaiting) : i # scMsg[s].id
        /\ \A u \in Scrapers \ {s} : scPc[u] \in Scraping => scMsg[u].id # scMsg[s].id
    BY <2>1, JobHeld, WaitingApart DEF IInv, Shapes, Claims, Rows, Scraping
  <2>5. \A u \in Scrapers : scPc'[u] \in Scraping => u # s /\ scPc[u] \in Scraping
    BY <1>2, <2>1 DEF Scraping
  <2>6. OnePointer => \A q \in resPublished : q.job # scMsg[s].id
    BY <2>1 DEF OnePointer, Scraping
  <2>7. OnePointer => OnePointer'
    <3>1. ASSUME OnePointer PROVE \A q \in resPublished' : q.job \in jobPublished
      BY <2>1, <2>2, <2>4, <3>1 DEF OnePointer
    <3>2. ASSUME OnePointer PROVE \A q \in resPublished', i \in IdsOf(jobWaiting) : q.job # i
      BY <2>1, <2>2, <2>4, <3>2 DEF OnePointer
    <3>3. ASSUME OnePointer
          PROVE  \A q \in resPublished', u \in Scrapers : scPc'[u] \in Scraping => q.job # scMsg[u].id
      BY <2>1, <2>2, <2>4, <2>5, <3>3 DEF OnePointer
    <3>4. ASSUME OnePointer PROVE \A q, r \in resPublished' : q.job = r.job => q = r
      BY <2>1, <2>2, <2>6, <3>4 DEF OnePointer
    <3> QED
      BY <2>1, <3>1, <3>2, <3>3, <3>4 DEF OnePointer, jobQueue
  <2>8. OnePointer /\ Statuses => Statuses'
    <3>1. ASSUME OnePointer, Statuses PROVE row[p.job].status = "queued"
      BY <2>2, <2>4, <2>6, <3>1 DEF Statuses
    <3>2. Statuses => \A t \in Transformers : StatusOf(t)'
      BY <2>1 DEF Statuses, StatusOf, JobOf
    <3> QED
      BY <2>1, <2>3, <3>1, <3>2 DEF Statuses
  <2> QED
    BY <2>1, <2>7, <2>8 DEF Orderly
<1>7. CASE AckJob(s) \/ ScraperDies(s)
  <2>1. /\ ScraperIdle(s) /\ jobPublished' = jobPublished /\ jobWaiting' = jobWaiting
        /\ UNCHANGED <<resQueue, submission, stores, transformerVars, faults>>
    BY <1>7 DEF AckJob, ScraperDies, JobQ!Ack, JobQ!Abandon
  <2>2. /\ \A u \in Scrapers \ {s} : scPc'[u] = scPc[u] /\ scMsg'[u] = scMsg[u]
        /\ scPc'[s] \notin Scraping
    BY <1>2, <2>1 DEF ScraperIdle, Scraping
  <2>3. OnePointer => OnePointer'
    BY <2>1, <2>2 DEF OnePointer
  <2> QED
    BY <1>3, <2>1, <2>3 DEF Orderly
<1>8. CASE ScraperRaises(s)
  BY <1>8 DEF ScraperRaises, Orderly
<1> QED
  BY <1>4, <1>5, <1>6, <1>7, <1>8 DEF ScraperStep

(* A step of a transform that changes no row.                              *)
LEMMA StatusesStay ==
    ASSUME IInv, Statuses, NEW t \in Transformers,
           UNCHANGED <<submission, row, resPublished>>,
           \A p \in IdsOf(resWaiting)' : p \in IdsOf(resWaiting),
           \A v \in Transformers \ {t} : trPc'[v] = trPc[v] /\ trMsg'[v] = trMsg[v] /\ trRow'[v] = trRow[v],
           StatusOf(t)'
    PROVE  Statuses'
<1>1. \A v \in Transformers : StatusOf(v)'
  BY DEF Statuses, StatusOf, JobOf
<1> QED
  BY <1>1 DEF Statuses

(* A commit while nothing has failed: the status moves on, and the worker  *)
(* goes where the new status is the right one.                             *)
LEMMA CommitOrders ==
    ASSUME IInv, OnePointer, Statuses, NEW t \in Transformers, NEW values, Commit(t, values),
           NEW to \in {"read", "error_get", "ack"}, trPc' = [trPc EXCEPT ![t] = to],
           \/ trPc[t] = "running_commit" /\ values = [status |-> "running"]
           \/ trPc[t] = "done_commit" /\ values = [status |-> "done", count |-> 1] /\ to = "ack"
           \/ /\ trPc[t] = "error_commit" /\ to = "ack"
              /\ values = [status |-> "error", count |-> 0, error |-> TRUE]
    PROVE  /\ Statuses'
           /\ \A j \in Jobs : row[j] # None /\ row'[j].status # row[j].status =>
                 <<row[j].status, row'[j].status>> \in Flow
<1>1. /\ \A j \in Jobs : j # JobOf(t) => row'[j] = row[j]
      /\ row[JobOf(t)] \in Row /\ row'[JobOf(t)] \in Row
      /\ row'[JobOf(t)].status =
            IF values.status # trRow[t].status THEN values.status ELSE row[JobOf(t)].status
  BY CommitRow
<1>2. /\ trRow' = [trRow EXCEPT ![t] = None]
      /\ UNCHANGED <<jobQueue, resQueue, submission, trMsg, scraperVars, history>>
  BY DEF Commit
<1>3. /\ trPc'[t] = to /\ JobOf(t)' = JobOf(t)
      /\ \A v \in Transformers \ {t} :
            trPc'[v] = trPc[v] /\ trRow'[v] = trRow[v] /\ JobOf(v)' = JobOf(v)
  BY <1>2 DEF JobOf, IInv, Shapes, TypeOK
<1>4. StatusOf(t)
  BY DEF Statuses
<1>5. /\ row'[JobOf(t)].status = values.status
      /\ <<row[JobOf(t)].status, values.status>> \in Flow
  BY <1>1, <1>4 DEF StatusOf, Flow
<1>6. StatusOf(t)'
  BY <1>3, <1>5 DEF StatusOf
<1>7. ASSUME NEW v \in Transformers \ {t} PROVE StatusOf(v)'
  <2>1. trPc[v] # "idle" => row'[JobOf(v)] = row[JobOf(v)]
    BY <1>1, AloneWithJob, PointerHeld DEF IInv, Shapes
  <2>2. StatusOf(v)
    BY DEF Statuses
  <2> QED
    BY <1>3, <2>1, <2>2 DEF StatusOf
<1>8. \A p \in IdsOf(resWaiting) : row'[p.job].status = "queued"
  <2>1. \A p \in IdsOf(resWaiting) : p.job \in Jobs
    BY WaitingApart DEF IInv, Shapes, ResOK, QueueOK, Pointer
  <2> QED
    BY <1>1, <2>1, AloneWithJob DEF Statuses
<1>9. ASSUME NEW j \in Jobs, row'[j] # None, \A p \in resPublished : p.job # j
      PROVE  row'[j].status = "queued"
  <2>1. j # JobOf(t)
    BY <1>9, PointerHeld DEF JobOf, IInv, Shapes
  <2> QED
    BY <1>1, <1>9, <2>1 DEF Statuses
<1>10. Statuses'
  <2>1. \A v \in Transformers : StatusOf(v)'
    BY <1>6, <1>7
  <2>2. resPublished' = resPublished /\ resWaiting' = resWaiting
    BY <1>2 DEF resQueue
  <2> QED
    BY <1>8, <1>9, <2>1, <2>2 DEF Statuses
<1> QED
  BY <1>1, <1>5, <1>10

LEMMA TransformerOrders ==
    ASSUME IInv, Orderly, NEW t \in Transformers,
           TransformStep(t) \/ TransformerRaises(t) \/ TransformerDies(t)
    PROVE  Orderly'
<1> USE DEF stores, scraperVars, history, jobQueue
<1>1. resWaiting \in Seq(Messages(Pointer))
  BY DEF IInv, Shapes, ResOK, QueueOK
<1>2. /\ DOMAIN trPc = Transformers /\ DOMAIN trMsg = Transformers /\ DOMAIN trRow = Transformers
      /\ Statuses => StatusOf(t)
  BY DEF IInv, Shapes, TypeOK, Statuses
<1>3. ASSUME UNCHANGED <<jobQueue, resPublished, scraperVars>> PROVE OnePointer => OnePointer'
  BY <1>3 DEF OnePointer
<1>4. CASE TakePointer(t)
  <2>1. trMsg' = [trMsg EXCEPT ![t] = trMsg'[t]] /\ trMsg'[t].id = Head(resWaiting).id
    BY <1>2, <1>4, TransformerTakes DEF IInv, Shapes
  <2>2. /\ trPc' = [trPc EXCEPT ![t] = "running_get"] /\ trRow' = trRow
        /\ resPublished' = resPublished /\ resWaiting # <<>> /\ resWaiting' = Tail(resWaiting)
        /\ UNCHANGED <<jobQueue, submission, stores, scraperVars, history>>
    BY <1>4 DEF TakePointer, ResQ!Reserve
  <2>3. Head(resWaiting).id \in IdsOf(resWaiting) /\ \A p \in IdsOf(resWaiting)' : p \in IdsOf(resWaiting)
    BY <1>1, <2>2, Beheaded DEF IdsOf
  <2>4. ASSUME Statuses PROVE Statuses'
    <3>1. \A v \in Transformers \ {t} : trPc'[v] = trPc[v] /\ trMsg'[v] = trMsg[v] /\ trRow'[v] = trRow[v]
      BY <1>2, <2>1, <2>2
    <3>2. trPc'[t] = "running_get" /\ row'[trMsg'[t].id.job].status = "queued"
      BY <1>2, <2>1, <2>2, <2>3, <2>4 DEF Statuses
    <3>3. StatusOf(t)'
      BY <3>2 DEF StatusOf, JobOf
    <3> QED
      BY <2>2, <2>3, <2>4, <3>1, <3>3, StatusesStay
  <2> QED
    BY <1>3, <2>2, <2>4 DEF Orderly
<1>5. CASE GetForRunning(t) \/ GetForDone(t) \/ GetForError(t)
  <2>1. /\ trRow' = [trRow EXCEPT ![t] = row[JobOf(t)]]
        /\ \/ trPc[t] = "running_get" /\ trPc' = [trPc EXCEPT ![t] = "running_commit"]
           \/ trPc[t] = "done_get" /\ trPc' = [trPc EXCEPT ![t] = "done_commit"]
           \/ trPc[t] = "error_get" /\ trPc' = [trPc EXCEPT ![t] = "error_commit"]
        /\ UNCHANGED <<jobQueue, resQueue, submission, stores, trMsg, scraperVars, history>>
    BY <1>5 DEF GetForRunning, GetForDone, GetForError, GetRow
  <2>2. ASSUME Statuses PROVE StatusOf(t)'
    BY <1>2, <2>1, <2>2 DEF StatusOf, JobOf
  <2>3. Statuses => Statuses'
    BY <1>2, <2>1, <2>2, StatusesStay DEF resQueue
  <2> QED
    BY <1>3, <2>1, <2>3 DEF Orderly, resQueue
<1>6. CASE MarkRunning(t) \/ MarkDone(t) \/ MarkError(t)
  <2>1. UNCHANGED <<jobQueue, resQueue, submission, scraperVars, history>>
    BY <1>6 DEF MarkRunning, MarkDone, MarkError, Commit
  <2>2. OnePointer /\ Statuses => Statuses'
    BY <1>6, CommitOrders DEF MarkRunning, MarkDone, MarkError
  <2>3. \A j \in Jobs : submission[j] = "none" => row'[j] = row[j]
    <3>1. trPc[t] # "idle" /\ \A j \in Jobs : j # JobOf(t) => row'[j] = row[j]
      BY <1>6, CommitRow DEF MarkRunning, MarkDone, MarkError
    <3>2. row[JobOf(t)] # None
      BY <3>1, PointerHeld DEF IInv, Shapes, Claims, PointerResolves, JobOf
    <3> QED
      BY <3>1, <3>2 DEF Orderly
  <2> QED
    BY <1>3, <2>1, <2>2, <2>3 DEF Orderly, resQueue
<1>7. CASE ReadRaw(t) \/ WriteArticle(t)
  <2>1. /\ trPc[t] \in {"read", "write"} /\ trMsg' = trMsg /\ trRow' = trRow
        /\ \E to \in {"write", "error_get", "done_get"} : trPc' = [trPc EXCEPT ![t] = to]
        /\ UNCHANGED <<jobQueue, resQueue, submission, row, scraperVars, history>>
    BY <1>7 DEF ReadRaw, WriteArticle
  <2>2. Statuses => StatusOf(t)'
    BY <1>2, <2>1 DEF StatusOf, JobOf
  <2>3. Statuses => Statuses'
    BY <1>2, <2>1, <2>2, StatusesStay DEF resQueue
  <2> QED
    BY <1>3, <2>1, <2>3 DEF Orderly, resQueue
<1>8. CASE AckPointer(t) \/ TransformerDies(t)
  <2>1. /\ TransformerIdle(t) /\ resPublished' = resPublished /\ resWaiting' = resWaiting
        /\ UNCHANGED <<jobQueue, submission, stores, scraperVars, faults>>
    BY <1>8 DEF AckPointer, TransformerDies, ResQ!Ack, ResQ!Abandon
  <2>2. StatusOf(t)'
    BY <1>2, <2>1 DEF TransformerIdle, StatusOf
  <2>3. Statuses => Statuses'
    <3>1. \A v \in Transformers \ {t} : trPc'[v] = trPc[v] /\ trMsg'[v] = trMsg[v] /\ trRow'[v] = trRow[v]
      BY <1>2, <2>1 DEF TransformerIdle
    <3> QED
      BY <2>1, <2>2, <3>1, StatusesStay
  <2> QED
    BY <1>3, <2>1, <2>3 DEF Orderly
<1>9. CASE TransformerRaises(t)
  BY <1>9 DEF TransformerRaises, Orderly
<1> QED
  BY <1>4, <1>5, <1>6, <1>7, <1>8, <1>9 DEF TransformStep

LEMMA OrderlyHolds == Spec => []Orderly
<1>1. Init => Orderly
  <2>1. Init => OnePointer /\ Statuses
    BY EmptySeq DEF Init, JobQ!QueueInit, ResQ!QueueInit, OnePointer, Statuses, StatusOf, IdsOf
  <2> QED
    BY <2>1 DEF Init, Orderly
<1>2. IInv /\ Orderly /\ [Next]_vars => Orderly'
  <2>1. IInv /\ Orderly /\ Next => Orderly'
    BY SubmitOrders, ScraperOrders, TransformerOrders DEF Next
  <2>2. ASSUME Orderly, UNCHANGED vars PROVE Orderly'
    BY <2>2 DEF vars, Orderly, OnePointer, Statuses, StatusOf, JobOf, jobQueue, resQueue,
                stores, scraperVars, transformerVars, history
  <2> QED
    BY <2>1, <2>2
<1> QED
  BY <1>1, <1>2, IInvHolds, PTL DEF Spec

(* While no call has failed a job goes queued, running, done or error, and *)
(* stops there, however the workers interleave and whichever die.          *)
THEOREM FlowHolds == Spec => FlowWithoutFailures
<1>1. IInv /\ Orderly /\ [Next]_vars => [FlowStep]_vars
  <2>1. ASSUME IInv, Orderly, Next, faults = 0 PROVE FlowStep
    <3>1. ASSUME NEW j \in Jobs, Submit(j) PROVE FlowStep
      <4>1. \A i \in Jobs : row[i] # None => row'[i] = row[i]
        BY <2>1, <3>1 DEF Submit, CreateJob, PublishJob, PublishJobFails, stores,
                          Orderly, IInv, Shapes, TypeOK
      <4> QED
        BY <4>1 DEF FlowStep
    <3>2. ASSUME NEW s \in Scrapers, ScraperStep(s) \/ ScraperRaises(s) \/ ScraperDies(s)
          PROVE  FlowStep
      <4>1. row' = row
        BY <3>2 DEF ScraperStep, ScraperRaises, ScraperDies, TakeJob, Fetch, PutRaw,
                    PublishPointer, AckJob, stores
      <4> QED
        BY <4>1 DEF FlowStep
    <3>3. ASSUME NEW t \in Transformers,
                 TransformStep(t) \/ TransformerRaises(t) \/ TransformerDies(t)
          PROVE  FlowStep
      <4>1. CASE MarkRunning(t) \/ MarkDone(t) \/ MarkError(t)
        BY <2>1, <4>1, CommitOrders DEF MarkRunning, MarkDone, MarkError, Orderly, FlowStep
      <4>2. CASE ~(MarkRunning(t) \/ MarkDone(t) \/ MarkError(t))
        <5>1. row' = row
          BY <3>3, <4>2 DEF TransformStep, TransformerRaises, TransformerDies, TakePointer,
                            GetForRunning, GetForDone, GetForError, GetRow, ReadRaw,
                            WriteArticle, AckPointer, stores
        <5> QED
          BY <5>1 DEF FlowStep
      <4> QED
        BY <4>1, <4>2
    <3> QED
      BY <2>1, <3>1, <3>2, <3>3 DEF Next
  <2>2. ASSUME Orderly, faults # 0 PROVE FlowStep
    <3>1. faults > 0
      BY <2>2 DEF Orderly
    <3> QED
      BY <3>1 DEF FlowStep
  <2> QED
    BY <2>1, <2>2
<1> QED
  BY <1>1, IInvHolds, OrderlyHolds, PTL DEF Spec, FlowWithoutFailures
=============================================================================
