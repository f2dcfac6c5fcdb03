----------------------------- MODULE RedisQueue -----------------------------
(***************************************************************************)
(* core/queue/redis_queue.py driven by MessageQueue.consume_once, with     *)
(* several worker processes competing for one queue.                       *)
(*                                                                         *)
(* Redis keeps <q>, <q>:processing and <q>:dlq.  A Redis command is one    *)
(* step; requeue and dead_letter are two commands (LREM, then RPUSH) and   *)
(* so two steps.  A worker process keeps, in memory only, the message it   *)
(* delivered (attempts already incremented) and, in self._inflight, the    *)
(* raw bytes LMOVE moved (attempts not incremented).                       *)
(*                                                                         *)
(* A worker dies at any point: a crash, a signal, or a QueueError raised   *)
(* by reserve, ack, requeue or dead_letter, which consume_once, the drain  *)
(* loop and the run_* entry points all let through to the end of the       *)
(* process.  A command that failed before or after Redis applied it is     *)
(* therefore a death before or after the step of that command.  Compose    *)
(* restarts the process with an empty memory.                              *)
(***************************************************************************)
EXTENDS Naturals, SequencesExt

CONSTANTS Ids,         \* message ids (uuid4) that publishers may issue
          Workers,     \* worker processes consuming this queue
          MaxRetries,  \* settings.QUEUE_MAX_RETRIES
          MaxDeaths,   \* bound: worker deaths in one behaviour
          None         \* no message held

ASSUME RetriesAssumption == MaxRetries \in Nat
ASSUME DeathsAssumption == MaxDeaths \in Nat

\* A list entry: the JSON document, reduced to what the code reads of it.
Entry == [id : Ids, attempts : Nat]

ASSUME NoneAssumption == None \notin Entry

VARIABLES
    \* Redis
    waiting,      \* <q>, left to right
    processing,   \* <q>:processing; a set: the order is never read
    dlq,          \* <q>:dlq
    \* each worker process
    pc,           \* where consume_once stands
    msg,          \* the delivered Message, or None
    raw,          \* self._inflight[msg.id], or None
    \* history, read by no guard of the code
    published,    \* ids issued
    acked,        \* ids acknowledged
    deliveries,   \* how many times each id was handed to a handler
    deaths        \* worker deaths so far

redisVars   == <<waiting, processing, dlq>>
workerVars  == <<pc, msg, raw>>
historyVars == <<published, acked, deliveries, deaths>>
vars == <<redisVars, workerVars, historyVars>>

Located == {"handling", "ack", "requeue_lrem", "dlq_lrem"}
Removed == {"requeue_rpush", "dlq_rpush"}
Holding == Located \union Removed

Delivered(e) == [e EXCEPT !.attempts = @ + 1]

Init ==
    /\ waiting = <<>> /\ processing = {} /\ dlq = <<>>
    /\ pc = [w \in Workers |-> "idle"]
    /\ msg = [w \in Workers |-> None]
    /\ raw = [w \in Workers |-> None]
    /\ published = {} /\ acked = {} /\ deaths = 0
    /\ deliveries = [i \in Ids |-> 0]

-----------------------------------------------------------------------------
(* Producers: RPUSH of a message with a fresh id and attempts 0.           *)
Publish(i) ==
    /\ i \in Ids \ published
    /\ waiting' = Append(waiting, [id |-> i, attempts |-> 0])
    /\ published' = published \union {i}
    /\ UNCHANGED <<processing, dlq, workerVars, acked, deliveries, deaths>>

-----------------------------------------------------------------------------
(* Seeded defect: RPOPLPUSH-free reserve, a plain LPOP of the list.        *)
ReserveByPop(w) ==
    /\ pc[w] = "idle" /\ waiting # <<>>
    /\ waiting' = Tail(waiting)
    /\ msg' = [msg EXCEPT ![w] = Delivered(Head(waiting))]
    /\ raw' = [raw EXCEPT ![w] = Head(waiting)]
    /\ pc' = [pc EXCEPT ![w] = "handling"]
    /\ deliveries' = [deliveries EXCEPT ![Head(waiting).id] = @ + 1]
    /\ UNCHANGED <<processing, dlq, published, acked, deaths>>

(* Seeded defect: _inflight keeps the re-encoded message, not the bytes.   *)
ReserveReencoded(w) ==
    /\ pc[w] = "idle" /\ waiting # <<>>
    /\ waiting' = Tail(waiting)
    /\ processing' = processing \union {Head(waiting)}
    /\ msg' = [msg EXCEPT ![w] = Delivered(Head(waiting))]
    /\ raw' = [raw EXCEPT ![w] = Delivered(Head(waiting))]
    /\ pc' = [pc EXCEPT ![w] = "handling"]
    /\ deliveries' = [deliveries EXCEPT ![Head(waiting).id] = @ + 1]
    /\ UNCHANGED <<dlq, published, acked, deaths>>

(* LMOVE <q> <q>:processing LEFT RIGHT.  The handler is called at once, so *)
(* a delivery is counted here.  An empty queue makes reserve return None   *)
(* and the worker sleep: no change of state.                               *)
Reserve(w) ==
    /\ pc[w] = "idle" /\ waiting # <<>>
    /\ waiting' = Tail(waiting)
    /\ processing' = processing \union {Head(waiting)}
    /\ msg' = [msg EXCEPT ![w] = Delivered(Head(waiting))]
    /\ raw' = [raw EXCEPT ![w] = Head(waiting)]
    /\ pc' = [pc EXCEPT ![w] = "handling"]
    /\ deliveries' = [deliveries EXCEPT ![Head(waiting).id] = @ + 1]
    /\ UNCHANGED <<dlq, published, acked, deaths>>

HandlerReturns(w) ==
    /\ pc[w] = "handling"
    /\ pc' = [pc EXCEPT ![w] = "ack"]
    /\ UNCHANGED <<redisVars, msg, raw, historyVars>>

(* Seeded defect: the comparison is off by one.                            *)
HandlerRaisesLate(w) ==
    /\ pc[w] = "handling"
    /\ pc' = [pc EXCEPT ![w] = IF msg[w].attempts > MaxRetries + 1
                               THEN "dlq_lrem" ELSE "requeue_lrem"]
    /\ UNCHANGED <<redisVars, msg, raw, historyVars>>

HandlerRaises(w) ==
    /\ pc[w] = "handling"
    /\ pc' = [pc EXCEPT ![w] = IF msg[w].attempts > MaxRetries
                               THEN "dlq_lrem" ELSE "requeue_lrem"]
    /\ UNCHANGED <<redisVars, msg, raw, historyVars>>

-----------------------------------------------------------------------------
\* LREM <q>:processing 1 <raw>, with self._inflight.pop for the raw bytes.
Lrem(w) ==
    /\ processing' = processing \ {raw[w]}
    /\ raw' = [raw EXCEPT ![w] = None]

\* The settling call returned: consume_once returns True, the loop goes on.
Settled(w) ==
    /\ pc' = [pc EXCEPT ![w] = "idle"]
    /\ msg' = [msg EXCEPT ![w] = None]

Ack(w) ==
    /\ pc[w] = "ack"
    /\ Lrem(w)
    /\ Settled(w)
    /\ acked' = acked \union {msg[w].id}
    /\ UNCHANGED <<waiting, dlq, published, deliveries, deaths>>

RequeueLrem(w) ==
    /\ pc[w] = "requeue_lrem"
    /\ Lrem(w)
    /\ pc' = [pc EXCEPT ![w] = "requeue_rpush"]
    /\ UNCHANGED <<waiting, dlq, msg, historyVars>>

(* Seeded defect: the stored bytes go back, without the new attempt.       *)
RequeueStale(w) ==
    /\ pc[w] = "requeue_rpush"
    /\ waiting' = Append(waiting, [msg[w] EXCEPT !.attempts = @ - 1])
    /\ Settled(w)
    /\ UNCHANGED <<processing, dlq, raw, historyVars>>

(* Seeded defect: LPUSH, which puts the message before all the others.     *)
RequeueAtHead(w) ==
    /\ pc[w] = "requeue_rpush"
    /\ waiting' = <<msg[w]>> \o waiting
    /\ Settled(w)
    /\ UNCHANGED <<processing, dlq, raw, historyVars>>

RequeueRpush(w) ==
    /\ pc[w] = "requeue_rpush"
    /\ waiting' = Append(waiting, msg[w])
    /\ Settled(w)
    /\ UNCHANGED <<processing, dlq, raw, historyVars>>

(* Seeded defect: the entry is left in :processing.                        *)
DeadLetterNoLrem(w) ==
    /\ pc[w] = "dlq_lrem"
    /\ raw' = [raw EXCEPT ![w] = None]
    /\ pc' = [pc EXCEPT ![w] = "dlq_rpush"]
    /\ UNCHANGED <<redisVars, msg, historyVars>>

DeadLetterLrem(w) ==
    /\ pc[w] = "dlq_lrem"
    /\ Lrem(w)
    /\ pc' = [pc EXCEPT ![w] = "dlq_rpush"]
    /\ UNCHANGED <<waiting, dlq, msg, historyVars>>

(* Seeded defect: the entry pushed is the id, without payload or attempts. *)
DeadLetterId(w) ==
    /\ pc[w] = "dlq_rpush"
    /\ dlq' = Append(dlq, msg[w].id)
    /\ Settled(w)
    /\ UNCHANGED <<waiting, processing, raw, historyVars>>

DeadLetterRpush(w) ==
    /\ pc[w] = "dlq_rpush"
    /\ dlq' = Append(dlq, msg[w])
    /\ Settled(w)
    /\ UNCHANGED <<waiting, processing, raw, historyVars>>

-----------------------------------------------------------------------------
Die(w) ==
    /\ pc[w] # "down" /\ deaths < MaxDeaths
    /\ pc' = [pc EXCEPT ![w] = "down"]
    /\ msg' = [msg EXCEPT ![w] = None]
    /\ raw' = [raw EXCEPT ![w] = None]
    /\ deaths' = deaths + 1
    /\ UNCHANGED <<redisVars, published, acked, deliveries>>

(* Seeded defect: no restart policy.                                       *)
NoRestart(w) == FALSE /\ UNCHANGED vars

Restart(w) ==
    /\ pc[w] = "down"
    /\ pc' = [pc EXCEPT ![w] = "idle"]
    /\ UNCHANGED <<redisVars, msg, raw, historyVars>>

-----------------------------------------------------------------------------
ConsumeOnce(w) ==
    \/ Reserve(w) \/ HandlerReturns(w) \/ HandlerRaises(w) \/ Ack(w)
    \/ RequeueLrem(w) \/ RequeueRpush(w) \/ DeadLetterLrem(w) \/ DeadLetterRpush(w)

Next ==
    \/ \E i \in Ids : Publish(i)
    \/ \E w \in Workers : ConsumeOnce(w) \/ Die(w) \/ Restart(w)

Spec == Init /\ [][Next]_vars

\* A live worker goes on with its loop (handlers have timeouts, so each
\* returns or raises) and Docker restarts a dead one.  Strong fairness on
\* Reserve is not needed: whichever worker reserves, the list gets shorter.
Fairness == \A w \in Workers : WF_vars(ConsumeOnce(w)) /\ WF_vars(Restart(w))

FairSpec == Spec /\ Fairness

-----------------------------------------------------------------------------
IdsIn(entries) == {e.id : e \in entries}
WaitingIds     == IdsIn(ToSet(waiting))
DlqIds         == IdsIn(ToSet(dlq))
ProcessingIds  == IdsIn(processing)
HeldIds        == {msg[w].id : w \in {v \in Workers : pc[v] \in Holding}}

\* In :processing with no live worker that reserved it: stays there for ever.
Stranded(i) == i \in ProcessingIds \ HeldIds
\* Neither in Redis nor in a live process.
Lost(i) ==
    i \in published \ (WaitingIds \union ProcessingIds \union DlqIds
                       \union HeldIds \union acked)

-----------------------------------------------------------------------------
(* Every variable has its type, and a worker holds a message exactly while *)
(* consume_once is between reserve and the return of the settling call.    *)
TypeOK ==
    /\ waiting \in Seq(Entry)
    /\ processing \in SUBSET Entry
    /\ dlq \in Seq(Entry)
    /\ pc \in [Workers -> {"down", "idle"} \union Holding]
    /\ msg \in [Workers -> Entry \union {None}]
    /\ raw \in [Workers -> Entry \union {None}]
    /\ published \in SUBSET Ids
    /\ acked \in SUBSET published
    /\ deliveries \in [Ids -> Nat]
    /\ deaths \in 0..MaxDeaths
    /\ \A w \in Workers : msg[w] # None <=> pc[w] \in Holding

(* An id is in one place at most: no message waits twice, two competing    *)
(* workers never hold the same one, and none waits, or is dead-lettered or *)
(* acknowledged, while a copy of it is in :processing or in a worker.      *)
DistinctIds(s) == \A j, k \in 1..Len(s) : s[j].id = s[k].id => j = k

OneCopy ==
    /\ DistinctIds(waiting) /\ DistinctIds(dlq)
    /\ \A d, e \in processing : d.id = e.id => d = e
    /\ WaitingIds \intersect DlqIds = {}
    /\ (WaitingIds \union DlqIds) \intersect acked = {}
    /\ (WaitingIds \union DlqIds \union acked) \intersect ProcessingIds = {}
    /\ \A w \in Workers : pc[w] \in Holding =>
          /\ msg[w].id \notin WaitingIds \union DlqIds \union acked
          /\ \A v \in Workers : pc[v] \in Holding /\ msg[v].id = msg[w].id => v = w

(* The attempts a message carries are the deliveries it really had, through *)
(* requeues and deaths of other workers, so the retry limit counts runs of  *)
(* the handler and not something else.                                      *)
AttemptsExact ==
    /\ \A e \in ToSet(waiting) \union ToSet(dlq) : e.attempts = deliveries[e.id]
    /\ \A w \in Workers : pc[w] \in Holding => msg[w].attempts = deliveries[msg[w].id]

(* "The handler runs at most max_retries + 1 times", and a message reaches  *)
(* the dead-letter list only when all of those runs were used.              *)
DeliveryBound ==
    /\ \A i \in Ids : deliveries[i] <= MaxRetries + 1
    /\ \A i \in DlqIds : deliveries[i] = MaxRetries + 1

(* Until a worker has issued its LREM, the bytes it will name in it are in  *)
(* :processing and are those of the message it delivered: LREM matches; and *)
(* after the LREM no entry with that id is left behind.                     *)
LremMatches ==
    \A w \in Workers :
        /\ pc[w] \in Located => raw[w] \in processing /\ msg[w] = Delivered(raw[w])
        /\ pc[w] \in Removed => msg[w].id \notin ProcessingIds

(* A message leaves Redis and every process unacknowledged in one way only: *)
(* its worker dies between the LREM and the RPUSH of requeue or dead_letter.*)
LossStep ==
    \A i \in Ids : Lost(i)' /\ ~Lost(i) =>
        \E w \in Workers : pc[w] \in Removed /\ msg[w].id = i /\ pc'[w] = "down"
LossOnlyInSettleWindow == [][LossStep]_vars

(* Every published message is acknowledged or dead-lettered in the end,     *)
(* unless a death stranded or lost it; without deaths there is no such case.*)
Settles ==
    \A i \in Ids : i \in published ~>
        \/ i \in acked \union DlqIds
        \/ deaths > 0 /\ (Stranded(i) \/ Lost(i))

(* Two Redis commands or not, the queue behaves as the port promises: a     *)
(* message is in flight from its LMOVE to its last command, and a death     *)
(* takes away the message of that worker and nothing else.                  *)
HeldMessages == {msg[w] : w \in {v \in Workers : pc[v] \in Holding}}
Port == INSTANCE MessageQueue WITH inflight <- HeldMessages, dead <- dlq
ImplementsPort == Port!QueueSpec

(* The module's claim, refuted: "if a worker crashes between reserve and    *)
(* ack/requeue/dead_letter, the original bytes are still in :processing and *)
(* can be recovered without loss".                                          *)
RecoverableWithoutLoss ==
    \A i \in Ids : ~Lost(i)
=============================================================================
