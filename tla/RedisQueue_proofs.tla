-------------------------- MODULE RedisQueue_proofs --------------------------
(***************************************************************************)
(* Proofs about RedisQueue, for any set of ids and of workers and any      *)
(* retry limit.                                                            *)
(***************************************************************************)
EXTENDS RedisQueue, SequenceTheorems, TLAPS

(* What the other invariants need to be inductive: only issued ids occur,  *)
(* an id not issued was never delivered, and each branch of consume_once   *)
(* remembers the comparison that led to it.                                *)
Bookkeeping ==
    /\ WaitingIds \union DlqIds \union ProcessingIds \subseteq published
    /\ \A w \in Workers : pc[w] \in Holding => msg[w].id \in published
    /\ \A i \in Ids \ published : deliveries[i] = 0
    /\ \A e \in ToSet(waiting) : e.attempts <= MaxRetries
    /\ \A w \in Workers :
          /\ pc[w] \in {"requeue_lrem", "requeue_rpush"} => msg[w].attempts <= MaxRetries
          /\ pc[w] \in {"dlq_lrem", "dlq_rpush"} => msg[w].attempts > MaxRetries

IInv == TypeOK /\ OneCopy /\ AttemptsExact /\ DeliveryBound /\ LremMatches /\ Bookkeeping

-----------------------------------------------------------------------------
(* Lemmas on lists of entries.                                             *)

(* RPUSH adds one entry at the right end and changes no other.             *)
LEMMA AppendEntry ==
    ASSUME NEW s \in Seq(Entry), NEW e \in Entry
    PROVE  /\ Append(s, e) \in Seq(Entry)
           /\ ToSet(Append(s, e)) = ToSet(s) \union {e}
           /\ DistinctIds(s) /\ e.id \notin IdsIn(ToSet(s)) => DistinctIds(Append(s, e))
<1>1. /\ Append(s, e) \in Seq(Entry)
      /\ Len(Append(s, e)) = Len(s) + 1
      /\ \A k \in 1..Len(s) : Append(s, e)[k] = s[k]
      /\ Append(s, e)[Len(s) + 1] = e
  BY AppendProperties
<1>2. Len(s) \in Nat /\ DOMAIN s = 1..Len(s) /\ DOMAIN Append(s, e) = 1..Len(s) + 1
  BY <1>1, LenProperties
<1>3. ToSet(Append(s, e)) = ToSet(s) \union {e}
  BY <1>1, <1>2 DEF ToSet
<1>4. ASSUME DistinctIds(s), e.id \notin IdsIn(ToSet(s))
      PROVE  DistinctIds(Append(s, e))
  <2>1. \A k \in 1..Len(s) : s[k].id # e.id
    BY <1>2, <1>4 DEF ToSet, IdsIn
  <2>2. \A k \in 1..Len(s) + 1 : k \in 1..Len(s) \/ k = Len(s) + 1
    BY <1>2
  <2> QED BY <1>1, <1>2, <1>4, <2>1, <2>2 DEF DistinctIds
<1> QED BY <1>1, <1>3, <1>4

(* LMOVE takes the leftmost entry and leaves the others as they were.      *)
LEMMA TakeHead ==
    ASSUME NEW s \in Seq(Entry), s # <<>>
    PROVE  /\ Head(s) \in Entry
           /\ Tail(s) \in Seq(Entry)
           /\ ToSet(s) = ToSet(Tail(s)) \union {Head(s)}
           /\ DistinctIds(s) => /\ DistinctIds(Tail(s))
                                /\ Head(s).id \notin IdsIn(ToSet(Tail(s)))
<1>1. /\ Head(s) \in Entry /\ Tail(s) \in Seq(Entry)
      /\ Len(Tail(s)) = Len(s) - 1
      /\ \A k \in 1..Len(Tail(s)) : Tail(s)[k] = s[k + 1]
  BY HeadTailProperties
<1>2. Len(s) \in Nat /\ Len(s) > 0 /\ Head(s) = s[1]
      /\ DOMAIN s = 1..Len(s) /\ DOMAIN Tail(s) = 1..Len(s) - 1
  BY <1>1, LenProperties, EmptySeq
<1>3. ToSet(s) = ToSet(Tail(s)) \union {Head(s)}
  <2>1. ASSUME NEW x \in ToSet(s) PROVE x \in ToSet(Tail(s)) \union {Head(s)}
    <3>1. PICK k \in 1..Len(s) : x = s[k]
      BY <1>2, <2>1 DEF ToSet
    <3>2. CASE k = 1  BY <1>2, <3>1, <3>2
    <3>3. CASE k # 1
      <4>1. k - 1 \in 1..Len(Tail(s)) /\ Tail(s)[k - 1] = x
        BY <1>1, <1>2, <3>1, <3>3
      <4> QED BY <1>1, <1>2, <4>1 DEF ToSet
    <3> QED BY <3>2, <3>3
  <2>2. ToSet(Tail(s)) \subseteq ToSet(s)
    BY <1>1, <1>2 DEF ToSet
  <2>3. Head(s) \in ToSet(s)
    BY <1>2 DEF ToSet
  <2> QED BY <2>1, <2>2, <2>3
<1>4. ASSUME DistinctIds(s)
      PROVE  DistinctIds(Tail(s)) /\ Head(s).id \notin IdsIn(ToSet(Tail(s)))
  <2>1. ASSUME NEW j \in 1..Len(Tail(s)), NEW k \in 1..Len(Tail(s)),
               Tail(s)[j].id = Tail(s)[k].id
        PROVE  j = k
    <3>1. j + 1 \in 1..Len(s) /\ k + 1 \in 1..Len(s)
      BY <1>1, <1>2
    <3>2. s[j + 1].id = s[k + 1].id
      BY <1>1, <2>1
    <3>3. j + 1 = k + 1
      BY <1>4, <3>1, <3>2 DEF DistinctIds
    <3> QED BY <3>3
  <2>2. ASSUME NEW k \in 1..Len(Tail(s)), Tail(s)[k].id = Head(s).id
        PROVE  FALSE
    <3>1. 1 \in 1..Len(s) /\ k + 1 \in 1..Len(s) /\ k + 1 # 1
      BY <1>1, <1>2
    <3>2. s[k + 1].id = s[1].id
      BY <1>1, <1>2, <2>2
    <3> QED BY <1>4, <3>1, <3>2 DEF DistinctIds
  <2>3. Head(s).id \notin IdsIn(ToSet(Tail(s)))
    BY <1>1, <1>2, <2>2 DEF ToSet, IdsIn
  <2> QED BY <2>1, <2>3 DEF DistinctIds
<1> QED BY <1>1, <1>3, <1>4

(* A delivery counts one attempt more and is the same message.             *)
LEMMA DeliveredEntry ==
    ASSUME NEW e \in Entry
    PROVE  /\ Delivered(e) \in Entry
           /\ Delivered(e).id = e.id
           /\ Delivered(e).attempts = e.attempts + 1
BY DEF Entry, Delivered

-----------------------------------------------------------------------------
(* The inductive step, one lemma per operation.                            *)

LEMMA InitIInv == Init => IInv
<1> SUFFICES ASSUME Init PROVE IInv
  OBVIOUS
<1>1. waiting = <<>> /\ dlq = <<>> /\ processing = {} /\ ToSet(<<>>) = {} /\ Len(<<>>) = 0
  BY DEF Init, ToSet
<1>2. \A w \in Workers : pc[w] \notin Holding /\ pc[w] = "idle" /\ msg[w] = None /\ raw[w] = None
  BY DEF Init, Holding, Located, Removed
<1>3. TypeOK
  BY <1>1, <1>2, DeathsAssumption DEF Init, TypeOK
<1>4. WaitingIds = {} /\ DlqIds = {} /\ ProcessingIds = {}
  BY <1>1 DEF WaitingIds, DlqIds, ProcessingIds, IdsIn
<1>5. OneCopy
  BY <1>1, <1>2, <1>4 DEF Init, OneCopy, DistinctIds
<1>6. AttemptsExact /\ DeliveryBound /\ LremMatches /\ Bookkeeping
  BY <1>1, <1>2, <1>4, RetriesAssumption
  DEF Init, AttemptsExact, DeliveryBound, LremMatches, Bookkeeping, Holding, Located, Removed
<1> QED BY <1>3, <1>5, <1>6 DEF IInv

LEMMA PublishIInv == ASSUME NEW i \in Ids, IInv, Publish(i) PROVE IInv'
<1> DEFINE e == [id |-> i, attempts |-> 0]
<1>1. e \in Entry /\ e.id = i /\ e.attempts = 0
  BY DEF Entry
<1>2. i \notin published /\ waiting' = Append(waiting, e) /\ published' = published \union {i}
  BY DEF Publish
<1>3. waiting \in Seq(Entry)
  BY DEF IInv, TypeOK
<1>4. waiting' \in Seq(Entry) /\ ToSet(waiting') = ToSet(waiting) \union {e}
  BY <1>1, <1>2, <1>3, AppendEntry
<1>5. i \notin WaitingIds \union DlqIds \union ProcessingIds \union acked /\ deliveries[i] = 0
  BY <1>2 DEF IInv, TypeOK, Bookkeeping
<1>6. \A w \in Workers : pc[w] \in Holding => msg[w].id # i
  BY <1>2 DEF IInv, Bookkeeping
<1>7. DistinctIds(waiting')
  BY <1>1, <1>2, <1>3, <1>5, AppendEntry DEF WaitingIds, IInv, OneCopy
<1>8. WaitingIds' = WaitingIds \union {i}
  BY <1>1, <1>4 DEF WaitingIds, IdsIn
<1>9. DlqIds' = DlqIds /\ ProcessingIds' = ProcessingIds
  BY DEF Publish, DlqIds, ProcessingIds
<1> HIDE DEF e
<1>10. TypeOK'
  BY <1>2, <1>4 DEF IInv, TypeOK, Publish, workerVars
<1>11. OneCopy'
  BY <1>5, <1>6, <1>7, <1>8, <1>9 DEF IInv, OneCopy, Publish, workerVars
<1>12. AttemptsExact'
  BY <1>1, <1>4, <1>5 DEF IInv, AttemptsExact, Publish, workerVars
<1>13. DeliveryBound' /\ LremMatches'
  BY <1>9 DEF IInv, DeliveryBound, LremMatches, Publish, workerVars
<1>14. Bookkeeping'
  BY <1>1, <1>2, <1>4, <1>8, <1>9, RetriesAssumption DEF IInv, Bookkeeping, Publish, workerVars
<1> QED BY <1>10, <1>11, <1>12, <1>13, <1>14 DEF IInv

LEMMA ReserveIInv == ASSUME NEW w \in Workers, IInv, Reserve(w) PROVE IInv'
<1> DEFINE h == Head(waiting)
           d == Delivered(h)
<1> USE DEF Holding, Located, Removed
<1>1. /\ pc[w] = "idle" /\ waiting # <<>>
      /\ waiting' = Tail(waiting)
      /\ processing' = processing \union {h}
      /\ msg' = [msg EXCEPT ![w] = d]
      /\ raw' = [raw EXCEPT ![w] = h]
      /\ pc' = [pc EXCEPT ![w] = "handling"]
      /\ deliveries' = [deliveries EXCEPT ![h.id] = @ + 1]
      /\ UNCHANGED <<dlq, published, acked, deaths>>
  BY DEF Reserve
<1>2. /\ h \in Entry
      /\ waiting' \in Seq(Entry)
      /\ ToSet(waiting) = ToSet(waiting') \union {h}
      /\ DistinctIds(waiting') /\ h.id \notin IdsIn(ToSet(waiting'))
  BY <1>1, TakeHead DEF IInv, TypeOK, OneCopy
<1>3. d \in Entry /\ d.id = h.id /\ d.attempts = h.attempts + 1 /\ d # None
  BY <1>2, DeliveredEntry, NoneAssumption
<1>4. h.id \in Ids /\ h.attempts \in Nat
  BY <1>2 DEF Entry
<1>5. WaitingIds = WaitingIds' \union {h.id} /\ h.id \notin WaitingIds'
  BY <1>2 DEF WaitingIds, IdsIn
<1>6. ProcessingIds' = ProcessingIds \union {h.id} /\ DlqIds' = DlqIds
  BY <1>1 DEF ProcessingIds, IdsIn, DlqIds
<1>7. /\ h.id \notin DlqIds \union acked \union ProcessingIds
      /\ \A v \in Workers : pc[v] \in Holding => msg[v].id # h.id
  BY <1>5 DEF IInv, OneCopy
<1>8. h.attempts = deliveries[h.id] /\ h.attempts <= MaxRetries
  BY <1>2 DEF IInv, AttemptsExact, Bookkeeping
<1>9. \A v \in Workers : v # w => pc'[v] = pc[v] /\ msg'[v] = msg[v] /\ raw'[v] = raw[v]
  BY <1>1 DEF IInv, TypeOK
<1>10. pc'[w] = "handling" /\ msg'[w] = d /\ raw'[w] = h
  BY <1>1 DEF IInv, TypeOK
<1>11. /\ deliveries'[h.id] = deliveries[h.id] + 1
       /\ \A i \in Ids : i # h.id => deliveries'[i] = deliveries[i]
       /\ deliveries' \in [Ids -> Nat]
  BY <1>1, <1>4 DEF IInv, TypeOK
<1>12. h.id \in published
  BY <1>5 DEF IInv, Bookkeeping
<1>13. \A e \in ToSet(waiting') \union ToSet(dlq) : e.id # h.id /\ e.id \in Ids
  <2>1. \A e \in ToSet(waiting') : e \in Entry
    BY <1>2 DEF ToSet
  <2>2. \A e \in ToSet(dlq) : e \in Entry
    BY DEF ToSet, IInv, TypeOK
  <2> QED BY <2>1, <2>2, <1>5, <1>7 DEF WaitingIds, DlqIds, IdsIn, Entry
<1>14. \A v \in Workers : v # w /\ pc[v] \in Holding => msg[v] \in Entry /\ msg[v].id \in Ids
  BY DEF IInv, TypeOK, Entry
<1>15. h \notin processing /\ \A e \in processing : e.id # h.id
  BY <1>7 DEF ProcessingIds, IdsIn
<1> HIDE DEF h, d
<1>16. TypeOK'
  BY <1>1, <1>2, <1>3, <1>11, <1>9, <1>10 DEF IInv, TypeOK
<1>17. OneCopy'
  BY <1>1, <1>2, <1>3, <1>5, <1>6, <1>7, <1>9, <1>10, <1>15 DEF IInv, OneCopy
<1>18. AttemptsExact'
  <2>1. \A e \in (ToSet(waiting) \union ToSet(dlq))' : e.attempts = deliveries'[e.id]
    BY <1>1, <1>2, <1>11, <1>13 DEF IInv, AttemptsExact
  <2>2. \A v \in Workers : pc'[v] \in Holding => msg'[v].attempts = deliveries'[msg'[v].id]
    BY <1>3, <1>7, <1>8, <1>9, <1>10, <1>11, <1>14 DEF IInv, AttemptsExact
  <2> QED BY <2>1, <2>2 DEF AttemptsExact
<1>19. DeliveryBound'
  <2>1. \A i \in DlqIds : i \in Ids /\ i # h.id
    BY <1>7, <1>13 DEF DlqIds, IdsIn
  <2>2. \A i \in DlqIds' : deliveries'[i] = MaxRetries + 1
    BY <1>6, <1>11, <2>1 DEF IInv, DeliveryBound
  <2>3. \A i \in Ids : deliveries'[i] <= MaxRetries + 1
    <3>1. h.attempts + 1 <= MaxRetries + 1
      BY <1>4, <1>8, RetriesAssumption
    <3> QED BY <1>4, <1>8, <1>11, <3>1 DEF IInv, DeliveryBound
  <2> QED BY <2>2, <2>3 DEF DeliveryBound
<1>20. LremMatches'
  <2>1. d = Delivered(h)  BY DEF d
  <2> QED BY <2>1, <1>1, <1>6, <1>7, <1>9, <1>10 DEF IInv, LremMatches
<1>21. Bookkeeping'
  BY <1>1, <1>2, <1>3, <1>5, <1>6, <1>9, <1>10, <1>11, <1>12 DEF IInv, Bookkeeping
<1> QED BY <1>16, <1>17, <1>18, <1>19, <1>20, <1>21 DEF IInv

(* The steps that end a handler only choose the settling operation.        *)
LEMMA HandlerIInv ==
    ASSUME NEW w \in Workers, IInv, HandlerReturns(w) \/ HandlerRaises(w)
    PROVE  IInv'
<1> USE DEF Holding, Located, Removed
<1>1. /\ pc[w] = "handling"
      /\ UNCHANGED <<redisVars, msg, raw, historyVars>>
      /\ pc \in [Workers -> {"down", "idle"} \union Holding]
  BY DEF HandlerReturns, HandlerRaises, IInv, TypeOK
<1>2. \A v \in Workers : v # w => pc'[v] = pc[v]
  BY <1>1 DEF HandlerReturns, HandlerRaises
<1>3. msg[w] \in Entry /\ msg[w].attempts \in Nat
  BY <1>1 DEF IInv, TypeOK, Entry
<1>4. \/ pc'[w] = "ack"
      \/ pc'[w] = "requeue_lrem" /\ msg[w].attempts <= MaxRetries
      \/ pc'[w] = "dlq_lrem" /\ msg[w].attempts > MaxRetries
  BY <1>1, <1>3, RetriesAssumption DEF HandlerReturns, HandlerRaises
<1>5. /\ waiting' = waiting /\ processing' = processing /\ dlq' = dlq
      /\ msg' = msg /\ raw' = raw /\ published' = published /\ acked' = acked
      /\ deliveries' = deliveries /\ deaths' = deaths
      /\ WaitingIds' = WaitingIds /\ DlqIds' = DlqIds /\ ProcessingIds' = ProcessingIds
  BY <1>1 DEF redisVars, historyVars, WaitingIds, DlqIds, ProcessingIds
<1>6. pc' \in [Workers -> {"down", "idle"} \union Holding]
  BY <1>1, <1>4 DEF HandlerReturns, HandlerRaises
<1>7. TypeOK'
  BY <1>1, <1>2, <1>4, <1>5, <1>6 DEF IInv, TypeOK
<1>8. OneCopy' /\ AttemptsExact' /\ DeliveryBound'
  BY <1>1, <1>2, <1>4, <1>5 DEF IInv, OneCopy, AttemptsExact, DeliveryBound
<1>9. LremMatches' /\ Bookkeeping'
  BY <1>1, <1>2, <1>4, <1>5 DEF IInv, LremMatches, Bookkeeping
<1> QED BY <1>7, <1>8, <1>9 DEF IInv

(* LREM takes away the entry of the worker's own message and no other.     *)
LEMMA LremRemoves ==
    ASSUME NEW w \in Workers, IInv, pc[w] \in Located, Lrem(w)
    PROVE  /\ ProcessingIds' = ProcessingIds \ {msg[w].id}
           /\ processing' \in SUBSET processing
           /\ \A e \in processing : e.id # msg[w].id => e \in processing'
           /\ raw' \in [Workers -> Entry \union {None}]
           /\ \A v \in Workers : v # w => raw'[v] = raw[v]
<1>1. raw[w] \in processing /\ msg[w] = Delivered(raw[w]) /\ raw[w] \in Entry
  BY DEF IInv, LremMatches, TypeOK
<1>2. msg[w].id = raw[w].id
  BY <1>1, DeliveredEntry
<1>3. processing' = processing \ {raw[w]} /\ raw' = [raw EXCEPT ![w] = None]
  BY DEF Lrem
<1>4. \A e \in processing : e.id = raw[w].id => e = raw[w]
  BY <1>1 DEF IInv, OneCopy
<1>5. ProcessingIds' = ProcessingIds \ {msg[w].id}
  BY <1>1, <1>2, <1>3, <1>4 DEF ProcessingIds, IdsIn
<1> QED BY <1>2, <1>3, <1>4, <1>5 DEF IInv, TypeOK

LEMMA AckIInv == ASSUME NEW w \in Workers, IInv, Ack(w) PROVE IInv'
<1> USE DEF Holding, Located, Removed
<1>1. /\ pc[w] = "ack" /\ Lrem(w)
      /\ pc' = [pc EXCEPT ![w] = "idle"] /\ msg' = [msg EXCEPT ![w] = None]
      /\ acked' = acked \union {msg[w].id}
      /\ waiting' = waiting /\ dlq' = dlq /\ published' = published
      /\ deliveries' = deliveries /\ deaths' = deaths
      /\ WaitingIds' = WaitingIds /\ DlqIds' = DlqIds
  BY DEF Ack, Settled, WaitingIds, DlqIds
<1>2. /\ ProcessingIds' = ProcessingIds \ {msg[w].id}
      /\ processing' \in SUBSET processing
      /\ \A e \in processing : e.id # msg[w].id => e \in processing'
      /\ raw' \in [Workers -> Entry \union {None}]
      /\ \A v \in Workers : v # w => raw'[v] = raw[v]
  BY <1>1, LremRemoves
<1>3. pc'[w] = "idle" /\ msg'[w] = None
      /\ \A v \in Workers : v # w => pc'[v] = pc[v] /\ msg'[v] = msg[v]
  BY <1>1 DEF IInv, TypeOK
<1>4. TypeOK'
  BY <1>1, <1>2, <1>3 DEF IInv, TypeOK, Bookkeeping
<1>5. OneCopy'
  BY <1>1, <1>2, <1>3 DEF IInv, OneCopy
<1>6. AttemptsExact' /\ DeliveryBound'
  BY <1>1, <1>3 DEF IInv, AttemptsExact, DeliveryBound
<1>7. LremMatches'
  <2>1. ASSUME NEW v \in Workers, pc'[v] \in Located
        PROVE  raw'[v] \in processing' /\ msg'[v] = Delivered(raw'[v])
    <3>1. v # w /\ pc[v] \in Located  BY <1>3, <2>1
    <3>2. raw[v] \in processing /\ msg[v] = Delivered(raw[v]) /\ raw[v] \in Entry
      BY <3>1 DEF IInv, LremMatches, TypeOK
    <3>3. raw[v].id = msg[v].id  BY <3>2, DeliveredEntry
    <3>4. msg[v].id # msg[w].id  BY <1>1, <3>1 DEF IInv, OneCopy
    <3> QED BY <1>2, <1>3, <3>1, <3>2, <3>3, <3>4
  <2>2. ASSUME NEW v \in Workers, pc'[v] \in Removed
        PROVE  msg'[v].id \notin ProcessingIds'
    BY <1>2, <1>3, <2>2 DEF IInv, LremMatches
  <2> QED BY <2>1, <2>2 DEF LremMatches
<1>8. Bookkeeping'
  BY <1>1, <1>2, <1>3 DEF IInv, Bookkeeping
<1> QED BY <1>4, <1>5, <1>6, <1>7, <1>8 DEF IInv

(* The first command of requeue and of dead_letter.                        *)
LEMMA FirstCommandIInv ==
    ASSUME NEW w \in Workers, IInv, RequeueLrem(w) \/ DeadLetterLrem(w)
    PROVE  IInv'
<1> USE DEF Holding, Located, Removed
<1>1. /\ pc[w] \in {"requeue_lrem", "dlq_lrem"} /\ Lrem(w)
      /\ msg' = msg
      /\ waiting' = waiting /\ dlq' = dlq /\ published' = published
      /\ acked' = acked /\ deliveries' = deliveries /\ deaths' = deaths
      /\ WaitingIds' = WaitingIds /\ DlqIds' = DlqIds
  BY DEF RequeueLrem, DeadLetterLrem, WaitingIds, DlqIds, historyVars
<1>2. /\ ProcessingIds' = ProcessingIds \ {msg[w].id}
      /\ processing' \in SUBSET processing
      /\ \A e \in processing : e.id # msg[w].id => e \in processing'
      /\ raw' \in [Workers -> Entry \union {None}]
      /\ \A v \in Workers : v # w => raw'[v] = raw[v]
  BY <1>1, LremRemoves
<1>3. /\ pc[w] = "requeue_lrem" => pc'[w] = "requeue_rpush"
      /\ pc[w] = "dlq_lrem" => pc'[w] = "dlq_rpush"
      /\ pc' \in [Workers -> {"down", "idle"} \union Holding]
      /\ \A v \in Workers : v # w => pc'[v] = pc[v]
  BY DEF RequeueLrem, DeadLetterLrem, IInv, TypeOK
<1>4. TypeOK'
  BY <1>1, <1>2, <1>3 DEF IInv, TypeOK
<1>5. OneCopy'
  BY <1>1, <1>2, <1>3 DEF IInv, OneCopy
<1>6. AttemptsExact' /\ DeliveryBound'
  BY <1>1, <1>3 DEF IInv, AttemptsExact, DeliveryBound
<1>7. LremMatches'
  <2>1. ASSUME NEW v \in Workers, pc'[v] \in Located
        PROVE  raw'[v] \in processing' /\ msg'[v] = Delivered(raw'[v])
    <3>1. v # w /\ pc[v] \in Located  BY <1>1, <1>3, <2>1
    <3>2. raw[v] \in processing /\ msg[v] = Delivered(raw[v]) /\ raw[v] \in Entry
      BY <3>1 DEF IInv, LremMatches, TypeOK
    <3>3. raw[v].id = msg[v].id  BY <3>2, DeliveredEntry
    <3>4. msg[v].id # msg[w].id  BY <1>1, <3>1 DEF IInv, OneCopy
    <3> QED BY <1>1, <1>2, <3>1, <3>2, <3>3, <3>4
  <2>2. ASSUME NEW v \in Workers, pc'[v] \in Removed
        PROVE  msg'[v].id \notin ProcessingIds'
    BY <1>1, <1>2, <1>3, <2>2 DEF IInv, LremMatches
  <2> QED BY <2>1, <2>2 DEF LremMatches
<1>8. Bookkeeping'
  BY <1>1, <1>2, <1>3 DEF IInv, Bookkeeping
<1> QED BY <1>4, <1>5, <1>6, <1>7, <1>8 DEF IInv

LEMMA RequeueRpushIInv == ASSUME NEW w \in Workers, IInv, RequeueRpush(w) PROVE IInv'
<1> USE DEF Holding, Located, Removed
<1>1. /\ pc[w] = "requeue_rpush"
      /\ waiting' = Append(waiting, msg[w])
      /\ pc' = [pc EXCEPT ![w] = "idle"] /\ msg' = [msg EXCEPT ![w] = None]
      /\ processing' = processing /\ dlq' = dlq /\ raw' = raw
      /\ published' = published /\ acked' = acked
      /\ deliveries' = deliveries /\ deaths' = deaths
      /\ DlqIds' = DlqIds /\ ProcessingIds' = ProcessingIds
  BY DEF RequeueRpush, Settled, historyVars, DlqIds, ProcessingIds
<1>2. msg[w] \in Entry /\ waiting \in Seq(Entry)
  BY <1>1 DEF IInv, TypeOK
<1>3. /\ msg[w].id \notin WaitingIds \union DlqIds \union acked \union ProcessingIds
      /\ msg[w].id \in published
      /\ msg[w].attempts = deliveries[msg[w].id]
      /\ msg[w].attempts <= MaxRetries
      /\ \A v \in Workers : v # w /\ pc[v] \in Holding => msg[v].id # msg[w].id
  BY <1>1 DEF IInv, OneCopy, LremMatches, Bookkeeping, AttemptsExact
<1>4. /\ waiting' \in Seq(Entry) /\ ToSet(waiting') = ToSet(waiting) \union {msg[w]}
      /\ DistinctIds(waiting')
  BY <1>1, <1>2, <1>3, AppendEntry DEF WaitingIds, IInv, OneCopy
<1>5. WaitingIds' = WaitingIds \union {msg[w].id}
  BY <1>4 DEF WaitingIds, IdsIn
<1>6. pc'[w] = "idle" /\ msg'[w] = None
      /\ \A v \in Workers : v # w => pc'[v] = pc[v] /\ msg'[v] = msg[v]
  BY <1>1 DEF IInv, TypeOK
<1>7. TypeOK'
  BY <1>1, <1>4, <1>6 DEF IInv, TypeOK
<1>8. OneCopy'
  BY <1>1, <1>3, <1>4, <1>5, <1>6 DEF IInv, OneCopy
<1>9. AttemptsExact' /\ DeliveryBound'
  BY <1>1, <1>3, <1>4, <1>6 DEF IInv, AttemptsExact, DeliveryBound
<1>10. LremMatches' /\ Bookkeeping'
  BY <1>1, <1>3, <1>4, <1>5, <1>6 DEF IInv, LremMatches, Bookkeeping
<1> QED BY <1>7, <1>8, <1>9, <1>10 DEF IInv

LEMMA DeadLetterRpushIInv ==
    ASSUME NEW w \in Workers, IInv, DeadLetterRpush(w) PROVE IInv'
<1> USE DEF Holding, Located, Removed
<1>1. /\ pc[w] = "dlq_rpush"
      /\ dlq' = Append(dlq, msg[w])
      /\ pc' = [pc EXCEPT ![w] = "idle"] /\ msg' = [msg EXCEPT ![w] = None]
      /\ processing' = processing /\ waiting' = waiting /\ raw' = raw
      /\ published' = published /\ acked' = acked
      /\ deliveries' = deliveries /\ deaths' = deaths
      /\ WaitingIds' = WaitingIds /\ ProcessingIds' = ProcessingIds
  BY DEF DeadLetterRpush, Settled, historyVars, WaitingIds, ProcessingIds
<1>2. msg[w] \in Entry /\ dlq \in Seq(Entry) /\ msg[w].id \in Ids /\ msg[w].attempts \in Nat
  BY <1>1 DEF IInv, TypeOK, Entry
<1>3. /\ msg[w].id \notin WaitingIds \union DlqIds \union acked \union ProcessingIds
      /\ msg[w].id \in published
      /\ msg[w].attempts = deliveries[msg[w].id]
      /\ \A v \in Workers : v # w /\ pc[v] \in Holding => msg[v].id # msg[w].id
  BY <1>1 DEF IInv, OneCopy, LremMatches, Bookkeeping, AttemptsExact
<1>4. deliveries[msg[w].id] = MaxRetries + 1
  BY <1>1, <1>2, <1>3, RetriesAssumption DEF IInv, DeliveryBound, Bookkeeping
<1>5. /\ dlq' \in Seq(Entry) /\ ToSet(dlq') = ToSet(dlq) \union {msg[w]}
      /\ DistinctIds(dlq')
  BY <1>1, <1>2, <1>3, AppendEntry DEF DlqIds, IInv, OneCopy
<1>6. DlqIds' = DlqIds \union {msg[w].id}
  BY <1>5 DEF DlqIds, IdsIn
<1>7. pc'[w] = "idle" /\ msg'[w] = None
      /\ \A v \in Workers : v # w => pc'[v] = pc[v] /\ msg'[v] = msg[v]
  BY <1>1 DEF IInv, TypeOK
<1>8. TypeOK'
  BY <1>1, <1>5, <1>7 DEF IInv, TypeOK
<1>9. OneCopy'
  BY <1>1, <1>3, <1>5, <1>6, <1>7 DEF IInv, OneCopy
<1>10. AttemptsExact' /\ DeliveryBound'
  BY <1>1, <1>3, <1>4, <1>5, <1>6, <1>7 DEF IInv, AttemptsExact, DeliveryBound
<1>11. LremMatches' /\ Bookkeeping'
  BY <1>1, <1>3, <1>6, <1>7 DEF IInv, LremMatches, Bookkeeping
<1> QED BY <1>8, <1>9, <1>10, <1>11 DEF IInv

(* A death or a restart empties one process and touches nothing in Redis.  *)
LEMMA DieRestartIInv ==
    ASSUME NEW w \in Workers, IInv, Die(w) \/ Restart(w) PROVE IInv'
<1> USE DEF Holding, Located, Removed
<1>1. /\ waiting' = waiting /\ processing' = processing /\ dlq' = dlq
      /\ published' = published /\ acked' = acked /\ deliveries' = deliveries
      /\ WaitingIds' = WaitingIds /\ DlqIds' = DlqIds /\ ProcessingIds' = ProcessingIds
  BY DEF Die, Restart, redisVars, historyVars, WaitingIds, DlqIds, ProcessingIds
<1>2. /\ pc'[w] \in {"down", "idle"} /\ msg'[w] = None
      /\ pc' \in [Workers -> {"down", "idle"} \union Holding]
      /\ msg' \in [Workers -> Entry \union {None}]
      /\ raw' \in [Workers -> Entry \union {None}]
      /\ \A v \in Workers : v # w => pc'[v] = pc[v] /\ msg'[v] = msg[v] /\ raw'[v] = raw[v]
  <2>1. CASE Die(w)
    BY <2>1 DEF Die, IInv, TypeOK
  <2>2. CASE Restart(w)
    <3>1. msg[w] = None  BY <2>2 DEF Restart, IInv, TypeOK
    <3> QED BY <2>2, <3>1 DEF Restart, IInv, TypeOK
  <2> QED BY <2>1, <2>2
<1>3. deaths' \in 0..MaxDeaths
  BY DeathsAssumption DEF Die, Restart, historyVars, IInv, TypeOK
<1>4. TypeOK'
  BY <1>1, <1>2, <1>3 DEF IInv, TypeOK
<1>5. OneCopy' /\ AttemptsExact' /\ DeliveryBound'
  BY <1>1, <1>2 DEF IInv, OneCopy, AttemptsExact, DeliveryBound
<1>6. LremMatches' /\ Bookkeeping'
  BY <1>1, <1>2 DEF IInv, LremMatches, Bookkeeping
<1> QED BY <1>4, <1>5, <1>6 DEF IInv

LEMMA StutterIInv == IInv /\ UNCHANGED vars => IInv'
BY DEF IInv, vars, redisVars, workerVars, historyVars, TypeOK, OneCopy, AttemptsExact,
       DeliveryBound, LremMatches, Bookkeeping, WaitingIds, DlqIds, ProcessingIds

LEMMA NextIInv == IInv /\ [Next]_vars => IInv'
<1> SUFFICES ASSUME IInv, [Next]_vars PROVE IInv'
  OBVIOUS
<1>1. ASSUME NEW i \in Ids, Publish(i) PROVE IInv'
  BY <1>1, PublishIInv
<1>2. ASSUME NEW w \in Workers, ConsumeOnce(w) PROVE IInv'
  BY <1>2, ReserveIInv, HandlerIInv, AckIInv, FirstCommandIInv, RequeueRpushIInv,
     DeadLetterRpushIInv DEF ConsumeOnce
<1>3. ASSUME NEW w \in Workers, Die(w) \/ Restart(w) PROVE IInv'
  BY <1>3, DieRestartIInv
<1>4. CASE UNCHANGED vars
  BY <1>4, StutterIInv
<1> QED BY <1>1, <1>2, <1>3, <1>4 DEF Next

LEMMA Invariance == Spec => []IInv
BY InitIInv, NextIInv, PTL DEF Spec

-----------------------------------------------------------------------------
(* The variables keep their types, and a worker holds a message exactly    *)
(* between reserve and the return of the settling call (consume_once).     *)
THEOREM TypeCorrect == Spec => []TypeOK
<1>1. IInv => TypeOK  BY DEF IInv
<1> QED BY <1>1, Invariance, PTL

(* Competing workers never hold the same message, and no message is in two *)
(* of the lists, whatever workers die and restart.                         *)
THEOREM AtMostOneCopy == Spec => []OneCopy
<1>1. IInv => OneCopy  BY DEF IInv
<1> QED BY <1>1, Invariance, PTL

(* The attempt count kept across requeues is the number of deliveries.     *)
THEOREM AttemptsAreDeliveries == Spec => []AttemptsExact
<1>1. IInv => AttemptsExact  BY DEF IInv
<1> QED BY <1>1, Invariance, PTL

(* consume_once's promise: at most max_retries + 1 runs of the handler, and *)
(* the dead-letter list only after the last of them.                       *)
THEOREM BoundedDeliveries == Spec => []DeliveryBound
<1>1. IInv => DeliveryBound  BY DEF IInv
<1> QED BY <1>1, Invariance, PTL

(* LREM always finds the bytes LMOVE deposited.                            *)
THEOREM LremAlwaysMatches == Spec => []LremMatches
<1>1. IInv => LremMatches  BY DEF IInv
<1> QED BY <1>1, Invariance, PTL

-----------------------------------------------------------------------------
(* No message leaves the system but through a death.                       *)

Known == WaitingIds \union ProcessingIds \union DlqIds \union HeldIds \union acked

(* The message of a worker that goes on holding it stays held.             *)
LEMMA HeldKept ==
    ASSUME NEW w \in Workers, NEW i \in HeldIds,
           \A v \in Workers : v # w => pc'[v] = pc[v] /\ msg'[v] = msg[v],
           pc[w] \in Holding /\ msg[w].id = i => i \in Known'
    PROVE  i \in Known'
<1>1. PICK v \in Workers : pc[v] \in Holding /\ msg[v].id = i
  BY DEF HeldIds
<1>2. CASE v = w  BY <1>1, <1>2
<1>3. CASE v # w
  <2>1. pc'[v] \in Holding /\ msg'[v].id = i
    BY <1>1, <1>3
  <2> QED BY <2>1 DEF Known, HeldIds
<1> QED BY <1>2, <1>3

LEMMA ConsumeKeepsKnown ==
    ASSUME NEW w \in Workers, IInv, ConsumeOnce(w), NEW i \in Known
    PROVE  i \in Known'
<1> USE DEF Holding, Located, Removed
<1>1. CASE Reserve(w)
  <2>1. waiting \in Seq(Entry) /\ waiting # <<>> /\ waiting' = Tail(waiting)
    BY <1>1 DEF Reserve, IInv, TypeOK
  <2>2. ToSet(waiting) = ToSet(waiting') \union {Head(waiting)} /\ Head(waiting) \in Entry
    BY <2>1, TakeHead
  <2>3. /\ pc'[w] = "handling" /\ msg'[w].id = Head(waiting).id
        /\ pc[w] = "idle"
        /\ \A v \in Workers : v # w => pc'[v] = pc[v] /\ msg'[v] = msg[v]
    BY <1>1, <2>2, DeliveredEntry DEF Reserve, IInv, TypeOK
  <2>4. WaitingIds \subseteq WaitingIds' \union HeldIds'
    BY <2>2, <2>3 DEF WaitingIds, IdsIn, HeldIds
  <2>5. /\ ProcessingIds \subseteq ProcessingIds' /\ DlqIds' = DlqIds /\ acked' = acked
    BY <1>1 DEF Reserve, ProcessingIds, DlqIds, IdsIn
  <2>6. CASE i \in HeldIds  BY <2>3, <2>6, HeldKept
  <2> QED BY <2>4, <2>5, <2>6 DEF Known
<1>2. CASE HandlerReturns(w) \/ HandlerRaises(w)
  <2>1. /\ WaitingIds' = WaitingIds /\ ProcessingIds' = ProcessingIds /\ DlqIds' = DlqIds
        /\ acked' = acked /\ msg' = msg
    BY <1>2 DEF HandlerReturns, HandlerRaises, redisVars, historyVars, WaitingIds,
                ProcessingIds, DlqIds
  <2>2. pc'[w] \in Holding /\ \A v \in Workers : v # w => pc'[v] = pc[v]
    BY <1>2 DEF HandlerReturns, HandlerRaises, IInv, TypeOK
  <2>3. HeldIds \subseteq HeldIds'
    BY <2>1, <2>2 DEF HeldIds
  <2> QED BY <2>1, <2>3 DEF Known
<1>3. CASE Ack(w)
  <2>1. Lrem(w) /\ pc[w] \in Located
    BY <1>3 DEF Ack
  <2>2. ProcessingIds' = ProcessingIds \ {msg[w].id}
    BY <2>1, LremRemoves
  <2>3. /\ WaitingIds' = WaitingIds /\ DlqIds' = DlqIds
        /\ acked' = acked \union {msg[w].id}
        /\ \A v \in Workers : v # w => pc'[v] = pc[v] /\ msg'[v] = msg[v]
    BY <1>3 DEF Ack, Settled, WaitingIds, DlqIds, IInv, TypeOK
  <2>4. CASE i \in HeldIds  BY <2>3, <2>4, HeldKept DEF Known
  <2> QED BY <2>2, <2>3, <2>4 DEF Known
<1>4. CASE RequeueLrem(w) \/ DeadLetterLrem(w)
  <2>1. Lrem(w) /\ pc[w] \in Located
    BY <1>4 DEF RequeueLrem, DeadLetterLrem
  <2>2. ProcessingIds' = ProcessingIds \ {msg[w].id}
    BY <2>1, LremRemoves
  <2>3. /\ WaitingIds' = WaitingIds /\ DlqIds' = DlqIds /\ acked' = acked /\ msg' = msg
        /\ pc'[w] \in Holding /\ \A v \in Workers : v # w => pc'[v] = pc[v]
    BY <1>4 DEF RequeueLrem, DeadLetterLrem, WaitingIds, DlqIds, historyVars, IInv, TypeOK
  <2>4. HeldIds \subseteq HeldIds' /\ msg[w].id \in HeldIds'
    BY <2>1, <2>3 DEF HeldIds
  <2> QED BY <2>2, <2>3, <2>4 DEF Known
<1>5. CASE RequeueRpush(w) \/ DeadLetterRpush(w)
  <2>1. /\ pc[w] \in Removed /\ msg[w] \in Entry
        /\ waiting \in Seq(Entry) /\ dlq \in Seq(Entry)
    BY <1>5 DEF RequeueRpush, DeadLetterRpush, IInv, TypeOK
  <2>2. ToSet(waiting) \subseteq ToSet(waiting') /\ ToSet(dlq) \subseteq ToSet(dlq')
        /\ msg[w] \in ToSet(waiting') \union ToSet(dlq')
    <3>1. CASE RequeueRpush(w)
      <4>1. waiting' = Append(waiting, msg[w]) /\ dlq' = dlq
        BY <3>1 DEF RequeueRpush
      <4> QED BY <2>1, <4>1, AppendEntry
    <3>2. CASE DeadLetterRpush(w)
      <4>1. dlq' = Append(dlq, msg[w]) /\ waiting' = waiting
        BY <3>2 DEF DeadLetterRpush
      <4> QED BY <2>1, <4>1, AppendEntry
    <3> QED BY <1>5, <3>1, <3>2
  <2>3. /\ WaitingIds \subseteq WaitingIds' /\ DlqIds \subseteq DlqIds'
        /\ msg[w].id \in WaitingIds' \union DlqIds'
    BY <2>2 DEF WaitingIds, DlqIds, IdsIn
  <2>4. /\ ProcessingIds' = ProcessingIds /\ acked' = acked
        /\ \A v \in Workers : v # w => pc'[v] = pc[v] /\ msg'[v] = msg[v]
    BY <1>5 DEF RequeueRpush, DeadLetterRpush, Settled, ProcessingIds, historyVars, IInv, TypeOK
  <2>5. CASE i \in HeldIds  BY <2>3, <2>4, <2>5, HeldKept DEF Known
  <2> QED BY <2>3, <2>4, <2>5 DEF Known
<1> QED BY <1>1, <1>2, <1>3, <1>4, <1>5 DEF ConsumeOnce

LEMMA DeathLoses ==
    ASSUME NEW w \in Workers, IInv, Die(w) \/ Restart(w), NEW i \in Known, i \notin Known'
    PROVE  pc[w] \in Removed /\ msg[w].id = i /\ pc'[w] = "down"
<1> USE DEF Holding, Located, Removed
<1>1. /\ WaitingIds' = WaitingIds /\ ProcessingIds' = ProcessingIds /\ DlqIds' = DlqIds
      /\ acked' = acked
      /\ \A v \in Workers : v # w => pc'[v] = pc[v] /\ msg'[v] = msg[v]
  BY DEF Die, Restart, redisVars, historyVars, WaitingIds, ProcessingIds, DlqIds, IInv, TypeOK
<1>2. i \in HeldIds /\ i \notin ProcessingIds
  BY <1>1 DEF Known
<1>3. pc[w] \in Holding /\ msg[w].id = i
  BY <1>1, <1>2, HeldKept
<1>4. pc[w] \notin Located
  <2> SUFFICES ASSUME pc[w] \in Located PROVE FALSE
    OBVIOUS
  <2>1. raw[w] \in processing /\ msg[w] = Delivered(raw[w]) /\ raw[w] \in Entry
    BY DEF IInv, LremMatches, TypeOK
  <2>2. msg[w].id \in ProcessingIds
    BY <2>1, DeliveredEntry DEF ProcessingIds, IdsIn
  <2> QED BY <1>2, <1>3, <2>2
<1>5. pc'[w] = "down"
  BY <1>3 DEF Die, Restart, IInv, TypeOK
<1> QED BY <1>3, <1>4, <1>5

LEMMA NextLossStep == IInv /\ [Next]_vars => [LossStep]_vars
<1> SUFFICES ASSUME IInv, Next, NEW i \in Ids, Lost(i)', ~Lost(i)
             PROVE  \E w \in Workers :
                       pc[w] \in Removed /\ msg[w].id = i /\ pc'[w] = "down"
  BY DEF LossStep
<1>1. i \in published' /\ i \notin Known'
  BY DEF Lost, Known
<1>2. i \notin published \/ i \in Known
  BY DEF Lost, Known
<1>3. ASSUME NEW j \in Ids, Publish(j) PROVE FALSE
  <2> DEFINE e == [id |-> j, attempts |-> 0]
  <2>1. e \in Entry /\ e.id = j /\ waiting \in Seq(Entry) /\ waiting' = Append(waiting, e)
    BY <1>3 DEF Entry, Publish, IInv, TypeOK
  <2> HIDE DEF e
  <2>2. ToSet(waiting') = ToSet(waiting) \union {e}
    BY <2>1, AppendEntry
  <2>3. WaitingIds' = WaitingIds \union {j}
    BY <2>1, <2>2 DEF WaitingIds, IdsIn
  <2>4. /\ ProcessingIds' = ProcessingIds /\ DlqIds' = DlqIds /\ HeldIds' = HeldIds
        /\ acked' = acked /\ published' = published \union {j}
    BY <1>3 DEF Publish, workerVars, ProcessingIds, DlqIds, HeldIds
  <2> QED BY <1>1, <1>2, <2>3, <2>4 DEF Known
<1>4. ASSUME NEW w \in Workers, ConsumeOnce(w) PROVE FALSE
  <2>1. published' = published
    BY <1>4 DEF ConsumeOnce, Reserve, HandlerReturns, HandlerRaises, Ack, RequeueLrem,
                RequeueRpush, DeadLetterLrem, DeadLetterRpush, historyVars
  <2> QED BY <1>1, <1>2, <1>4, <2>1, ConsumeKeepsKnown
<1>5. ASSUME NEW w \in Workers, Die(w) \/ Restart(w)
      PROVE  pc[w] \in Removed /\ msg[w].id = i /\ pc'[w] = "down"
  <2>1. published' = published
    BY <1>5 DEF Die, Restart, historyVars
  <2> QED BY <1>1, <1>2, <1>5, <2>1, DeathLoses
<1> QED BY <1>3, <1>4, <1>5 DEF Next

(* A message disappears only when its worker dies between the LREM and the *)
(* RPUSH of requeue or dead_letter.                                        *)
THEOREM LossNeedsADeathInTheWindow == Spec => LossOnlyInSettleWindow
BY Invariance, NextLossStep, PTL DEF Spec, LossOnlyInSettleWindow

-----------------------------------------------------------------------------
(* Refinement: each step of the Redis protocol is a step of the port's     *)
(* contract or changes nothing there.                                      *)

(* When one worker lets go of its message, the others keep theirs.         *)
LEMMA LetGo ==
    ASSUME NEW w \in Workers, IInv, pc[w] \in Holding, pc'[w] \notin Holding,
           \A v \in Workers : v # w => pc'[v] = pc[v] /\ msg'[v] = msg[v]
    PROVE  msg[w] \in HeldMessages /\ HeldMessages' = HeldMessages \ {msg[w]}
<1>1. \A v \in Workers : v # w /\ pc[v] \in Holding => msg[v] # msg[w]
  BY DEF IInv, OneCopy
<1> QED BY <1>1 DEF HeldMessages

LEMMA SameHeld ==
    ASSUME \A v \in Workers : pc'[v] \in Holding <=> pc[v] \in Holding,
           \A v \in Workers : pc[v] \in Holding => msg'[v] = msg[v]
    PROVE  HeldMessages' = HeldMessages
BY DEF HeldMessages

LEMMA PortInit == Init => Port!QueueInit
BY DEF Init, Port!QueueInit, HeldMessages, Holding, Located, Removed

LEMMA PortConsume ==
    ASSUME NEW w \in Workers, IInv, ConsumeOnce(w)
    PROVE  Port!QueueNext \/ UNCHANGED Port!queueVars
<1> USE DEF Holding, Located, Removed
<1>1. CASE Reserve(w)
  <2>1. /\ pc[w] = "idle" /\ pc'[w] = "handling" /\ waiting # <<>>
        /\ msg'[w] = Delivered(Head(waiting))
        /\ waiting' = Tail(waiting) /\ published' = published /\ dlq' = dlq
        /\ \A v \in Workers : v # w => pc'[v] = pc[v] /\ msg'[v] = msg[v]
    BY <1>1 DEF Reserve, IInv, TypeOK
  <2>2. HeldMessages' = HeldMessages \union {Delivered(Head(waiting))}
    BY <2>1 DEF HeldMessages
  <2>3. Port!Delivered(Head(waiting)) = Delivered(Head(waiting))
    BY DEF Delivered, Port!Delivered
  <2>4. Port!Reserve
    BY <2>1, <2>2, <2>3 DEF Port!Reserve
  <2> QED BY <2>4 DEF Port!QueueNext
<1>2. CASE HandlerReturns(w) \/ HandlerRaises(w) \/ RequeueLrem(w) \/ DeadLetterLrem(w)
  <2>1. /\ waiting' = waiting /\ published' = published /\ dlq' = dlq /\ msg' = msg
    BY <1>2 DEF HandlerReturns, HandlerRaises, RequeueLrem, DeadLetterLrem, redisVars, historyVars
  <2>2. /\ pc[w] \in Holding /\ pc'[w] \in Holding
        /\ \A v \in Workers : v # w => pc'[v] = pc[v]
    BY <1>2 DEF HandlerReturns, HandlerRaises, RequeueLrem, DeadLetterLrem, IInv, TypeOK
  <2>3. HeldMessages' = HeldMessages
    BY <2>1, <2>2, SameHeld
  <2> QED BY <2>1, <2>3 DEF Port!queueVars
<1>3. CASE Ack(w) \/ RequeueRpush(w) \/ DeadLetterRpush(w)
  <2>1. /\ pc[w] \in Holding /\ pc'[w] = "idle" /\ published' = published
        /\ \A v \in Workers : v # w => pc'[v] = pc[v] /\ msg'[v] = msg[v]
    BY <1>3 DEF Ack, RequeueRpush, DeadLetterRpush, Settled, historyVars, IInv, TypeOK
  <2>2. msg[w] \in HeldMessages /\ HeldMessages' = HeldMessages \ {msg[w]}
    BY <2>1, LetGo
  <2>3. msg[w].attempts \in Nat
    BY <2>1 DEF IInv, TypeOK, Entry
  <2>4. CASE Ack(w)
    <3>1. Port!Ack(msg[w])
      BY <2>1, <2>2, <2>4 DEF Port!Ack, Ack
    <3> QED BY <2>2, <3>1 DEF Port!QueueNext
  <2>5. CASE RequeueRpush(w)
    <3>1. msg[w].attempts <= MaxRetries
      BY <2>5 DEF RequeueRpush, IInv, Bookkeeping
    <3>2. Port!Requeue(msg[w])
      BY <2>1, <2>2, <2>5, <3>1 DEF Port!Requeue, Port!RetryAllowed, RequeueRpush
    <3> QED BY <2>2, <3>2 DEF Port!QueueNext
  <2>6. CASE DeadLetterRpush(w)
    <3>1. ~(msg[w].attempts <= MaxRetries)
      BY <2>3, <2>6, RetriesAssumption DEF DeadLetterRpush, IInv, Bookkeeping
    <3>2. Port!DeadLetter(msg[w])
      BY <2>1, <2>2, <2>6, <3>1 DEF Port!DeadLetter, Port!RetryAllowed, DeadLetterRpush
    <3> QED BY <2>2, <3>2 DEF Port!QueueNext
  <2> QED BY <1>3, <2>4, <2>5, <2>6
<1> QED BY <1>1, <1>2, <1>3 DEF ConsumeOnce

LEMMA PortDeath ==
    ASSUME NEW w \in Workers, IInv, Die(w) \/ Restart(w)
    PROVE  Port!QueueNext \/ UNCHANGED Port!queueVars
<1> USE DEF Holding, Located, Removed
<1>1. /\ waiting' = waiting /\ published' = published /\ dlq' = dlq
      /\ pc'[w] \notin Holding
      /\ \A v \in Workers : v # w => pc'[v] = pc[v] /\ msg'[v] = msg[v]
  BY DEF Die, Restart, redisVars, historyVars, IInv, TypeOK
<1>2. CASE pc[w] \in Holding
  <2>1. msg[w] \in HeldMessages /\ HeldMessages' = HeldMessages \ {msg[w]}
    BY <1>1, <1>2, LetGo
  <2>2. Port!Abandon(msg[w])
    BY <1>1, <2>1 DEF Port!Abandon
  <2> QED BY <2>1, <2>2 DEF Port!QueueNext
<1>3. CASE pc[w] \notin Holding
  <2>1. HeldMessages' = HeldMessages
    BY <1>1, <1>3, SameHeld
  <2> QED BY <1>1, <2>1 DEF Port!queueVars
<1> QED BY <1>2, <1>3

LEMMA PortStep == IInv /\ [Next]_vars => [Port!QueueNext]_(Port!queueVars)
<1> SUFFICES ASSUME IInv, [Next]_vars
             PROVE  Port!QueueNext \/ UNCHANGED Port!queueVars
  OBVIOUS
<1>1. ASSUME NEW i \in Ids, Publish(i) PROVE Port!QueueNext
  <2>1. HeldMessages' = HeldMessages
    BY <1>1 DEF Publish, workerVars, HeldMessages
  <2>2. Port!Publish(i)
    BY <1>1, <2>1 DEF Publish, Port!Publish
  <2> QED BY <2>2 DEF Port!QueueNext
<1>2. CASE UNCHANGED vars
  BY <1>2 DEF vars, redisVars, workerVars, historyVars, Port!queueVars, HeldMessages
<1> QED BY <1>1, <1>2, PortConsume, PortDeath DEF Next

(* The Redis protocol, deaths included, implements the port's contract.    *)
THEOREM RedisImplementsPort == Spec => ImplementsPort
BY Invariance, PortInit, PortStep, PTL DEF Spec, ImplementsPort, Port!QueueSpec
=============================================================================
