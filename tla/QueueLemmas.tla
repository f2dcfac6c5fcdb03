---------------------------- MODULE QueueLemmas -----------------------------
(***************************************************************************)
(* What the proofs about the pipelines share: lemmas about natural         *)
(* numbers, about sequences, and about a message queue and its consumers,  *)
(* stated over values so that they serve every queue.                      *)
(***************************************************************************)
EXTENDS Naturals, SequenceTheorems, WellFoundedInduction, TLAPS

(* A set of natural numbers with a member has a least one.                 *)
LEMMA LeastExists ==
    ASSUME NEW S, S \subseteq Nat, S # {}
    PROVE  \E x \in S : \A y \in S : x <= y
<1> DEFINE R == OpToRel(<, Nat)
<1>1. \A x, y \in Nat : x < y => <<x, y>> \in R
  BY DEF OpToRel
<1>2. \E x \in S : \A y \in S : ~ (<<y, x>> \in R)
  <2> HIDE DEF R
  <2>1. IsWellFoundedOn(R, Nat)
    BY NatLessThanWellFounded DEF R
  <2> QED
    BY <2>1, WFMin
<1> HIDE DEF R
<1>3. \A x, y \in S : ~ (<<y, x>> \in R) => x <= y
  BY <1>1
<1> QED
  BY <1>2, <1>3

-----------------------------------------------------------------------------
(* The messages of a queue of ids I.                                       *)
Messages(I) == [id : I, attempts : Nat]

-----------------------------------------------------------------------------
(* One queue and its consumers Ws, of which those in A hold msg: what has  *)
(* been published is in one place only, waiting or with one consumer.      *)

QueueOK(I, pub, w, inf, Ws, A, msg) ==
    /\ pub \subseteq I /\ w \in Seq(Messages(I)) /\ inf \subseteq Messages(I)
    /\ A \subseteq Ws /\ DOMAIN msg = Ws
    /\ \A k \in 1 .. Len(w) : w[k].id \in pub
    /\ \A s \in A : msg[s] \in inf /\ msg[s].id \in pub
    /\ \A k, l \in 1 .. Len(w) : w[k].id = w[l].id => k = l
    /\ \A k \in 1 .. Len(w), s \in A : w[k].id # msg[s].id
    /\ \A s, u \in A : msg[s].id = msg[u].id => s = u

(* Appending keeps what is there and adds one entry; a list without its    *)
(* head keeps the others.                                                  *)
LEMMA Appended ==
    ASSUME NEW S, NEW w \in Seq(S), NEW m \in S
    PROVE  /\ Append(w, m) \in Seq(S) /\ Len(w) \in Nat /\ Len(Append(w, m)) = Len(w) + 1
           /\ \A k \in 1 .. Len(w) : k \in 1 .. Len(w) + 1 /\ Append(w, m)[k] = w[k]
           /\ Len(w) + 1 \in 1 .. Len(w) + 1 /\ Append(w, m)[Len(w) + 1] = m
           /\ \A k \in 1 .. Len(w) + 1 : k \in 1 .. Len(w) \/ k = Len(w) + 1
<1>1. Len(w) \in Nat
  BY LenProperties
<1>2. /\ Append(w, m) \in Seq(S) /\ Len(Append(w, m)) = Len(w) + 1
      /\ (\A k \in 1 .. Len(w) : Append(w, m)[k] = w[k]) /\ Append(w, m)[Len(w) + 1] = m
  BY AppendProperties
<1> QED
  BY <1>1, <1>2

LEMMA Beheaded ==
    ASSUME NEW S, NEW w \in Seq(S), w # <<>>
    PROVE  /\ Head(w) \in S /\ Tail(w) \in Seq(S) /\ Head(w) = w[1]
           /\ Len(w) \in Nat /\ 1 \in 1 .. Len(w) /\ Len(Tail(w)) = Len(w) - 1
           /\ \A k \in 1 .. Len(w) - 1 : k + 1 \in 1 .. Len(w) /\ k + 1 # 1 /\ Tail(w)[k] = w[k + 1]
           /\ \A k \in 1 .. Len(w) : k = 1 \/ (k - 1 \in 1 .. Len(w) - 1 /\ Tail(w)[k - 1] = w[k])
<1>1. Len(w) \in Nat /\ Len(w) # 0
  BY LenProperties, EmptySeq
<1>2. /\ Head(w) \in S /\ Tail(w) \in Seq(S) /\ Len(Tail(w)) = Len(w) - 1
      /\ \A k \in 1 .. Len(Tail(w)) : Tail(w)[k] = w[k + 1]
  BY HeadTailProperties
<1>3. Head(w) = w[1]
  OBVIOUS
<1> QED
  BY <1>1, <1>2, <1>3

LEMMA PublishOK ==
    ASSUME NEW I, NEW pub, NEW w, NEW inf, NEW Ws, NEW A, NEW msg,
           QueueOK(I, pub, w, inf, Ws, A, msg), NEW i \in I, i \notin pub
    PROVE  QueueOK(I, pub \union {i}, Append(w, [id |-> i, attempts |-> 0]), inf, Ws, A, msg)
<1> DEFINE m == [id |-> i, attempts |-> 0]
<1>1. m \in Messages(I) /\ m.id = i
  BY DEF Messages
<1> HIDE DEF m
<1>2. w \in Seq(Messages(I))
  BY DEF QueueOK
<1>3. /\ Append(w, m) \in Seq(Messages(I)) /\ Len(Append(w, m)) = Len(w) + 1
      /\ \A k \in 1 .. Len(w) : Append(w, m)[k] = w[k]
      /\ Append(w, m)[Len(w) + 1] = m
      /\ \A k \in 1 .. Len(w) + 1 : k \in 1 .. Len(w) \/ k = Len(w) + 1
  BY <1>1, <1>2, Appended
<1>4. QueueOK(I, pub \union {i}, Append(w, m), inf, Ws, A, msg)
  BY <1>1, <1>3 DEF QueueOK
<1> QED
  BY <1>4 DEF m

LEMMA ReserveOK ==
    ASSUME NEW I, NEW pub, NEW w, NEW inf, NEW Ws, NEW A, NEW msg,
           QueueOK(I, pub, w, inf, Ws, A, msg), w # <<>>, NEW s \in Ws \ A
    PROVE  LET m == [Head(w) EXCEPT !.attempts = @ + 1]
           IN  /\ m \in Messages(I) /\ m.id = Head(w).id /\ m.id \in pub
               /\ QueueOK(I, pub, Tail(w), inf \union {m}, Ws, A \union {s}, [msg EXCEPT ![s] = m])
<1> DEFINE m == [Head(w) EXCEPT !.attempts = @ + 1]
<1>1. /\ Head(w) \in Messages(I) /\ Tail(w) \in Seq(Messages(I)) /\ Head(w) = w[1]
      /\ Len(w) \in Nat /\ 1 \in 1 .. Len(w) /\ Len(Tail(w)) = Len(w) - 1
      /\ \A k \in 1 .. Len(w) - 1 : k + 1 \in 1 .. Len(w) /\ k + 1 # 1 /\ Tail(w)[k] = w[k + 1]
  BY Beheaded DEF QueueOK
<1>2. m \in Messages(I) /\ m.id = Head(w).id
  BY <1>1 DEF Messages
<1> HIDE DEF m
<1> DEFINE msg2 == [msg EXCEPT ![s] = m]
<1>3. DOMAIN msg2 = Ws /\ \A u \in Ws : msg2[u] = IF u = s THEN m ELSE msg[u]
  BY DEF QueueOK
<1> HIDE DEF msg2
<1>4. m.id \in pub
  BY <1>1, <1>2 DEF QueueOK
<1>5. \A k \in 1 .. Len(Tail(w)) : Tail(w)[k].id \in pub /\ Tail(w)[k].id # m.id
  BY <1>1, <1>2 DEF QueueOK
<1>6. \A k, l \in 1 .. Len(Tail(w)) : Tail(w)[k].id = Tail(w)[l].id => k = l
  <2> SUFFICES ASSUME NEW k \in 1 .. Len(w) - 1, NEW l \in 1 .. Len(w) - 1,
                      w[k + 1].id = w[l + 1].id
               PROVE  k = l
    BY <1>1
  <2>1. k + 1 = l + 1
    BY <1>1 DEF QueueOK
  <2> QED
    BY <1>1, <2>1
<1>7. \A u \in A : m.id # msg[u].id
  BY <1>1, <1>2 DEF QueueOK
<1>8. \A k \in 1 .. Len(Tail(w)), u \in A : Tail(w)[k].id # msg[u].id
  BY <1>1 DEF QueueOK
<1>9. QueueOK(I, pub, Tail(w), inf \union {m}, Ws, A \union {s}, msg2)
  BY <1>1, <1>2, <1>3, <1>4, <1>5, <1>6, <1>7, <1>8 DEF QueueOK
<1> QED
  BY <1>2, <1>4, <1>9 DEF m, msg2

LEMMA SettleOK ==
    ASSUME NEW I, NEW pub, NEW w, NEW inf, NEW Ws, NEW A, NEW msg,
           QueueOK(I, pub, w, inf, Ws, A, msg), NEW s \in A, NEW none
    PROVE  QueueOK(I, pub, w, inf \ {msg[s]}, Ws, A \ {s}, [msg EXCEPT ![s] = none])
<1> DEFINE msg2 == [msg EXCEPT ![s] = none]
<1>1. DOMAIN msg2 = Ws /\ \A u \in Ws : u # s => msg2[u] = msg[u]
  BY DEF QueueOK
<1> HIDE DEF msg2
<1>2. \A u \in A \ {s} : msg[u] # msg[s]
  BY DEF QueueOK
<1>3. QueueOK(I, pub, w, inf \ {msg[s]}, Ws, A \ {s}, msg2)
  BY <1>1, <1>2 DEF QueueOK
<1> QED
  BY <1>3 DEF msg2

LEMMA RequeueOK ==
    ASSUME NEW I, NEW pub, NEW w, NEW inf, NEW Ws, NEW A, NEW msg,
           QueueOK(I, pub, w, inf, Ws, A, msg), NEW s \in A, NEW none
    PROVE  QueueOK(I, pub, Append(w, msg[s]), inf \ {msg[s]}, Ws, A \ {s}, [msg EXCEPT ![s] = none])
<1> DEFINE msg2 == [msg EXCEPT ![s] = none]
           m == msg[s]
<1>1. DOMAIN msg2 = Ws /\ \A u \in Ws : u # s => msg2[u] = msg[u]
  BY DEF QueueOK
<1> HIDE DEF msg2
<1>2. m \in Messages(I) /\ w \in Seq(Messages(I)) /\ m.id \in pub
  BY DEF QueueOK
<1>3. \A u \in A \ {s} : msg[u].id # m.id
  BY DEF QueueOK
<1>4. \A k \in 1 .. Len(w) : w[k].id # m.id
  BY DEF QueueOK
<1> HIDE DEF m
<1>5. /\ Append(w, m) \in Seq(Messages(I)) /\ Len(Append(w, m)) = Len(w) + 1
      /\ \A k \in 1 .. Len(w) : Append(w, m)[k] = w[k]
      /\ Append(w, m)[Len(w) + 1] = m
      /\ \A k \in 1 .. Len(w) + 1 : k \in 1 .. Len(w) \/ k = Len(w) + 1
  BY <1>2, Appended
<1>6. \A u \in A \ {s} : msg[u] # m
  BY <1>3
<1>7. \A k \in 1 .. Len(w) + 1 : Append(w, m)[k].id \in pub
  BY <1>2, <1>5 DEF QueueOK
<1>8. \A k, l \in 1 .. Len(w) + 1 : Append(w, m)[k].id = Append(w, m)[l].id => k = l
  BY <1>4, <1>5 DEF QueueOK
<1>9. \A k \in 1 .. Len(w) + 1, u \in A \ {s} : Append(w, m)[k].id # msg[u].id
  BY <1>3, <1>5 DEF QueueOK
<1>10. QueueOK(I, pub, Append(w, m), inf \ {m}, Ws, A \ {s}, msg2)
  BY <1>1, <1>2, <1>5, <1>6, <1>7, <1>8, <1>9 DEF QueueOK
<1> QED
  BY <1>10 DEF msg2, m

-----------------------------------------------------------------------------
(* The ids in a list of messages.                                          *)
IdsOf(w) == {w[k].id : k \in 1 .. Len(w)}

LEMMA IdsAppended ==
    ASSUME NEW S, NEW w \in Seq(S), NEW m \in S
    PROVE  IdsOf(Append(w, m)) = IdsOf(w) \union {m.id}
<1>1. /\ Len(Append(w, m)) = Len(w) + 1 /\ \A k \in 1 .. Len(w) : Append(w, m)[k] = w[k]
      /\ \A k \in 1 .. Len(w) : k \in 1 .. Len(w) + 1
      /\ Len(w) + 1 \in 1 .. Len(w) + 1 /\ Append(w, m)[Len(w) + 1] = m
      /\ \A k \in 1 .. Len(w) + 1 : k \in 1 .. Len(w) \/ k = Len(w) + 1
  BY Appended
<1>2. ASSUME NEW i \in IdsOf(Append(w, m)) PROVE i \in IdsOf(w) \union {m.id}
  BY <1>1, <1>2 DEF IdsOf
<1>3. ASSUME NEW i \in IdsOf(w) PROVE i \in IdsOf(Append(w, m))
  <2>1. PICK k \in 1 .. Len(w) : i = w[k].id
    BY <1>3 DEF IdsOf
  <2>2. k \in 1 .. Len(Append(w, m)) /\ i = Append(w, m)[k].id
    BY <1>1, <2>1
  <2> QED
    BY <2>2 DEF IdsOf
<1>4. m.id \in IdsOf(Append(w, m))
  <2>1. Len(w) + 1 \in 1 .. Len(Append(w, m)) /\ m.id = Append(w, m)[Len(w) + 1].id
    BY <1>1
  <2> QED
    BY <2>1 DEF IdsOf
<1> QED
  BY <1>2, <1>3, <1>4

LEMMA IdsBeheaded ==
    ASSUME NEW S, NEW w \in Seq(S), w # <<>>
    PROVE  \A i \in IdsOf(w) : i = Head(w).id \/ i \in IdsOf(Tail(w))
<1>1. /\ Head(w) = w[1] /\ Len(Tail(w)) = Len(w) - 1
      /\ \A k \in 1 .. Len(w) : k = 1 \/ (k - 1 \in 1 .. Len(w) - 1 /\ Tail(w)[k - 1] = w[k])
  BY Beheaded
<1>2. SUFFICES ASSUME NEW k \in 1 .. Len(w), k # 1 PROVE w[k].id \in IdsOf(Tail(w))
  BY <1>1 DEF IdsOf
<1>3. k - 1 \in 1 .. Len(Tail(w)) /\ Tail(w)[k - 1].id = w[k].id
  BY <1>1, <1>2
<1> QED
  BY <1>3 DEF IdsOf
=============================================================================
