---------------------------- MODULE MessageQueue ----------------------------
(***************************************************************************)
(* The contract of the MessageQueue port (core/queue/base.py), as the      *)
(* in-memory backend (core/queue/memory.py) implements it: every settling  *)
(* operation is one step, so a message that was published is always in     *)
(* exactly one place, waiting, in flight, dead-lettered or acknowledged.   *)
(* consume_once decides between Requeue and DeadLetter.                     *)
(*                                                                         *)
(* Messages carry a fresh uuid4; here an element of Ids, used once.  The   *)
(* payload is a function of the id and left to the modules that use one.   *)
(***************************************************************************)
EXTENDS Naturals, Sequences

CONSTANTS Ids,         \* message ids that may be issued
          MaxRetries   \* settings.QUEUE_MAX_RETRIES, a natural number

VARIABLES published,   \* ids issued so far
          waiting,     \* the FIFO, as Message records
          inflight,    \* messages delivered and not settled
          dead         \* the dead-letter list

queueVars == <<published, waiting, inflight, dead>>

Message == [id : Ids, attempts : Nat]

\* What reserve hands out: the stored message with one attempt more.
Delivered(m) == [m EXCEPT !.attempts = @ + 1]

\* consume_once: a failed delivery is retried while attempts <= max_retries.
RetryAllowed(m) == m.attempts <= MaxRetries

QueueInit ==
    /\ published = {}
    /\ waiting = <<>>
    /\ inflight = {}
    /\ dead = <<>>

Publish(id) ==
    /\ id \in Ids \ published
    /\ published' = published \union {id}
    /\ waiting' = Append(waiting, [id |-> id, attempts |-> 0])
    /\ UNCHANGED <<inflight, dead>>

\* Defined only when a message is waiting; reserve returns None otherwise.
Reserve ==
    /\ waiting # <<>>
    /\ waiting' = Tail(waiting)
    /\ inflight' = inflight \union {Delivered(Head(waiting))}
    /\ UNCHANGED <<published, dead>>

Ack(m) ==
    /\ m \in inflight
    /\ inflight' = inflight \ {m}
    /\ UNCHANGED <<published, waiting, dead>>

Requeue(m) ==
    /\ m \in inflight
    /\ RetryAllowed(m)
    /\ inflight' = inflight \ {m}
    /\ waiting' = Append(waiting, m)
    /\ UNCHANGED <<published, dead>>

DeadLetter(m) ==
    /\ m \in inflight
    /\ ~RetryAllowed(m)
    /\ inflight' = inflight \ {m}
    /\ dead' = Append(dead, m)
    /\ UNCHANGED <<published, waiting>>

\* The consumer died with m in flight.  Nothing in the repository takes a
\* message back from a dead consumer, so m leaves the queue for good.
Abandon(m) ==
    /\ m \in inflight
    /\ inflight' = inflight \ {m}
    /\ UNCHANGED <<published, waiting, dead>>

QueueNext ==
    \/ \E id \in Ids : Publish(id)
    \/ Reserve
    \/ \E m \in inflight : Ack(m) \/ Requeue(m) \/ DeadLetter(m) \/ Abandon(m)

QueueSpec == QueueInit /\ [][QueueNext]_queueVars
=============================================================================
