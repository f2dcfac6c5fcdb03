---------------------------- MODULE ScrapeEngine ----------------------------
(***************************************************************************)
(* Concurrent calls of ScrapeEngine.scrape for one domain, through the     *)
(* CircuitBreaker, the RateLimiter and the proxy check.  Breaker and       *)
(* limiter keep separate state for each domain, so one domain is enough.   *)
(*                                                                         *)
(* The calls are coroutines of one event loop (batch_scrape gathers them): *)
(* a step is never longer than what runs between two awaits (asking for a  *)
(* free lock does not suspend, so some steps are shorter), and the clock   *)
(* may advance between any two steps.  Time is counted in ticks and starts *)
(* at 1, as a pause of 0.0 stands for none.                                *)
(***************************************************************************)
EXTENDS Naturals, Sequences, FiniteSets

CONSTANTS Tasks,      \* calls of scrape
          Threshold,  \* CircuitBreaker threshold
          Window,     \* CircuitBreaker window, in ticks
          Pause,      \* CircuitBreaker pause, in ticks
          Interval,   \* RateLimiter interval of the domain, in ticks
          MaxTime     \* bound: last tick

ASSUME ParametersAssumption ==
    {Threshold, Window, Pause, Interval, MaxTime} \subseteq Nat

VARIABLES
    now,          \* the monotonic clock
    pc,           \* where each call stands
    failures,     \* breaker: the recorded failures, as [by, at]
    pausedUntil,  \* breaker: end of the pause, 0 when none
    lockQueue,    \* limiter: the asyncio.Lock, holder first, waiters in order
    wakeAt,       \* limiter: when the sleep of each call is over
    nextAllowed,  \* limiter: start of the next free slot
    \* history
    entered,      \* the calls that passed the breaker, in order
    slots,        \* the slots granted, in order, as [by, at]
    recorded      \* the outcomes reported to the breaker, as [by, at, ok]

breakerVars == <<failures, pausedUntil>>
limiterVars == <<lockQueue, wakeAt, nextAllowed>>
historyVars == <<entered, slots, recorded>>
vars == <<now, pc, breakerVars, limiterVars, historyVars>>

Init ==
    /\ now = 1
    /\ pc = [t \in Tasks |-> "new"]
    /\ failures = {} /\ pausedUntil = 0
    /\ lockQueue = <<>> /\ nextAllowed = 0
    /\ wakeAt = [t \in Tasks |-> 0]
    /\ entered = <<>> /\ slots = <<>> /\ recorded = <<>>

Goto(t, place) == pc' = [pc EXCEPT ![t] = place]

-----------------------------------------------------------------------------
(* allow(domain): an elapsed pause is cleared on the way.                  *)
Allowed == pausedUntil = 0 \/ now >= pausedUntil

Refuse(t) ==
    /\ pc[t] = "new" /\ ~Allowed
    /\ Goto(t, "refused")
    /\ UNCHANGED <<now, breakerVars, limiterVars, historyVars>>

(* Seeded defect: a pause ends one tick early.                             *)
AdmitEarly(t) ==
    /\ pc[t] = "new" /\ pausedUntil <= now + 1
    /\ pausedUntil' = 0
    /\ lockQueue' = Append(lockQueue, t)
    /\ entered' = Append(entered, t)
    /\ Goto(t, "queued")
    /\ UNCHANGED <<now, failures, wakeAt, nextAllowed, slots, recorded>>

(* Seeded defect: a waiter that comes last is served first.                *)
AdmitAtHead(t) ==
    /\ pc[t] = "new" /\ Allowed
    /\ pausedUntil' = 0
    /\ lockQueue' = IF Len(lockQueue) < 2 THEN Append(lockQueue, t)
                    ELSE <<Head(lockQueue), t>> \o Tail(lockQueue)
    /\ entered' = Append(entered, t)
    /\ Goto(t, "queued")
    /\ UNCHANGED <<now, failures, wakeAt, nextAllowed, slots, recorded>>

\* The gate and the request for the lock, with no await in between.
Admit(t) ==
    /\ pc[t] = "new" /\ Allowed
    /\ pausedUntil' = 0
    /\ lockQueue' = Append(lockQueue, t)
    /\ entered' = Append(entered, t)
    /\ Goto(t, "queued")
    /\ UNCHANGED <<now, failures, wakeAt, nextAllowed, slots, recorded>>

-----------------------------------------------------------------------------
(* Seeded defect: the sleep ends after a delay, taken for an instant, that *)
(* is negative when the slot is already free.                              *)
SleepUnclamped(t) ==
    /\ pc[t] = "queued" /\ lockQueue # <<>> /\ Head(lockQueue) = t
    /\ wakeAt' = [wakeAt EXCEPT ![t] = nextAllowed - now]
    /\ Goto(t, "sleeping")
    /\ UNCHANGED <<now, breakerVars, lockQueue, nextAllowed, historyVars>>

(* acquire(domain), holding the lock: compute the wait, sleep it, reserve  *)
(* the next slot from the clock after the sleep.                           *)
Sleep(t) ==
    /\ pc[t] = "queued" /\ lockQueue # <<>> /\ Head(lockQueue) = t
    /\ wakeAt' = [wakeAt EXCEPT ![t] = IF nextAllowed > now THEN nextAllowed ELSE now]
    /\ Goto(t, "sleeping")
    /\ UNCHANGED <<now, breakerVars, lockQueue, nextAllowed, historyVars>>

(* Seeded defect: the next slot counts from the planned end of the sleep.  *)
WakePlanned(t) ==
    /\ pc[t] = "sleeping" /\ now >= wakeAt[t]
    /\ nextAllowed' = wakeAt[t] + Interval
    /\ lockQueue' = Tail(lockQueue)
    /\ slots' = Append(slots, [by |-> t, at |-> now])
    /\ Goto(t, "proxy")
    /\ UNCHANGED <<now, breakerVars, wakeAt, entered, recorded>>

Wake(t) ==
    /\ pc[t] = "sleeping" /\ now >= wakeAt[t]
    /\ nextAllowed' = now + Interval
    /\ lockQueue' = Tail(lockQueue)
    /\ slots' = Append(slots, [by |-> t, at |-> now])
    /\ Goto(t, "proxy")
    /\ UNCHANGED <<now, breakerVars, wakeAt, entered, recorded>>

-----------------------------------------------------------------------------
\* get_healthy_proxy has answered: the request goes out.
Dispatch(t) ==
    /\ pc[t] = "proxy"
    /\ Goto(t, "fetching")
    /\ UNCHANGED <<now, breakerVars, limiterVars, historyVars>>

RecordSuccess(t) ==
    /\ pc[t] = "fetching"
    /\ failures' = {} /\ pausedUntil' = 0
    /\ recorded' = Append(recorded, [by |-> t, at |-> now, ok |-> TRUE])
    /\ Goto(t, "finished")
    /\ UNCHANGED <<now, limiterVars, entered, slots>>

InWindow(fs) == {f \in fs : f.at + Window > now}

(* Seeded defect: failures are not dropped when the window has passed.     *)
RecordFailureKeepsAll(t) ==
    /\ pc[t] = "fetching"
    /\ failures' = failures \union {[by |-> t, at |-> now]}
    /\ pausedUntil' = IF Cardinality(failures') >= Threshold THEN now + Pause ELSE pausedUntil
    /\ recorded' = Append(recorded, [by |-> t, at |-> now, ok |-> FALSE])
    /\ Goto(t, "finished")
    /\ UNCHANGED <<now, limiterVars, entered, slots>>

\* A typed exception, or a result that is not a success.
RecordFailure(t) ==
    /\ pc[t] = "fetching"
    /\ failures' = InWindow(failures \union {[by |-> t, at |-> now]})
    /\ pausedUntil' = IF Cardinality(failures') >= Threshold THEN now + Pause ELSE pausedUntil
    /\ recorded' = Append(recorded, [by |-> t, at |-> now, ok |-> FALSE])
    /\ Goto(t, "finished")
    /\ UNCHANGED <<now, limiterVars, entered, slots>>

\* An exception scrape does not map: the breaker learns nothing of it.
Escape(t) ==
    /\ pc[t] = "fetching"
    /\ Goto(t, "raised")
    /\ UNCHANGED <<now, breakerVars, limiterVars, historyVars>>

Tick ==
    /\ now < MaxTime
    /\ now' = now + 1
    /\ UNCHANGED <<pc, breakerVars, limiterVars, historyVars>>

-----------------------------------------------------------------------------
Next ==
    \/ Tick
    \/ \E t \in Tasks :
          \/ Refuse(t) \/ Admit(t) \/ Sleep(t) \/ Wake(t) \/ Dispatch(t)
          \/ RecordSuccess(t) \/ RecordFailure(t) \/ Escape(t)

Spec == Init /\ [][Next]_vars

-----------------------------------------------------------------------------
(* The trip rule read off the outcomes alone: some failure, with no        *)
(* success after it, was the Threshold-th in its window since the last     *)
(* success, and its pause is not over.                                     *)
Outcomes == 1..Len(recorded)
SuccessIn(i, j) == \E k \in i..j : recorded[k].ok
CountedAt(i) == {k \in 1..i : ~SuccessIn(k, i) /\ recorded[k].at + Window > recorded[i].at}
PolicyPauses ==
    \E i \in Outcomes :
        /\ ~SuccessIn(i, Len(recorded))
        /\ Cardinality(CountedAt(i)) >= Threshold
        /\ now < recorded[i].at + Pause

-----------------------------------------------------------------------------
(* Every variable has its type: no instant is before the clock's start.    *)
TypeOK ==
    /\ now \in Nat
    /\ pc \in [Tasks -> {"new", "refused", "queued", "sleeping", "proxy",
                         "fetching", "finished", "raised"}]
    /\ failures \in SUBSET [by : Tasks, at : Nat]
    /\ pausedUntil \in Nat /\ nextAllowed \in Nat
    /\ lockQueue \in Seq(Tasks)
    /\ wakeAt \in [Tasks -> Nat]
    /\ entered \in Seq(Tasks)
    /\ slots \in Seq([by : Tasks, at : Nat])
    /\ recorded \in Seq([by : Tasks, at : Nat, ok : BOOLEAN])

(* Two slots of the domain, whoever got them and however late the sleepers *)
(* woke up, are never closer than the interval.                            *)
SlotsSpaced ==
    \A i, j \in 1..Len(slots) : i < j => slots[i].at + Interval <= slots[j].at

(* acquire is FIFO per domain: slots are granted in the order in which the *)
(* calls passed the breaker.                                               *)
SlotsInOrder ==
    /\ Len(slots) <= Len(entered)
    /\ \A i \in 1..Len(slots) : slots[i].by = entered[i]

(* The gate refuses a call exactly when the trip rule, applied to all the  *)
(* outcomes reported so far by all the calls, says that the domain pauses. *)
GateStep ==
    \A t \in Tasks : pc[t] = "new" /\ pc'[t] # "new" =>
        (pc'[t] = "refused" <=> PolicyPauses)
GateFollowsPolicy == [][GateStep]_vars

(* circuit_breaker.py: "it pauses a domain after repeated failures so the  *)
(* engine stops hammering a target that is blocking us".  Refuted: calls   *)
(* that passed the gate before the trip and wait for a slot still go out.  *)
NoRequestWhilePaused ==
    [][\A t \in Tasks : pc[t] = "proxy" /\ pc'[t] = "fetching" => ~PolicyPauses]_vars
=============================================================================
