------------------------ MODULE ScrapeEngine_proofs ------------------------
(***************************************************************************)
(* For any number of calls, any parameters and any length of behaviour:    *)
(* the variables of ScrapeEngine keep their types, the slots of a domain   *)
(* are at least the interval apart, they are granted in the order in which *)
(* the calls passed the breaker, and its gate follows the trip rule.       *)
(*                                                                         *)
(* Spacing alone is not inductive.  What carries it is that the sleeper is *)
(* the head of the lock queue, hence alone, and that nobody else can move  *)
(* nextAllowed while it sleeps; order is carried by the equation           *)
(* entered = calls of the slots, then the lock queue.  The gate has an     *)
(* invariant of its own, at the end.                                       *)
(***************************************************************************)
EXTENDS ScrapeEngine, SequenceTheorems, FiniteSetTheorems, TLAPS

HolderSleeps ==
    \A t \in Tasks : pc[t] = "sleeping" =>
        /\ lockQueue # <<>> /\ Head(lockQueue) = t
        /\ nextAllowed <= wakeAt[t]

SlotsBehind == \A i \in 1..Len(slots) : slots[i].at + Interval <= nextAllowed

QueueFollows ==
    /\ Len(entered) = Len(slots) + Len(lockQueue)
    /\ \A i \in 1..Len(slots) : slots[i].by = entered[i]
    /\ \A k \in 1..Len(lockQueue) : lockQueue[k] = entered[Len(slots) + k]

IInv == TypeOK /\ HolderSleeps /\ SlotsBehind /\ SlotsSpaced /\ QueueFollows

LEMMA InitEstablishes == Init => IInv
BY ParametersAssumption
   DEF Init, IInv, TypeOK, HolderSleeps, SlotsBehind, SlotsSpaced, QueueFollows

(* A step that leaves the limiter alone and puts no call to sleep.         *)
LEMMA QuietStep ==
    ASSUME IInv, TypeOK',
           UNCHANGED <<lockQueue, wakeAt, nextAllowed, entered, slots>>,
           \A u \in Tasks : pc'[u] = "sleeping" => pc[u] = "sleeping"
    PROVE  IInv'
BY DEF IInv, HolderSleeps, SlotsBehind, SlotsSpaced, QueueFollows

LEMMA TickKeeps ==
    ASSUME IInv, Tick
    PROVE  IInv'
<1>1. now \in Nat /\ now' = now + 1
      /\ UNCHANGED <<pc, failures, pausedUntil, lockQueue, wakeAt, nextAllowed,
                     entered, slots, recorded>>
  BY DEF IInv, TypeOK, Tick, breakerVars, limiterVars, historyVars
<1>2. TypeOK'
  BY <1>1 DEF IInv, TypeOK
<1> QED
  BY <1>1, <1>2, QuietStep

LEMMA MovesKeep ==
    ASSUME IInv, NEW t \in Tasks, Refuse(t) \/ Dispatch(t) \/ Escape(t)
    PROVE  IInv'
<1>1. PICK place \in {"refused", "fetching", "raised"} :
        /\ pc' = [pc EXCEPT ![t] = place]
        /\ UNCHANGED <<now, failures, pausedUntil, lockQueue, wakeAt, nextAllowed,
                       entered, slots, recorded>>
  BY DEF Refuse, Dispatch, Escape, Goto, breakerVars, limiterVars, historyVars
<1>2. TypeOK'
  BY <1>1 DEF IInv, TypeOK
<1>3. \A u \in Tasks : pc'[u] = "sleeping" => pc[u] = "sleeping"
  BY <1>1 DEF IInv, TypeOK
<1> QED
  BY <1>1, <1>2, <1>3, QuietStep

LEMMA RecordKeeps ==
    ASSUME IInv, NEW t \in Tasks, RecordSuccess(t) \/ RecordFailure(t)
    PROVE  IInv'
<1>1. PICK ok \in BOOLEAN :
        /\ recorded' = Append(recorded, [by |-> t, at |-> now, ok |-> ok])
        /\ pc' = [pc EXCEPT ![t] = "finished"]
        /\ UNCHANGED <<now, lockQueue, wakeAt, nextAllowed, entered, slots>>
  BY DEF RecordSuccess, RecordFailure, Goto, limiterVars
<1>2. now \in Nat /\ Pause \in Nat
  BY ParametersAssumption DEF IInv, TypeOK
<1>3. failures' \in SUBSET [by : Tasks, at : Nat] /\ pausedUntil' \in Nat
  <2>1. CASE RecordSuccess(t)
    BY <2>1 DEF RecordSuccess
  <2>2. CASE RecordFailure(t)
    <3>1. [by |-> t, at |-> now] \in [by : Tasks, at : Nat]
      BY <1>2
    <3>2. failures' \subseteq failures \union {[by |-> t, at |-> now]}
      BY <2>2 DEF RecordFailure, InWindow
    <3>3. pausedUntil' \in {now + Pause, pausedUntil}
      BY <2>2 DEF RecordFailure
    <3> QED
      BY <3>1, <3>2, <3>3, <1>2 DEF IInv, TypeOK
  <2> QED
    BY <2>1, <2>2
<1>4. recorded' \in Seq([by : Tasks, at : Nat, ok : BOOLEAN])
  <2>1. [by |-> t, at |-> now, ok |-> ok] \in [by : Tasks, at : Nat, ok : BOOLEAN]
    BY <1>2
  <2> QED
    BY <2>1, <1>1 DEF IInv, TypeOK
<1>5. TypeOK'
  BY <1>1, <1>3, <1>4 DEF IInv, TypeOK
<1>6. \A u \in Tasks : pc'[u] = "sleeping" => pc[u] = "sleeping"
  BY <1>1 DEF IInv, TypeOK
<1> QED
  BY <1>1, <1>5, <1>6, QuietStep

LEMMA AdmitKeeps ==
    ASSUME IInv, NEW t \in Tasks, Admit(t)
    PROVE  IInv'
<1> USE ParametersAssumption DEF IInv
<1>1. /\ lockQueue' = Append(lockQueue, t) /\ entered' = Append(entered, t)
      /\ pausedUntil' = 0 /\ pc' = [pc EXCEPT ![t] = "queued"]
      /\ UNCHANGED <<now, failures, wakeAt, nextAllowed, slots, recorded>>
  BY DEF Admit, Goto
<1>3. /\ lockQueue \in Seq(Tasks) /\ entered \in Seq(Tasks)
      /\ slots \in Seq([by : Tasks, at : Nat])
  BY DEF TypeOK
<1>2. TypeOK'
  <2>1. lockQueue' \in Seq(Tasks) /\ entered' \in Seq(Tasks)
    BY <1>1, <1>3
  <2>2. pc' \in [Tasks -> {"new", "refused", "queued", "sleeping", "proxy",
                          "fetching", "finished", "raised"}]
    BY <1>1 DEF TypeOK
  <2>3. /\ now' \in Nat /\ pausedUntil' \in Nat /\ nextAllowed' \in Nat
        /\ failures' \in SUBSET [by : Tasks, at : Nat]
        /\ wakeAt' \in [Tasks -> Nat]
        /\ slots' \in Seq([by : Tasks, at : Nat])
        /\ recorded' \in Seq([by : Tasks, at : Nat, ok : BOOLEAN])
    BY <1>1 DEF TypeOK
  <2> QED
    BY <2>1, <2>2, <2>3 DEF TypeOK
<1>4. /\ Len(lockQueue') = Len(lockQueue) + 1 /\ lockQueue'[Len(lockQueue) + 1] = t
      /\ \A k \in 1..Len(lockQueue) : lockQueue'[k] = lockQueue[k]
      /\ Len(entered') = Len(entered) + 1 /\ entered'[Len(entered) + 1] = t
      /\ \A k \in 1..Len(entered) : entered'[k] = entered[k]
  BY <1>1, <1>3
<1>5. Len(lockQueue) \in Nat /\ Len(entered) \in Nat /\ Len(slots) \in Nat
  BY <1>3
<1>6. HolderSleeps'
  <2> SUFFICES ASSUME NEW u \in Tasks, pc'[u] = "sleeping"
               PROVE  /\ lockQueue' # <<>> /\ Head(lockQueue') = u
                      /\ nextAllowed <= wakeAt[u]
    BY <1>1 DEF HolderSleeps
  <2>1. /\ lockQueue # <<>> /\ Head(lockQueue) = u /\ nextAllowed <= wakeAt[u]
    BY <1>1 DEF TypeOK, HolderSleeps
  <2>2. Len(lockQueue) \in Nat \ {0} /\ Head(lockQueue) = lockQueue[1]
    BY <2>1, <1>3
  <2>3. lockQueue'[1] = lockQueue[1] /\ Len(lockQueue') # 0
    BY <2>2, <1>4
  <2>4. lockQueue' \in Seq(Tasks)
    BY <1>1, <1>3
  <2>5. lockQueue' # <<>> /\ Head(lockQueue') = Head(lockQueue)
    BY <2>2, <2>3, <2>4
  <2> QED
    BY <2>1, <2>5
<1>7. SlotsBehind' /\ SlotsSpaced'
  BY <1>1 DEF SlotsBehind, SlotsSpaced
<1>8. QueueFollows'
  <2>1. Len(entered') = Len(slots') + Len(lockQueue')
    BY <1>1, <1>4, <1>5 DEF QueueFollows
  <2>2. ASSUME NEW i \in 1..Len(slots') PROVE slots'[i].by = entered'[i]
    <3>1. i \in 1..Len(slots) /\ i \in 1..Len(entered)
      BY <1>1, <1>5 DEF QueueFollows
    <3> QED
      BY <3>1, <1>1, <1>4 DEF QueueFollows
  <2>3. ASSUME NEW k \in 1..Len(lockQueue')
        PROVE  lockQueue'[k] = entered'[Len(slots') + k]
    <3>1. CASE k = Len(lockQueue) + 1
      <4>1. Len(slots') + k = Len(entered) + 1
        BY <3>1, <1>1, <1>5 DEF QueueFollows
      <4> QED
        BY <3>1, <4>1, <1>4
    <3>2. CASE k \in 1..Len(lockQueue)
      <4>1. Len(slots) + k \in 1..Len(entered)
        BY <3>2, <1>5 DEF QueueFollows
      <4> QED
        BY <3>2, <4>1, <1>1, <1>4 DEF QueueFollows
    <3> QED
      BY <3>1, <3>2, <1>4, <1>5
  <2> QED
    BY <2>1, <2>2, <2>3 DEF QueueFollows
<1> QED
  BY <1>2, <1>6, <1>7, <1>8

LEMMA SleepKeeps ==
    ASSUME IInv, NEW t \in Tasks, Sleep(t)
    PROVE  IInv'
<1> USE ParametersAssumption DEF IInv
<1>1. /\ pc[t] = "queued" /\ lockQueue # <<>> /\ Head(lockQueue) = t
      /\ wakeAt' = [wakeAt EXCEPT ![t] = IF nextAllowed > now THEN nextAllowed ELSE now]
      /\ pc' = [pc EXCEPT ![t] = "sleeping"]
      /\ UNCHANGED <<now, failures, pausedUntil, lockQueue, nextAllowed,
                     entered, slots, recorded>>
  BY DEF Sleep, Goto, breakerVars, historyVars
<1>2. TypeOK'
  BY <1>1 DEF TypeOK
<1>3. HolderSleeps'
  BY <1>1 DEF TypeOK, HolderSleeps
<1>4. SlotsBehind' /\ SlotsSpaced' /\ QueueFollows'
  BY <1>1 DEF SlotsBehind, SlotsSpaced, QueueFollows
<1> QED
  BY <1>2, <1>3, <1>4

LEMMA WakeKeeps ==
    ASSUME IInv, NEW t \in Tasks, Wake(t)
    PROVE  IInv'
<1> USE ParametersAssumption DEF IInv
<1> DEFINE slot == [by |-> t, at |-> now]
<1>1. /\ pc[t] = "sleeping" /\ now >= wakeAt[t]
      /\ nextAllowed' = now + Interval
      /\ lockQueue' = Tail(lockQueue)
      /\ slots' = Append(slots, slot)
      /\ pc' = [pc EXCEPT ![t] = "proxy"]
      /\ UNCHANGED <<now, failures, pausedUntil, wakeAt, entered, recorded>>
  BY DEF Wake, Goto, breakerVars
<1>2. /\ slot \in [by : Tasks, at : Nat] /\ slot.at = now /\ slot.by = t
      /\ now \in Nat /\ Interval \in Nat /\ nextAllowed \in Nat /\ wakeAt[t] \in Nat
      /\ slots \in Seq([by : Tasks, at : Nat]) /\ lockQueue \in Seq(Tasks)
      /\ entered \in Seq(Tasks)
  BY DEF TypeOK
<1> HIDE DEF slot
<1>3. lockQueue # <<>> /\ Head(lockQueue) = t /\ nextAllowed <= now
  BY <1>1, <1>2 DEF HolderSleeps
<1>4. TypeOK'
  <2>1. nextAllowed' \in Nat
    BY <1>1, <1>2
  <2>2. lockQueue' \in Seq(Tasks)
    BY <1>1, <1>2, <1>3
  <2>3. slots' \in Seq([by : Tasks, at : Nat])
    BY <1>1, <1>2
  <2>4. pc' \in [Tasks -> {"new", "refused", "queued", "sleeping", "proxy",
                          "fetching", "finished", "raised"}]
    BY <1>1 DEF TypeOK
  <2>5. /\ now' \in Nat /\ pausedUntil' \in Nat
        /\ failures' \in SUBSET [by : Tasks, at : Nat]
        /\ wakeAt' \in [Tasks -> Nat] /\ entered' \in Seq(Tasks)
        /\ recorded' \in Seq([by : Tasks, at : Nat, ok : BOOLEAN])
    BY <1>1 DEF TypeOK
  <2> QED
    BY <2>1, <2>2, <2>3, <2>4, <2>5 DEF TypeOK
<1>5. HolderSleeps'
  <2>1. \A u \in Tasks : pc'[u] # "sleeping"
    BY <1>1, <1>3 DEF HolderSleeps, TypeOK
  <2> QED
    BY <2>1 DEF HolderSleeps
<1>6. /\ Len(slots') = Len(slots) + 1
      /\ \A i \in 1..Len(slots) : slots'[i] = slots[i]
      /\ slots'[Len(slots) + 1] = slot
  BY <1>1, <1>2
<1>7. ASSUME NEW i \in 1..Len(slots)
      PROVE  slots[i].at \in Nat /\ slots[i].at + Interval <= now
  <2>1. slots[i].at \in Nat
    <3>1. slots[i] \in [by : Tasks, at : Nat]
      BY <1>2, ElementOfSeq
    <3> QED
      BY <3>1
  <2>2. slots[i].at + Interval <= nextAllowed
    BY DEF SlotsBehind
  <2>3. /\ now \in Nat /\ Interval \in Nat /\ nextAllowed \in Nat
        /\ nextAllowed <= now
    BY <1>2, <1>3
  <2>4. ASSUME NEW a \in Nat, a + Interval <= nextAllowed PROVE a + Interval <= now
    BY <2>3, <2>4
  <2> QED
    BY <2>1, <2>2, <2>4
<1>8. /\ now \in Nat /\ Interval \in Nat /\ Len(slots) \in Nat /\ slot.at = now
  BY <1>2
<1>9. ASSUME NEW i \in 1..Len(slots')
      PROVE  i \in 1..Len(slots) \/ i = Len(slots) + 1
  BY <1>6, <1>8
<1>10. SlotsBehind'
  <2> SUFFICES ASSUME NEW i \in 1..Len(slots')
               PROVE  slots'[i].at + Interval <= now + Interval
    BY <1>1 DEF SlotsBehind
  <2>1. CASE i = Len(slots) + 1
    BY <2>1, <1>6, <1>8
  <2>2. CASE i \in 1..Len(slots)
    <3>1. slots'[i] = slots[i] /\ slots[i].at \in Nat /\ slots[i].at + Interval <= now
      BY <2>2, <1>6, <1>7
    <3>2. ASSUME NEW a \in Nat, a + Interval <= now PROVE a + Interval <= now + Interval
      BY <3>2, <1>8
    <3>3. slots[i].at + Interval <= now + Interval
      BY <3>1, <3>2
    <3> QED
      BY <3>1, <3>3
  <2> QED
    BY <2>1, <2>2, <1>9
<1>11. SlotsSpaced'
  <2> SUFFICES ASSUME NEW i \in 1..Len(slots'), NEW j \in 1..Len(slots'), i < j
               PROVE  slots'[i].at + Interval <= slots'[j].at
    BY DEF SlotsSpaced
  <2>1. i \in 1..Len(slots)
    BY <1>6, <1>8
  <2>2. CASE j = Len(slots) + 1
    BY <2>1, <2>2, <1>6, <1>7, <1>8
  <2>3. CASE j \in 1..Len(slots)
    BY <2>1, <2>3, <1>6 DEF SlotsSpaced
  <2> QED
    BY <2>2, <2>3, <1>9
<1>12. QueueFollows'
  <2>1. /\ Len(lockQueue') = Len(lockQueue) - 1 /\ Len(lockQueue) >= 1
        /\ \A k \in 1..Len(lockQueue') : lockQueue'[k] = lockQueue[k + 1]
        /\ lockQueue[1] = t
    BY <1>1, <1>2, <1>3
  <2>2. entered[Len(slots) + 1] = t
    BY <2>1, <1>2 DEF QueueFollows
  <2>3. Len(entered) = Len(slots') + Len(lockQueue')
    BY <2>1, <1>2, <1>6 DEF QueueFollows
  <2>4. ASSUME NEW i \in 1..Len(slots') PROVE slots'[i].by = entered[i]
    <3>1. CASE i = Len(slots) + 1
      BY <3>1, <2>2, <1>2, <1>6
    <3>2. CASE i \in 1..Len(slots)
      BY <3>2, <1>6 DEF QueueFollows
    <3> QED
      BY <3>1, <3>2, <1>2, <1>6
  <2>5. ASSUME NEW k \in 1..Len(lockQueue')
        PROVE  lockQueue'[k] = entered[Len(slots') + k]
    <3>1. k + 1 \in 1..Len(lockQueue) /\ Len(slots') + k = Len(slots) + (k + 1)
      BY <2>1, <1>2, <1>6
    <3> QED
      BY <3>1, <2>1 DEF QueueFollows
  <2> QED
    BY <2>3, <2>4, <2>5, <1>1 DEF QueueFollows
<1> QED
  BY <1>4, <1>5, <1>10, <1>11, <1>12

LEMMA StutterKeeps == IInv /\ UNCHANGED vars => IInv'
BY DEF vars, breakerVars, limiterVars, historyVars,
       IInv, TypeOK, HolderSleeps, SlotsBehind, SlotsSpaced, QueueFollows

LEMMA StepKeeps == IInv /\ [Next]_vars => IInv'
<1> SUFFICES ASSUME IInv, [Next]_vars PROVE IInv'
  OBVIOUS
<1>1. CASE UNCHANGED vars
  BY <1>1, StutterKeeps
<1>2. CASE Tick
  BY <1>2, TickKeeps
<1>3. ASSUME NEW t \in Tasks,
             \/ Refuse(t) \/ Dispatch(t) \/ Escape(t)
             \/ RecordSuccess(t) \/ RecordFailure(t)
      PROVE  IInv'
  BY <1>3, MovesKeep, RecordKeeps
<1>4. ASSUME NEW t \in Tasks, Admit(t) PROVE IInv'
  BY <1>4, AdmitKeeps
<1>5. ASSUME NEW t \in Tasks, Sleep(t) PROVE IInv'
  BY <1>5, SleepKeeps
<1>6. ASSUME NEW t \in Tasks, Wake(t) PROVE IInv'
  BY <1>6, WakeKeeps
<1> QED
  BY <1>1, <1>2, <1>3, <1>4, <1>5, <1>6 DEF Next

LEMMA Inductive == Spec => []IInv
BY InitEstablishes, StepKeeps, PTL DEF Spec

(* The variables of the engine, its breaker and its limiter keep their     *)
(* types whatever the calls do.                                            *)
THEOREM EngineTypes == Spec => []TypeOK
<1>1. IInv => TypeOK
  BY DEF IInv
<1> QED
  BY <1>1, Inductive, PTL

(* RateLimiter.acquire: two slots of a domain are never closer than its    *)
(* interval, for any number of concurrent calls and any late wake-up.      *)
THEOREM SlotsAreSpaced == Spec => []SlotsSpaced
<1>1. IInv => SlotsSpaced
  BY DEF IInv
<1> QED
  BY <1>1, Inductive, PTL

(* RateLimiter.acquire is FIFO per domain, from the breaker's gate on.     *)
THEOREM SlotsAreInOrder == Spec => []SlotsInOrder
<1>1. IInv => SlotsInOrder
  BY DEF IInv, TypeOK, QueueFollows, SlotsInOrder
<1> QED
  BY <1>1, Inductive, PTL
-----------------------------------------------------------------------------
(* The gate.  The breaker keeps a few failures and one instant; what they  *)
(* stand for is a rule over all the outcomes ever reported.                *)

Reported(k) == [by |-> recorded[k].by, at |-> recorded[k].at]
Tripped(i) == ~SuccessIn(i, Len(recorded)) /\ Cardinality(CountedAt(i)) >= Threshold

(* Each call reports once, at its end.                                     *)
Reports ==
    /\ \A k \in Outcomes : recorded[k].at <= now /\ pc[recorded[k].by] = "finished"
    /\ \A k, l \in Outcomes : recorded[k].by = recorded[l].by => k = l

(* The failures kept are those that counted at the last outcome.           *)
Counted == failures = {Reported(k) : k \in CountedAt(Len(recorded))}

(* The pause is that of some outcome that tripped, and of the last of them *)
(* unless it is over.                                                      *)
Trips ==
    /\ \A i \in Outcomes : Tripped(i) /\ now < recorded[i].at + Pause =>
          recorded[i].at + Pause <= pausedUntil
    /\ pausedUntil # 0 => \E i \in Outcomes : Tripped(i) /\ pausedUntil = recorded[i].at + Pause

BreakerInv == Reports /\ Counted /\ Trips

LEMMA OutcomeTypes ==
    ASSUME TypeOK
    PROVE  /\ Len(recorded) \in Nat /\ {now, pausedUntil, Pause, Window, Threshold} \subseteq Nat
           /\ \A k \in Outcomes : /\ recorded[k].by \in Tasks /\ recorded[k].at \in Nat
                                  /\ recorded[k].ok \in BOOLEAN
<1>1. recorded \in Seq([by : Tasks, at : Nat, ok : BOOLEAN])
  BY DEF TypeOK
<1>2. \A k \in Outcomes : recorded[k] \in [by : Tasks, at : Nat, ok : BOOLEAN]
  BY <1>1, ElementOfSeq DEF Outcomes
<1> QED
  BY <1>1, <1>2, ParametersAssumption DEF TypeOK

(* Each outcome that counts is a failure of its own.                       *)
Distinct == \A i \in Outcomes :
                Cardinality({Reported(k) : k \in CountedAt(i)}) = Cardinality(CountedAt(i))

LEMMA CountsAgree == TypeOK /\ Reports => Distinct
<1> SUFFICES ASSUME TypeOK, Reports, NEW i \in Outcomes
             PROVE  Cardinality({Reported(k) : k \in CountedAt(i)}) = Cardinality(CountedAt(i))
  BY DEF Distinct
<1> DEFINE S == CountedAt(i)
           T == {Reported(k) : k \in S}
           f == [k \in S |-> Reported(k)]
<1>1. IsFiniteSet(S) /\ S \subseteq Outcomes
  <2>1. i \in Nat /\ i <= Len(recorded) /\ Len(recorded) \in Nat
    BY OutcomeTypes DEF Outcomes
  <2>2. S \subseteq 1..i /\ 1..i \subseteq Outcomes
    BY <2>1 DEF CountedAt, Outcomes
  <2>3. IsFiniteSet(1..i)
    BY <2>1, FS_Interval
  <2> QED
    BY <2>2, <2>3, FS_Subset
<1>2. \A k, l \in S : Reported(k) = Reported(l) => k = l
  BY <1>1 DEF Reports, Reported
<1> HIDE DEF S
<1>3. f \in Injection(S, T) /\ f \in Surjection(S, T)
  BY <1>2 DEF Injection, Surjection, IsInjective
<1>4. ExistsBijection(S, T)
  BY <1>3 DEF ExistsBijection, Bijection
<1>5. Cardinality(T) = Cardinality(S)
  <2> HIDE DEF T
  <2> QED
    BY <1>1, <1>4, FS_Bijection
<1> QED
  BY <1>5 DEF S

LEMMA CountsStillAgree == TypeOK' /\ Reports' => Distinct'
BY CountsAgree, PTL

(* A gate that follows the breaker follows the rule.                       *)
LEMMA GateIsThePolicy ==
    ASSUME TypeOK, Trips
    PROVE  PolicyPauses <=> ~Allowed
<1>1. PolicyPauses <=> \E i \in Outcomes : Tripped(i) /\ now < recorded[i].at + Pause
  BY DEF PolicyPauses, Tripped
<1>2. ASSUME NEW i \in Outcomes, Tripped(i), now < recorded[i].at + Pause PROVE ~Allowed
  <2>1. recorded[i].at + Pause <= pausedUntil /\ recorded[i].at \in Nat
    BY <1>2, OutcomeTypes DEF Trips
  <2> QED
    BY <1>2, <2>1, OutcomeTypes DEF Allowed
<1>3. ASSUME ~Allowed PROVE \E i \in Outcomes : Tripped(i) /\ now < recorded[i].at + Pause
  <2>1. pausedUntil # 0 /\ now < pausedUntil
    BY <1>3, OutcomeTypes DEF Allowed
  <2> QED
    BY <2>1 DEF Trips
<1> QED
  BY <1>1, <1>2, <1>3

(* A step that reports nothing, and at most ends a pause that is over.     *)
LEMMA UnreportedStep ==
    ASSUME TypeOK, BreakerInv, recorded' = recorded, failures' = failures,
           now' \in Nat, now <= now',
           pausedUntil' = pausedUntil \/ (Allowed /\ pausedUntil' = 0),
           \A u \in Tasks : pc[u] = "finished" => pc'[u] = "finished"
    PROVE  BreakerInv'
<1>1. /\ Outcomes' = Outcomes /\ \A i : Tripped(i)' <=> Tripped(i)
      /\ \A i : CountedAt(i)' = CountedAt(i) /\ Reported(i)' = Reported(i)
  BY DEF Outcomes, Tripped, CountedAt, SuccessIn, Reported
<1>2. Reports'
  <2>1. \A k \in Outcomes : recorded[k].at <= now'
    BY OutcomeTypes DEF BreakerInv, Reports
  <2> QED
    BY <1>1, <2>1, OutcomeTypes DEF BreakerInv, Reports
<1>3. Counted'
  BY <1>1 DEF BreakerInv, Counted
<1>4. Trips'
  <2>1. ASSUME NEW i \in Outcomes, Tripped(i), now' < recorded[i].at + Pause
        PROVE  recorded[i].at + Pause <= pausedUntil'
    <3>1. now < recorded[i].at + Pause
      BY <2>1, OutcomeTypes
    <3>2. recorded[i].at + Pause <= pausedUntil /\ ~Allowed
      BY <2>1, <3>1, GateIsThePolicy DEF BreakerInv, Trips, PolicyPauses, Tripped
    <3> QED
      BY <3>2
  <2>2. pausedUntil' # 0 => \E i \in Outcomes : Tripped(i) /\ pausedUntil' = recorded[i].at + Pause
    BY DEF BreakerInv, Trips
  <2> QED
    BY <1>1, <2>1, <2>2 DEF Trips
<1> QED
  BY <1>2, <1>3, <1>4 DEF BreakerInv

(* One more outcome, and what it leaves of the rule.                       *)
LEMMA OneMore ==
    ASSUME TypeOK, NEW o \in [by : Tasks, at : Nat, ok : BOOLEAN], recorded' = Append(recorded, o),
           NEW n \in Nat, n = Len(recorded)
    PROVE  /\ Len(recorded') = n + 1
           /\ Outcomes = 1..n /\ Outcomes' = 1..(n + 1) /\ recorded'[n + 1] = o
           /\ \A k \in 1..n : recorded'[k] = recorded[k]
           /\ \A i \in 1..n : CountedAt(i)' = CountedAt(i)
           /\ \A k \in 1..(n + 1) :
                 SuccessIn(k, n + 1)' <=> o.ok \/ (k \in 1..n /\ SuccessIn(k, n))
<1>1. /\ Len(recorded') = n + 1 /\ recorded'[n + 1] = o
      /\ \A k \in 1..n : recorded'[k] = recorded[k]
  BY DEF TypeOK
<1>2. Outcomes = 1..n /\ Outcomes' = 1..(n + 1)
  BY <1>1 DEF Outcomes
<1>3. ASSUME NEW i \in 1..n PROVE CountedAt(i)' = CountedAt(i)
  <2>1. \A k \in 1..i : recorded'[k] = recorded[k]
    BY <1>1
  <2>2. ASSUME NEW k \in 1..i PROVE SuccessIn(k, i)' <=> SuccessIn(k, i)
    <3>1. \A l \in k..i : recorded'[l] = recorded[l]
      BY <1>1, <2>1
    <3> QED
      BY <3>1 DEF SuccessIn
  <2>3. i \in 1..i
    BY <1>1
  <2> QED
    BY <2>1, <2>2, <2>3 DEF CountedAt
<1>4. ASSUME NEW k \in 1..(n + 1)
      PROVE  SuccessIn(k, n + 1)' <=> o.ok \/ (k \in 1..n /\ SuccessIn(k, n))
  <2>1. k..(n + 1) = (IF k \in 1..n THEN k..n ELSE {}) \union {n + 1}
    BY <1>1
  <2>2. \A l \in k..n : recorded'[l] = recorded[l]
    BY <1>1
  <2> QED
    BY <1>1, <2>1, <2>2 DEF SuccessIn
<1> QED
  BY <1>1, <1>2, <1>3, <1>4

LEMMA ReportedOnce ==
    ASSUME TypeOK, BreakerInv, NEW t \in Tasks, pc[t] = "fetching", NEW ok \in BOOLEAN,
           recorded' = Append(recorded, [by |-> t, at |-> now, ok |-> ok]),
           pc' = [pc EXCEPT ![t] = "finished"], now' = now
    PROVE  Reports'
<1>0. PICK n \in Nat : n = Len(recorded)
  BY OutcomeTypes
<1> DEFINE o == [by |-> t, at |-> now, ok |-> ok]
<1>1. o \in [by : Tasks, at : Nat, ok : BOOLEAN] /\ o.by = t /\ o.at = now /\ now \in Nat
  BY DEF TypeOK
<1> HIDE DEF o
<1>2. recorded' = Append(recorded, o)
  BY DEF o
<1>3. /\ Outcomes = 1..n /\ Outcomes' = 1..(n + 1) /\ recorded'[n + 1] = o
      /\ \A k \in 1..n : recorded'[k] = recorded[k]
  BY <1>0, <1>1, <1>2, OneMore
<1>4. \A k \in 1..n : recorded[k].by \in Tasks /\ recorded[k].by # t /\ recorded[k].at <= now
  BY <1>3, OutcomeTypes DEF BreakerInv, Reports
<1>5. \A k \in 1..(n + 1) : k \in 1..n \/ k = n + 1
  BY <1>3
<1>6. \A k \in Outcomes' : recorded'[k].at <= now' /\ pc'[recorded'[k].by] = "finished"
  <2>1. recorded'[n + 1].at <= now' /\ pc'[recorded'[n + 1].by] = "finished"
    <3>1. recorded'[n + 1].at = now /\ recorded'[n + 1].by = t
      BY <1>1, <1>3, Zenon
    <3>2. pc'[t] = "finished"
      BY DEF TypeOK
    <3>3. now <= now /\ now' = now
      BY <1>1
    <3> QED
      BY <3>1, <3>2, <3>3, Zenon
  <2>2. \A k \in 1..n : pc[recorded[k].by] = "finished" /\ pc'[recorded[k].by] = "finished"
    BY <1>1, <1>3, <1>4 DEF BreakerInv, Reports, TypeOK
  <2> QED
    BY <1>1, <1>3, <1>4, <1>5, <2>1, <2>2
<1>7. \A k, l \in Outcomes' : recorded'[k].by = recorded'[l].by => k = l
  BY <1>1, <1>3, <1>4, <1>5 DEF BreakerInv, Reports
<1> QED
  BY <1>6, <1>7 DEF Reports

LEMMA SuccessClears ==
    ASSUME TypeOK, BreakerInv, NEW t \in Tasks, RecordSuccess(t)
    PROVE  BreakerInv'
<1>0. PICK n \in Nat : n = Len(recorded)
  BY OutcomeTypes
<1> DEFINE o == [by |-> t, at |-> now, ok |-> TRUE]
<1>1. /\ recorded' = Append(recorded, o) /\ failures' = {} /\ pausedUntil' = 0 /\ now' = now
      /\ pc[t] = "fetching" /\ pc' = [pc EXCEPT ![t] = "finished"]
  BY DEF RecordSuccess, Goto
<1>2. o \in [by : Tasks, at : Nat, ok : BOOLEAN] /\ o.ok
  BY DEF TypeOK
<1>3. Reports'
  BY <1>1, ReportedOnce
<1> HIDE DEF o
<1>4. /\ Len(recorded') = n + 1 /\ Outcomes' = 1..(n + 1)
      /\ \A k \in 1..(n + 1) : SuccessIn(k, n + 1)'
  BY <1>0, <1>1, <1>2, OneMore
<1>5. Counted'
  BY <1>1, <1>4 DEF Counted, CountedAt
<1>6. Trips'
  BY <1>1, <1>4 DEF Trips, Tripped
<1> QED
  BY <1>3, <1>5, <1>6 DEF BreakerInv

LEMMA FailureCounts ==
    ASSUME TypeOK, BreakerInv, NEW t \in Tasks, RecordFailure(t), TypeOK'
    PROVE  BreakerInv'
<1>0. PICK n \in Nat : n = Len(recorded)
  BY OutcomeTypes
<1> DEFINE o == [by |-> t, at |-> now, ok |-> FALSE]
<1>1. /\ recorded' = Append(recorded, o) /\ now' = now
      /\ pc[t] = "fetching" /\ pc' = [pc EXCEPT ![t] = "finished"]
      /\ failures' = {f \in failures \union {[by |-> t, at |-> now]} : f.at + Window > now}
      /\ pausedUntil' = IF Cardinality(failures') >= Threshold THEN now + Pause ELSE pausedUntil
  BY DEF RecordFailure, InWindow, Goto
<1>2. o \in [by : Tasks, at : Nat, ok : BOOLEAN] /\ ~o.ok /\ o.by = t /\ o.at = now
  BY DEF TypeOK
<1>3. Reports'
  BY <1>1, ReportedOnce
<1> HIDE DEF o
<1>4. /\ Len(recorded') = n + 1 /\ Outcomes = 1..n /\ Outcomes' = 1..(n + 1)
      /\ recorded'[n + 1] = o /\ \A k \in 1..n : recorded'[k] = recorded[k]
      /\ \A i \in 1..n : CountedAt(i)' = CountedAt(i)
  BY <1>0, <1>1, <1>2, OneMore
<1>5. \A k \in 1..(n + 1) : SuccessIn(k, n + 1)' <=> (k \in 1..n /\ SuccessIn(k, n))
  BY <1>0, <1>1, <1>2, OneMore
<1>6. failures = {Reported(k) : k \in CountedAt(n)}
  BY <1>0 DEF BreakerInv, Counted
<1>7. \A k \in 1..(n + 1) : k \in 1..n \/ k = n + 1
  BY <1>4
<1>8. \A k \in 1..n : recorded[k].at \in Nat /\ recorded[k].at <= now
  BY <1>4, OutcomeTypes DEF BreakerInv, Reports
<1>9. now \in Nat /\ Window \in Nat /\ Pause \in Nat /\ pausedUntil \in Nat
  BY OutcomeTypes
<1>10. CountedAt(n + 1)' =
          {k \in 1..(n + 1) : ~(k \in 1..n /\ SuccessIn(k, n)) /\ recorded'[k].at + Window > now}
  BY <1>2, <1>4, <1>5 DEF CountedAt
<1>11. CountedAt(n) = {k \in 1..n : ~SuccessIn(k, n) /\ recorded[k].at + Window > recorded[n].at}
  BY DEF CountedAt
<1>12. Counted'
  <2>1. ASSUME NEW f \in failures' PROVE \E k \in CountedAt(n + 1)' : f = Reported(k)'
    <3>1. CASE f = [by |-> t, at |-> now]
      <4>1. n + 1 \in CountedAt(n + 1)' /\ Reported(n + 1)' = f
        BY <1>1, <1>2, <1>4, <1>10, <2>1, <3>1 DEF Reported
      <4> QED
        BY <4>1
    <3>2. ASSUME NEW k \in CountedAt(n), f = Reported(k) PROVE k \in CountedAt(n + 1)' /\ Reported(k)' = f
      <4>1. k \in 1..n /\ k \in 1..(n + 1) /\ ~SuccessIn(k, n)
        BY <1>4, <1>11
      <4>2. recorded'[k] = recorded[k] /\ f.at = recorded[k].at /\ f.at + Window > now
        BY <1>1, <1>4, <2>1, <3>2, <4>1 DEF Reported
      <4> QED
        BY <1>10, <3>2, <4>1, <4>2 DEF Reported
    <3> QED
      BY <1>1, <1>6, <2>1, <3>1, <3>2
  <2>2. ASSUME NEW k \in CountedAt(n + 1)' PROVE Reported(k)' \in failures'
    <3>1. k \in 1..(n + 1) /\ recorded'[k].at + Window > now
      BY <1>10
    <3>2. CASE k = n + 1
      BY <1>1, <1>2, <1>4, <3>1, <3>2 DEF Reported
    <3>3. CASE k \in 1..n
      <4>1. ~SuccessIn(k, n) /\ recorded'[k] = recorded[k] /\ n \in 1..n
        BY <1>4, <1>10, <3>3
      <4>2. recorded[k].at + Window > recorded[n].at
        <5>1. recorded[k].at \in Nat /\ recorded[n].at \in Nat /\ recorded[n].at <= now
          BY <1>8, <3>3, <4>1
        <5>2. recorded[k].at + Window > now
          BY <3>1, <4>1
        <5> QED
          BY <1>9, <5>1, <5>2
      <4>3. Reported(k) \in failures
        BY <1>6, <1>11, <3>3, <4>1, <4>2
      <4> QED
        BY <1>1, <3>1, <4>1, <4>3 DEF Reported
    <3> QED
      BY <1>7, <3>1, <3>2, <3>3
  <2> QED
    BY <1>4, <2>1, <2>2 DEF Counted
<1>13. Trips'
  <2>1. n + 1 \in Outcomes' /\ Cardinality(failures') = Cardinality(CountedAt(n + 1)')
    <3>1. n + 1 \in Outcomes'
      BY <1>4
    <3> QED
      BY <1>3, <1>4, <1>12, <3>1, CountsStillAgree DEF Counted, Distinct
  <2>2. Tripped(n + 1)' <=> Cardinality(failures') >= Threshold
    BY <1>4, <1>5, <2>1 DEF Tripped
  <2>3. \A i \in 1..n : Tripped(i)' <=> Tripped(i)
    <3>1. \A i \in 1..n : i \in 1..(n + 1)
      BY <1>4
    <3> QED
      BY <1>0, <1>4, <1>5, <3>1 DEF Tripped
  <2>4. /\ \A i \in 1..n : Tripped(i) /\ now < recorded[i].at + Pause => recorded[i].at + Pause <= pausedUntil
        /\ pausedUntil # 0 => \E i \in 1..n : Tripped(i) /\ pausedUntil = recorded[i].at + Pause
    BY <1>4 DEF BreakerInv, Trips
  <2>5. ASSUME NEW i \in 1..(n + 1), Tripped(i)', now < recorded'[i].at + Pause
        PROVE  recorded'[i].at + Pause <= pausedUntil'
    <3>1. CASE i = n + 1
      BY <1>1, <1>2, <1>4, <1>9, <2>2, <2>5, <3>1
    <3>2. CASE i \in 1..n
      <4>1. recorded'[i] = recorded[i] /\ recorded[i].at \in Nat /\ recorded[i].at <= now
        BY <1>4, <1>8, <3>2
      <4>2. recorded[i].at + Pause <= pausedUntil
        BY <2>3, <2>4, <2>5, <3>2, <4>1
      <4>3. recorded[i].at + Pause <= now + Pause
        BY <1>9, <4>1
      <4> QED
        BY <1>1, <4>1, <4>2, <4>3
    <3> QED
      BY <1>7, <2>5, <3>1, <3>2
  <2>6. pausedUntil' # 0 => \E i \in 1..(n + 1) : Tripped(i)' /\ pausedUntil' = recorded'[i].at + Pause
    <3>1. CASE Cardinality(failures') >= Threshold
      <4>1. n + 1 \in 1..(n + 1) /\ Tripped(n + 1)' /\ pausedUntil' = recorded'[n + 1].at + Pause
        BY <1>1, <1>2, <1>4, <2>2, <3>1
      <4> QED
        BY <4>1
    <3>2. ASSUME ~(Cardinality(failures') >= Threshold), pausedUntil' # 0
          PROVE  \E i \in 1..(n + 1) : Tripped(i)' /\ pausedUntil' = recorded'[i].at + Pause
      <4>1. PICK i \in 1..n : Tripped(i) /\ pausedUntil = recorded[i].at + Pause
        BY <1>1, <2>4, <3>2
      <4>2. i \in 1..(n + 1) /\ Tripped(i)' /\ recorded'[i] = recorded[i] /\ pausedUntil' = pausedUntil
        BY <1>1, <1>4, <2>3, <3>2, <4>1
      <4> QED
        BY <4>1, <4>2
    <3> QED
      BY <3>1, <3>2
  <2> QED
    BY <1>1, <1>4, <2>5, <2>6 DEF Trips
<1> QED
  BY <1>3, <1>12, <1>13 DEF BreakerInv

LEMMA BreakerStep == TypeOK /\ TypeOK' /\ BreakerInv /\ [Next]_vars => BreakerInv'
<1> SUFFICES ASSUME TypeOK, TypeOK', BreakerInv, [Next]_vars PROVE BreakerInv'
  OBVIOUS
<1> DEFINE Quiet == /\ recorded' = recorded /\ failures' = failures /\ now <= now'
                    /\ pausedUntil' = pausedUntil \/ (Allowed /\ pausedUntil' = 0)
                    /\ \A u \in Tasks : pc[u] = "finished" => pc'[u] = "finished"
<1>1. Quiet => BreakerInv'
  BY UnreportedStep DEF TypeOK
<1>2. now \in Nat /\ DOMAIN pc = Tasks
  BY DEF TypeOK
<1>3. CASE Tick \/ UNCHANGED vars
  <2>1. Quiet
    BY <1>2, <1>3 DEF Tick, vars, breakerVars, historyVars
  <2> QED
    BY <1>1, <2>1
<1>4. ASSUME NEW t \in Tasks,
             Refuse(t) \/ Admit(t) \/ Sleep(t) \/ Wake(t) \/ Dispatch(t) \/ Escape(t)
      PROVE  BreakerInv'
  <2>1. /\ recorded' = recorded /\ failures' = failures /\ now' = now
        /\ pausedUntil' = pausedUntil \/ (Allowed /\ pausedUntil' = 0)
    BY <1>4 DEF Refuse, Admit, Sleep, Wake, Dispatch, Escape, breakerVars, historyVars
  <2>2. pc[t] # "finished" /\ \E place : pc' = [pc EXCEPT ![t] = place]
    BY <1>4 DEF Refuse, Admit, Sleep, Wake, Dispatch, Escape, Goto
  <2>3. Quiet
    BY <1>2, <2>1, <2>2
  <2> QED
    BY <1>1, <2>3
<1>5. ASSUME NEW t \in Tasks, RecordSuccess(t) \/ RecordFailure(t) PROVE BreakerInv'
  BY <1>5, SuccessClears, FailureCounts
<1> QED
  BY <1>3, <1>4, <1>5 DEF Next

LEMMA BreakerInit == Init => BreakerInv
BY DEF Init, BreakerInv, Reports, Counted, Trips, Outcomes, CountedAt

LEMMA GateSteps == TypeOK /\ BreakerInv /\ [Next]_vars => [GateStep]_vars
<1> SUFFICES ASSUME TypeOK, BreakerInv, [Next]_vars, NEW u \in Tasks, pc[u] = "new", pc'[u] # "new"
             PROVE  pc'[u] = "refused" <=> PolicyPauses
  BY DEF GateStep
<1>1. PolicyPauses <=> ~Allowed
  BY GateIsThePolicy DEF BreakerInv
<1>2. DOMAIN pc = Tasks
  BY DEF TypeOK
<1>3. PICK t \in Tasks :
         \/ Refuse(t) \/ Admit(t) \/ Sleep(t) \/ Wake(t) \/ Dispatch(t)
         \/ RecordSuccess(t) \/ RecordFailure(t) \/ Escape(t)
  BY DEF Next, Tick, vars
<1>4. CASE Refuse(t)
  BY <1>1, <1>2, <1>4 DEF Refuse, Goto
<1>5. CASE Admit(t)
  BY <1>1, <1>2, <1>5 DEF Admit, Goto
<1>6. CASE \/ Sleep(t) \/ Wake(t) \/ Dispatch(t)
           \/ RecordSuccess(t) \/ RecordFailure(t) \/ Escape(t)
  BY <1>2, <1>6 DEF Sleep, Wake, Dispatch, RecordSuccess, RecordFailure, Escape, Goto
<1> QED
  BY <1>3, <1>4, <1>5, <1>6

(* CircuitBreaker.allow: the gate refuses a call exactly when the trip     *)
(* rule, read off every outcome ever reported, says that the domain        *)
(* pauses; for any number of calls, threshold, window and pause, although  *)
(* the breaker drops failures and clears pauses on the way.                *)
THEOREM GateFollowsTheRule == Spec => GateFollowsPolicy
<1>1. Spec => []BreakerInv
  BY EngineTypes, BreakerInit, BreakerStep, PTL DEF Spec
<1> QED
  BY <1>1, EngineTypes, GateSteps, PTL DEF Spec, GateFollowsPolicy
=============================================================================
