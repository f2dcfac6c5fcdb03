------------------------- MODULE ScrapeCall_proofs --------------------------
(***************************************************************************)
(* Proofs about ScrapeCall: types, the identity of a session, the proxy a  *)
(* call goes out with, and what becomes of an outcome.                     *)
(***************************************************************************)
EXTENDS ScrapeCall, WellFoundedInduction, TLAPS

(* The aliases are ascending numbers, the default among them.              *)
LEMMA AliasFacts ==
    /\ Len(KnownAliases) \in Nat /\ Len(KnownAliases) > 0
    /\ \A i \in 1 .. Len(KnownAliases) : KnownAliases[i] \in Nat
    /\ \A i, j \in 1 .. Len(KnownAliases) : i < j => KnownAliases[i] < KnownAliases[j]
    /\ \E i \in 1 .. Len(KnownAliases) : KnownAliases[i] = DefaultMajor
BY ParametersAssumption

(* A set of numbers with a member has a least one, which Min yields.       *)
LEMMA MinIsLeast ==
    ASSUME NEW S, S \subseteq Nat, S # {}
    PROVE  Min(S) \in S /\ \A n \in S : Min(S) <= n
<1> DEFINE R == OpToRel(<, Nat)
<1>1. \A x, y \in Nat : x < y => <<x, y>> \in R
  BY DEF OpToRel
<1>2. \E x \in S : \A y \in S : ~ (<<y, x>> \in R)
  <2> HIDE DEF R
  <2>1. IsWellFoundedOn(R, Nat)
    BY NatLessThanWellFounded DEF R
  <2> QED
    BY <2>1, WFMin
<1>3. PICK x \in S : \A y \in S : x <= y
  <2> HIDE DEF R
  <2>1. \A x, y \in S : ~ (<<y, x>> \in R) => x <= y
    BY <1>1
  <2> QED
    BY <1>2, <2>1
<1> QED
  BY <1>3 DEF Min

-----------------------------------------------------------------------------
(* The target: the greatest alias up to the major, or the first.           *)

LEMMA AliasesCounted ==
    ASSUME NEW major \in Nat
    PROVE  /\ AliasesUpTo(major) \in 0 .. Len(KnownAliases)
           /\ \A i \in 1 .. Len(KnownAliases) : i <= AliasesUpTo(major) <=> KnownAliases[i] <= major
<1> DEFINE N == Len(KnownAliases)
           beyond == {i \in 1 .. N : KnownAliases[i] > major}
<1>1. N \in Nat /\ (\A i \in 1 .. N : KnownAliases[i] \in Nat)
      /\ \A i, j \in 1 .. N : i < j => KnownAliases[i] < KnownAliases[j]
  BY AliasFacts
<1>2. CASE beyond = {}
  BY <1>1, <1>2 DEF AliasesUpTo
<1>3. CASE beyond # {}
  <2>1. beyond \subseteq Nat
    OBVIOUS
  <2>2. Min(beyond) \in beyond /\ \A n \in beyond : Min(beyond) <= n
    BY <1>3, <2>1, MinIsLeast
  <2>3. AliasesUpTo(major) = Min(beyond) - 1
    BY <1>3 DEF AliasesUpTo
  <2>4. PICK m \in 1 .. N : /\ AliasesUpTo(major) = m - 1 /\ KnownAliases[m] > major
                            /\ \A n \in beyond : m <= n
    BY <2>2, <2>3
  <2>5. ASSUME NEW i \in 1 .. N PROVE i <= m - 1 <=> KnownAliases[i] <= major
    <3>1. CASE i < m
      BY <1>1, <2>4, <3>1
    <3>2. CASE i = m
      BY <1>1, <2>4, <3>2
    <3>3. CASE m < i
      BY <1>1, <2>4, <3>3
    <3> QED
      BY <3>1, <3>2, <3>3
  <2> QED
    BY <1>1, <2>4, <2>5
<1> QED
  BY <1>2, <1>3

(* No alias up to the major lies beyond a.                                 *)
Closest(major, a) ==
    \A i \in 1 .. Len(KnownAliases) : KnownAliases[i] <= major => KnownAliases[i] <= a

(* What the property says of a target, for any major.                      *)
LEMMA TargetIsClosest ==
    ASSUME NEW major \in Nat
    PROVE  /\ \E i \in 1 .. Len(KnownAliases) : ImpersonateTarget(major) = KnownAliases[i]
           /\ ImpersonateTarget(major) <= major \/ ImpersonateTarget(major) = KnownAliases[1]
           /\ Closest(major, ImpersonateTarget(major))
           /\ DefaultMajor = ImpersonateTarget(major)
                 <=> /\ DefaultMajor <= major \/ DefaultMajor = KnownAliases[1]
                     /\ Closest(major, DefaultMajor)
<1> DEFINE N == Len(KnownAliases)
           n == AliasesUpTo(major)
           a == ImpersonateTarget(major)
<1>1. N \in Nat /\ N > 0 /\ (\A i \in 1 .. N : KnownAliases[i] \in Nat)
      /\ \A i, j \in 1 .. N : i < j => KnownAliases[i] < KnownAliases[j]
  BY AliasFacts
<1>2. n \in 0 .. N /\ \A i \in 1 .. N : i <= n <=> KnownAliases[i] <= major
  BY AliasesCounted
<1>3. PICK d \in 1 .. N : DefaultMajor = KnownAliases[d]
  BY AliasFacts
<1>4. a = IF n = 0 THEN KnownAliases[1] ELSE KnownAliases[n]
  BY DEF ImpersonateTarget
<1> HIDE DEF n, a
<1>5. CASE n = 0
  <2>1. a = KnownAliases[1] /\ 1 \in 1 .. N
    BY <1>1, <1>4, <1>5
  <2>2. \A i \in 1 .. N : ~ (KnownAliases[i] <= major)
    BY <1>2, <1>5
  <2> QED
    BY <1>1, <1>3, <2>1, <2>2 DEF a, Closest
<1>6. CASE n # 0
  <2>1. n \in 1 .. N /\ a = KnownAliases[n] /\ KnownAliases[n] <= major
    BY <1>1, <1>2, <1>4, <1>6
  <2>2. \A i \in 1 .. N : KnownAliases[i] <= major => KnownAliases[i] <= KnownAliases[n]
    <3> SUFFICES ASSUME NEW i \in 1 .. N, KnownAliases[i] <= major
                 PROVE  KnownAliases[i] <= KnownAliases[n]
      OBVIOUS
    <3>1. i <= n
      BY <1>2
    <3> QED
      BY <1>1, <2>1, <3>1
  <2>3. DefaultMajor = a
           <=> (DefaultMajor <= major \/ DefaultMajor = KnownAliases[1]) /\ Closest(major, DefaultMajor)
    <3>1. ASSUME DefaultMajor <= major \/ DefaultMajor = KnownAliases[1], Closest(major, DefaultMajor)
          PROVE  DefaultMajor = a
      <4>1. KnownAliases[n] <= DefaultMajor
        BY <2>1, <3>1 DEF Closest
      <4>2. KnownAliases[1] <= KnownAliases[n]
        BY <1>1, <2>1
      <4>3. DefaultMajor <= KnownAliases[n]
        BY <1>3, <2>2, <3>1, <4>2
      <4> QED
        BY <1>1, <1>3, <2>1, <4>1, <4>3
    <3>2. ASSUME DefaultMajor = a
          PROVE  DefaultMajor <= major /\ Closest(major, DefaultMajor)
      BY <2>1, <2>2, <3>2 DEF Closest
    <3> QED
      BY <3>1, <3>2
  <2> QED
    BY <1>1, <2>1, <2>2, <2>3 DEF a, Closest
<1> QED
  BY <1>5, <1>6

(* Whatever the probes find, the profile has a major.                      *)
LEMMA DetectedIsMajor ==
    ASSUME NEW h, h.found \in [Probes -> Nat]
    PROVE  Detected(h) \in Nat
<1> DEFINE answers == <<FromRegistry(h), FromCommand(h, "chrome"), FromCommand(h, "google"),
                        FromPlist(h)>>
           found == {i \in 1 .. 4 : answers[i] # 0}
<1>1. \A b \in Probes : h.found[b] \in Nat
  OBVIOUS
<1>2. /\ FromRegistry(h) \in Nat /\ FromPlist(h) \in Nat
      /\ FromCommand(h, "chrome") \in Nat /\ FromCommand(h, "google") \in Nat
  BY <1>1 DEF FromRegistry, FromPlist, FromCommand, Major, Probes
<1>3. \A i \in 1 .. 4 : answers[i] \in Nat
  BY <1>2
<1>4. CASE found = {}
  BY <1>4 DEF Detected
<1>5. CASE found # {}
  <2>1. found \subseteq Nat
    OBVIOUS
  <2>2. Min(found) \in found
    BY <1>5, <2>1, MinIsLeast
  <2>3. Detected(h) = answers[Min(found)]
    BY <1>5 DEF Detected
  <2> HIDE DEF answers
  <2> QED
    BY <1>3, <2>2, <2>3
<1> QED
  BY <1>4, <1>5

-----------------------------------------------------------------------------
(* Types, with the machine, the registry and the domains of what is kept   *)
(* per call.                                                               *)

Machines == [os : {"win32", "darwin", "linux"}, found : [Probes -> Nat],
             missing : SUBSET Modules, custom : SUBSET Seq(STRING)]

HostOK == host \in Machines
RegistryOK == \A d \in DOMAIN registry : registry[d] \in Modules
PerCall == /\ session = [t \in Tasks |-> session[t]] /\ site = [t \in Tasks |-> site[t]]
           /\ failed = [t \in Tasks |-> failed[t]] /\ leftOut = [t \in Tasks |-> leftOut[t]]

Shapes == TypeOK /\ HostOK /\ RegistryOK /\ PerCall

(* What a fresh bridge is made of.                                         *)
LEMMA LaunchMade ==
    ASSUME HostOK, NEW p
    PROVE  \E major \in Nat :
              /\ Launch(p)[1] = [proxy |-> p, target |-> ImpersonateTarget(major),
                                 profile |-> [name |-> TemplateKey(host), major |-> major,
                                              userAgent |-> DefaultMajor]]
              /\ Launch(p) # NoSession
<1> DEFINE major == IF Detected(host) = 0 THEN DefaultMajor ELSE Detected(host)
<1>1. DefaultMajor \in Nat /\ Detected(host) \in Nat
  <2>1. host.found \in [Probes -> Nat]
    BY DEF HostOK, Machines
  <2> QED
    BY <2>1, DetectedIsMajor, AliasFacts
<1>2. major \in Nat
  BY <1>1
<1>3. Profile(host) = [name |-> TemplateKey(host), major |-> major, userAgent |-> DefaultMajor]
  BY DEF Profile, Template
<1>4. Bridge(p) = [proxy |-> p, target |-> ImpersonateTarget(major), profile |-> Profile(host)]
  BY <1>3 DEF Bridge
<1>5. Launch(p) = <<Bridge(p)>>
  BY DEF Launch
<1> HIDE DEF major
<1> QED
  BY <1>2, <1>3, <1>4, <1>5 DEF NoSession

LEMMA TargetKnown ==
    ASSUME HostOK, NEW p
    PROVE  \E i \in 1 .. Len(KnownAliases) : Launch(p)[1].target = KnownAliases[i]
<1>1. PICK major \in Nat :
         Launch(p)[1] = [proxy |-> p, target |-> ImpersonateTarget(major),
                         profile |-> [name |-> TemplateKey(host), major |-> major,
                                      userAgent |-> DefaultMajor]]
  BY LaunchMade
<1>2. Launch(p)[1].target = ImpersonateTarget(major)
  BY <1>1
<1> QED
  BY <1>2, TargetIsClosest

LEMMA CheckedIsCandidate ==
    ASSUME TypeOK, NEW t \in Tasks, phase[t] = "checking"
    PROVE  /\ Checked(t) \in candidates[t] /\ Checked(t) \in Proxies
           /\ \A q \in candidates[t] : Checked(t) <= q
<1>1. candidates[t] \subseteq Proxies /\ candidates[t] # {} /\ Proxies \subseteq Nat
  BY DEF TypeOK, Proxies
<1>2. candidates[t] \subseteq Nat
  BY <1>1
<1> QED
  BY <1>1, <1>2, MinIsLeast DEF Checked

(* Every step keeps the shapes.                                            *)
LEMMA ShapesHold == Spec => []Shapes
<1>1. Init => Shapes
  BY ParametersAssumption DEF Init, Shapes, TypeOK, HostOK, Machines, RegistryOK, PerCall, Phases, Statuses, NoSession,
         Direct
<1>2. Shapes /\ [Next]_vars => Shapes'
  <2> SUFFICES ASSUME Shapes, [Next]_vars PROVE Shapes'
    OBVIOUS
  <2> USE DEF pool, call, history, setup, Phases, Statuses, Direct
  <2>1. CASE Discover
    <3>1. RegistryOK'
      BY <2>1 DEF Discover, RegistryOK
    <3> QED
      BY <2>1, <3>1 DEF Discover, Shapes, TypeOK, HostOK, PerCall
  <2>2. ASSUME NEW t \in Tasks, NEW s \in Sites, Begin(t, s) PROVE Shapes'
    <3>1. Unburned \subseteq Proxies
      BY DEF Unburned
    <3>2. HostOK' /\ RegistryOK' /\ PerCall'
      BY <2>2 DEF Begin, Dispatch, Shapes, HostOK, RegistryOK, PerCall
    <3>3. \E i \in 1 .. Len(KnownAliases) : Launch(Direct)[1].target = KnownAliases[i]
      BY TargetKnown DEF Shapes
    <3>4. CASE Unburned = {}
      <4>1. \A q \in Tasks : session'[q] = IF q = t THEN Launch(Direct) ELSE session[q]
        BY <2>2, <3>4 DEF Begin, Dispatch, Shapes, PerCall
      <4>2. \A q \in Tasks : session'[q] # NoSession =>
               \E i \in 1 .. Len(KnownAliases) : session'[q][1].target = KnownAliases[i]
        BY <3>3, <4>1 DEF Shapes, TypeOK
      <4>3. \A q \in Tasks : phase'[q] = "checking" => candidates'[q] # {}
        BY <2>2, <3>4 DEF Begin, Dispatch, Shapes, TypeOK
      <4>4. TypeOK'
        BY <2>2, <3>1, <3>4, <4>2, <4>3 DEF Begin, Dispatch, Shapes, TypeOK
      <4> QED
        BY <3>2, <4>4 DEF Shapes
    <3>5. CASE Unburned # {}
      BY <2>2, <3>1, <3>2, <3>5 DEF Begin, Shapes, TypeOK
    <3> QED
      BY <3>4, <3>5
  <2>3. ASSUME NEW t \in Tasks, CheckPasses(t) PROVE Shapes'
    <3> DEFINE p == Checked(t)
    <3>1. p \in Proxies
      BY <2>3, CheckedIsCandidate DEF CheckPasses, Shapes
    <3>2. HostOK' /\ RegistryOK' /\ PerCall'
      BY <2>3 DEF CheckPasses, Dispatch, Shapes, HostOK, RegistryOK, PerCall
    <3>3. \E i \in 1 .. Len(KnownAliases) : Launch(p)[1].target = KnownAliases[i]
      BY TargetKnown DEF Shapes
    <3> HIDE DEF p
    <3>4. \A q \in Tasks : session'[q] = IF q = t THEN Launch(p) ELSE session[q]
      BY <2>3 DEF CheckPasses, Dispatch, Shapes, PerCall, p
    <3>5. \A q \in Tasks : session'[q] # NoSession =>
             \E i \in 1 .. Len(KnownAliases) : session'[q][1].target = KnownAliases[i]
      BY <3>3, <3>4 DEF Shapes, TypeOK
    <3>6. TypeOK'
      BY <2>3, <3>1, <3>5 DEF CheckPasses, Dispatch, Diagnose, Shapes, TypeOK, p
    <3> QED
      BY <3>2, <3>6 DEF Shapes
  <2>4. ASSUME NEW t \in Tasks, CheckFails(t) PROVE Shapes'
    <3> DEFINE p == Checked(t)
    <3>1. p \in Proxies /\ p \in candidates[t]
      BY <2>4, CheckedIsCandidate DEF CheckFails, Shapes
    <3>2. HostOK' /\ RegistryOK' /\ PerCall'
      BY <2>4 DEF CheckFails, Dispatch, Shapes, HostOK, RegistryOK, PerCall
    <3>3. \E i \in 1 .. Len(KnownAliases) : Launch(Direct)[1].target = KnownAliases[i]
      BY TargetKnown DEF Shapes
    <3> HIDE DEF p
    <3>4. \A q \in Tasks : session'[q] \in {session[q], Launch(Direct)}
      BY <2>4 DEF CheckFails, Dispatch, Shapes, PerCall
    <3>5. \A q \in Tasks : session'[q] # NoSession =>
             \E i \in 1 .. Len(KnownAliases) : session'[q][1].target = KnownAliases[i]
      BY <3>3, <3>4 DEF Shapes, TypeOK
    <3>6. \A q \in Tasks : phase'[q] = "checking" => candidates'[q] # {}
      BY <2>4, <3>1 DEF CheckFails, Dispatch, Shapes, TypeOK, p
    <3>7. TypeOK'
      BY <2>4, <3>1, <3>5, <3>6 DEF CheckFails, Dispatch, Diagnose, Shapes, TypeOK, p
    <3> QED
      BY <3>2, <3>7 DEF Shapes
  <2>5. ASSUME NEW t \in Tasks, NEW r \in Responses \union {NoResponse},
               NEW st \in Statuses \union {"raised"}, NEW c \in {"none", "success", "failure"},
               NEW ph \in {"writing", "ended"}, Ends(t, r, st, c, ph)
        PROVE  Shapes'
    <3>1. HostOK' /\ RegistryOK' /\ PerCall'
      BY <2>5 DEF Ends, Shapes, HostOK, RegistryOK, PerCall
    <3>2. \A q \in Tasks : session'[q] # NoSession =>
             \E i \in 1 .. Len(KnownAliases) : session'[q][1].target = KnownAliases[i]
      BY <2>5 DEF Ends, Shapes, TypeOK, PerCall
    <3>3. heard' \in [Tasks -> Responses \union {NoResponse}]
      BY <2>5 DEF Ends, Shapes, TypeOK
    <3> HIDE DEF Direct
    <3>4. TypeOK'
      BY <2>5, <3>2, <3>3 DEF Ends, Shapes, TypeOK
    <3> QED
      BY <3>1, <3>4 DEF Shapes
  <2>6. ASSUME NEW t \in Tasks, NEW r \in Responses \union {NoResponse}, Returns(t, r)
        PROVE  Shapes'
    BY <2>5, <2>6 DEF Returns
  <2>7. ASSUME NEW t \in Tasks, NEW r \in Responses \union {NoResponse}, Caught(t, r)
        PROVE  Shapes'
    <3>1. Mapped[Outcome(t, r)] \in Statuses
      BY <2>7 DEF Caught, Mapped
    <3> QED
      BY <2>5, <2>7, <3>1 DEF Caught
  <2>8. ASSUME NEW t \in Tasks, NEW r \in Responses \union {NoResponse}, Escapes(t, r)
        PROVE  Shapes'
    BY <2>5, <2>8 DEF Escapes
  <2>9. ASSUME NEW t \in Tasks, Persist(t) PROVE Shapes'
    BY <2>9 DEF Persist, Shapes, TypeOK, HostOK, RegistryOK, PerCall
  <2>10. ASSUME NEW p \in Proxies, MarkBurned(p) \/ CooldownEnds(p) PROVE Shapes'
    <3>1. HostOK' /\ RegistryOK' /\ PerCall'
      BY <2>10 DEF MarkBurned, CooldownEnds, Shapes, HostOK, RegistryOK, PerCall
    <3>2. /\ health' \in [Proxies -> {"unknown", "healthy", "unhealthy", "burned"}]
          /\ resting' \subseteq Proxies /\ overwritten' \subseteq resting' /\ burns' \in Nat
      <4>1. CASE MarkBurned(p)
        <5>1. health' = [health EXCEPT ![p] = "burned"] /\ resting' = resting \union {p}
              /\ overwritten' = overwritten \ {p} /\ burns' = burns + 1
          BY <4>1 DEF MarkBurned
        <5> QED
          BY <5>1 DEF Shapes, TypeOK
      <4>2. CASE CooldownEnds(p)
        <5>1. health' = health /\ resting' = resting \ {p} /\ overwritten' = overwritten \ {p}
              /\ burns' = burns
          BY <4>2 DEF CooldownEnds
        <5> QED
          BY <5>1 DEF Shapes, TypeOK
      <4> QED
        BY <2>10, <4>1, <4>2
    <3>3. /\ engine' = engine /\ phase' = phase /\ candidates' = candidates
          /\ assigned' = assigned /\ session' = session /\ heard' = heard /\ status' = status
          /\ counted' = counted /\ updates' = updates
      BY <2>10 DEF MarkBurned, CooldownEnds
    <3>4. TypeOK'
      BY <3>2, <3>3 DEF Shapes, TypeOK
    <3> QED
      BY <3>1, <3>4 DEF Shapes
  <2>11. ASSUME NEW v \in Versions, ChromeUpdates(v) PROVE Shapes'
    <3>1. HostOK'
      BY <2>11, ParametersAssumption DEF ChromeUpdates, Shapes, HostOK, Machines
    <3> QED
      BY <2>11, <3>1 DEF ChromeUpdates, Shapes, TypeOK, RegistryOK, PerCall
  <2>12. CASE UNCHANGED vars
    BY <2>12 DEF vars, Shapes, TypeOK, HostOK, RegistryOK, PerCall
  <2> QED
    BY <2>1, <2>2, <2>3, <2>4, <2>6, <2>7, <2>8, <2>9, <2>10, <2>11, <2>12 DEF Next, Serve
<1> QED
  BY <1>1, <1>2, PTL DEF Spec

(* Types: proof of the type invariant, an impersonated version that        *)
(* curl_cffi knows included.                                               *)
THEOREM TypesHold == Spec => []TypeOK
<1>1. Shapes => TypeOK
  BY DEF Shapes
<1> QED
  BY <1>1, ShapesHold, PTL

-----------------------------------------------------------------------------
(* The identity of a session: it is what Launch made of one major, for the *)
(* proxy of the call, and it is there exactly while the request is.        *)

BuiltFor(t) ==
    /\ session[t] # NoSession <=> phase[t] = "asked"
    /\ session[t] # NoSession =>
          \E major \in Nat :
             session[t][1] = [proxy |-> assigned[t], target |-> ImpersonateTarget(major),
                              profile |-> [name |-> session[t][1].profile.name, major |-> major,
                                           userAgent |-> DefaultMajor]]
Built == \A t \in Tasks : BuiltFor(t)

LEMMA DispatchBuilds ==
    ASSUME Shapes, Built, NEW t \in Tasks, NEW p, Dispatch(t, p)
    PROVE  Built'
<1>1. \A q \in Tasks : /\ session'[q] = IF q = t THEN Launch(p) ELSE session[q]
                       /\ assigned'[q] = IF q = t THEN p ELSE assigned[q]
                       /\ phase'[q] = IF q = t THEN "asked" ELSE phase[q]
  BY DEF Dispatch, Shapes, PerCall, TypeOK
<1>2. PICK major \in Nat :
         /\ Launch(p)[1] = [proxy |-> p, target |-> ImpersonateTarget(major),
                            profile |-> [name |-> TemplateKey(host), major |-> major,
                                         userAgent |-> DefaultMajor]]
         /\ Launch(p) # NoSession
  BY LaunchMade DEF Shapes
<1>3. Launch(p)[1].profile.name = TemplateKey(host)
  BY <1>2
<1>4. \A n : ImpersonateTarget(n)' = ImpersonateTarget(n)
  BY DEF ImpersonateTarget, AliasesUpTo
<1> QED
  BY <1>1, <1>2, <1>3, <1>4 DEF Built, BuiltFor

(* A call, and calls, without a change to their session, phase and proxy.  *)
LEMMA OneBuiltStays ==
    ASSUME NEW t, BuiltFor(t), session'[t] = session[t], assigned'[t] = assigned[t],
           phase'[t] = "asked" <=> phase[t] = "asked"
    PROVE  BuiltFor(t)'
BY DEF BuiltFor

LEMMA BuiltStays ==
    ASSUME Built, \A t \in Tasks : /\ session'[t] = session[t] /\ assigned'[t] = assigned[t]
                                   /\ phase'[t] = "asked" <=> phase[t] = "asked"
    PROVE  Built'
BY OneBuiltStays DEF Built

LEMMA EndsKeepsBuilt ==
    ASSUME Shapes, Built, NEW t \in Tasks, NEW r, NEW st, NEW c, NEW ph \in {"writing", "ended"},
           Ends(t, r, st, c, ph)
    PROVE  Built'
<1>1. \A q \in Tasks : /\ session'[q] = IF q = t THEN NoSession ELSE session[q]
                       /\ assigned'[q] = IF q = t THEN Direct ELSE assigned[q]
                       /\ phase'[q] = IF q = t THEN ph ELSE phase[q]
  BY DEF Ends, Shapes, PerCall, TypeOK
<1>2. phase'[t] # "asked" /\ session'[t] = NoSession
  BY <1>1
<1>3. \A q \in Tasks : q # t => /\ session'[q] = session[q] /\ assigned'[q] = assigned[q]
                                /\ phase'[q] = phase[q]
  BY <1>1
<1>4. BuiltFor(t)'
  BY <1>2 DEF BuiltFor
<1>5. ASSUME NEW q \in Tasks, q # t PROVE BuiltFor(q)'
  BY <1>3, <1>5, OneBuiltStays DEF Built
<1> QED
  BY <1>4, <1>5 DEF Built

LEMMA BuiltHolds == Spec => []Built
<1>1. Init => Built
  BY DEF Init, Built, BuiltFor, NoSession
<1>2. Shapes /\ Built /\ [Next]_vars => Built'
  <2> SUFFICES ASSUME Shapes, Built, [Next]_vars PROVE Built'
    OBVIOUS
  <2> USE DEF pool, call, history, setup
  <2>1. CASE Discover
    BY <2>1, BuiltStays DEF Discover
  <2>2. ASSUME NEW t \in Tasks, NEW s \in Sites, Begin(t, s) PROVE Built'
    <3>1. CASE Unburned = {}
      BY <2>2, <3>1, DispatchBuilds DEF Begin
    <3>2. CASE Unburned # {}
      <4>1. /\ session' = session /\ assigned' = assigned /\ phase[t] = "idle"
            /\ phase' = [phase EXCEPT ![t] = "checking"]
        BY <2>2, <3>2 DEF Begin
      <4> QED
        BY <4>1, BuiltStays DEF Shapes, TypeOK
    <3> QED
      BY <3>1, <3>2
  <2>3. ASSUME NEW t \in Tasks, CheckPasses(t) PROVE Built'
    BY <2>3, DispatchBuilds DEF CheckPasses
  <2>4. ASSUME NEW t \in Tasks, CheckFails(t) PROVE Built'
    <3>1. CASE candidates[t] = {Checked(t)}
      BY <2>4, <3>1, DispatchBuilds DEF CheckFails
    <3>2. CASE candidates[t] # {Checked(t)}
      BY <2>4, <3>2, BuiltStays DEF CheckFails
    <3> QED
      BY <3>1, <3>2
  <2>5. ASSUME NEW t \in Tasks, NEW r \in Responses \union {NoResponse},
               Returns(t, r) \/ Caught(t, r) \/ Escapes(t, r)
        PROVE  Built'
    BY <2>5, EndsKeepsBuilt DEF Returns, Caught, Escapes
  <2>6. ASSUME NEW t \in Tasks, Persist(t) PROVE Built'
    <3>1. /\ session' = session /\ assigned' = assigned /\ phase[t] = "writing"
          /\ phase' = [phase EXCEPT ![t] = "ended"]
      BY <2>6 DEF Persist
    <3> QED
      BY <3>1, BuiltStays DEF Shapes, TypeOK
  <2>7. ASSUME NEW p \in Proxies, MarkBurned(p) \/ CooldownEnds(p) PROVE Built'
    <3>1. session' = session /\ assigned' = assigned /\ phase' = phase
      BY <2>7 DEF MarkBurned, CooldownEnds
    <3> QED
      BY <3>1, BuiltStays
  <2>8. ASSUME NEW v \in Versions, ChromeUpdates(v) PROVE Built'
    BY <2>8, BuiltStays DEF ChromeUpdates
  <2>9. CASE UNCHANGED vars
    BY <2>9, BuiltStays DEF vars
  <2> QED
    BY <2>1, <2>2, <2>3, <2>4, <2>5, <2>6, <2>7, <2>8, <2>9 DEF Next, Serve
<1> QED
  BY <1>1, <1>2, ShapesHold, PTL DEF Spec

(* A session is one identity: its proxy is the call's, and User-Agent and  *)
(* TLS name the same Chrome exactly when the template is the closest.      *)
THEOREM OneIdentityHolds == Spec => []OneIdentity
<1>1. Built => OneIdentity
  <2> SUFFICES ASSUME Built, NEW t \in Tasks, session[t] # NoSession
               PROVE  LET s == session[t][1]
                      IN  /\ s.proxy = assigned[t]
                          /\ s.target <= s.profile.major \/ s.target = KnownAliases[1]
                          /\ Closest(s.profile.major, s.target)
                          /\ s.profile.userAgent = s.target
                                <=> /\ DefaultMajor <= s.profile.major
                                       \/ DefaultMajor = KnownAliases[1]
                                    /\ Closest(s.profile.major, DefaultMajor)
    BY DEF OneIdentity, Built, BuiltFor, Closest
  <2>1. PICK major \in Nat :
           session[t][1] = [proxy |-> assigned[t], target |-> ImpersonateTarget(major),
                            profile |-> [name |-> session[t][1].profile.name, major |-> major,
                                         userAgent |-> DefaultMajor]]
    BY DEF Built, BuiltFor
  <2> DEFINE s == session[t][1]
  <2>2. /\ s.proxy = assigned[t] /\ s.target = ImpersonateTarget(major)
        /\ s.profile.major = major /\ s.profile.userAgent = DefaultMajor
    BY <2>1
  <2> HIDE DEF s
  <2> QED
    BY <2>2, TargetIsClosest DEF s
<1> QED
  BY <1>1, BuiltHolds, PTL

-----------------------------------------------------------------------------
(* The proxy: while a call checks, every proxy is to come, failed, or was  *)
(* left out; and a resting proxy without its mark had it overwritten.      *)

Tried == \A t \in Tasks :
    /\ phase[t] = "checking" => /\ Proxies \subseteq candidates[t] \union failed[t] \union leftOut[t]
                               /\ candidates[t] \intersect failed[t] = {}
    /\ phase[t] = "idle" => failed[t] = {}

Marked == \A p \in resting : health[p] = "burned" \/ p \in overwritten

LEMMA TriedStays ==
    ASSUME Tried, \A t \in Tasks : /\ candidates'[t] = candidates[t] /\ failed'[t] = failed[t]
                                   /\ leftOut'[t] = leftOut[t] /\ phase'[t] = phase[t]
    PROVE  Tried'
BY DEF Tried

LEMMA TriedHolds == Spec => [](Tried /\ Marked)
<1>1. Init => Tried /\ Marked
  BY DEF Init, Tried, Marked
<1>2. Shapes /\ Tried /\ Marked /\ [Next]_vars => Tried' /\ Marked'
  <2> SUFFICES ASSUME Shapes, Tried, Marked, [Next]_vars PROVE Tried' /\ Marked'
    OBVIOUS
  <2> USE DEF pool, call, history, setup
  <2>1. CASE Discover
    BY <2>1, TriedStays DEF Discover, Marked
  <2>2. ASSUME NEW t \in Tasks, NEW s \in Sites, Begin(t, s) PROVE Tried' /\ Marked'
    <3>1. \A p \in Proxies : health'[p] = IF health[p] = "burned" /\ p \in Unburned
                                          THEN "unknown" ELSE health[p]
      BY <2>2 DEF Begin
    <3>2. Marked'
      BY <2>2, <3>1 DEF Begin, Marked, Unburned, Shapes, TypeOK
    <3>3. /\ phase[t] = "idle" /\ failed' = failed
          /\ candidates' = [candidates EXCEPT ![t] = Unburned]
          /\ leftOut' = [leftOut EXCEPT ![t] = Proxies \ Unburned]
          /\ \A q \in Tasks : q # t => phase'[q] = phase[q]
          /\ phase'[t] \in {"checking", "asked"}
      BY <2>2 DEF Begin, Dispatch, Shapes, TypeOK
    <3>4. Tried'
      BY <3>3 DEF Tried, Shapes, TypeOK, PerCall
    <3> QED
      BY <3>2, <3>4
  <2>3. ASSUME NEW t \in Tasks, CheckPasses(t) PROVE Tried' /\ Marked'
    <3>1. Marked'
      BY <2>3 DEF CheckPasses, Diagnose, Marked, Shapes, TypeOK
    <3>2. /\ candidates' = candidates /\ failed' = failed /\ leftOut' = leftOut
          /\ \A q \in Tasks : phase'[q] = IF q = t THEN "asked" ELSE phase[q]
      BY <2>3 DEF CheckPasses, Dispatch, Shapes, TypeOK
    <3>3. Tried'
      BY <3>2 DEF Tried
    <3> QED
      BY <3>1, <3>3
  <2>4. ASSUME NEW t \in Tasks, CheckFails(t) PROVE Tried' /\ Marked'
    <3>1. Marked'
      BY <2>4 DEF CheckFails, Diagnose, Marked, Shapes, TypeOK
    <3>2. \A q \in Tasks : phase'[q] = phase[q] \/ phase'[q] = "asked"
      BY <2>4 DEF CheckFails, Dispatch, Shapes, TypeOK
    <3> DEFINE p == Checked(t)
    <3> HIDE DEF p
    <3>4. /\ phase[t] = "checking" /\ leftOut' = leftOut
          /\ candidates'[t] = candidates[t] \ {p} /\ failed'[t] = failed[t] \union {p}
          /\ \A q \in Tasks : q # t => candidates'[q] = candidates[q] /\ failed'[q] = failed[q]
      <4>1. /\ phase[t] = "checking" /\ leftOut' = leftOut
            /\ candidates' = [candidates EXCEPT ![t] = @ \ {p}]
            /\ failed' = [failed EXCEPT ![t] = @ \union {p}]
        BY <2>4 DEF CheckFails, p
      <4> QED
        BY <4>1 DEF Shapes, TypeOK, PerCall
    <3>3. Tried'
      <4>1. \A q \in Tasks : q # t => /\ phase'[q] = "checking" => phase[q] = "checking"
                                      /\ phase'[q] = "idle" => phase[q] = "idle"
                                      /\ candidates'[q] = candidates[q] /\ failed'[q] = failed[q]
                                      /\ leftOut'[q] = leftOut[q]
        BY <3>2, <3>4
      <4>2. /\ phase'[t] # "idle"
            /\ Proxies \subseteq candidates'[t] \union failed'[t] \union leftOut'[t]
            /\ candidates'[t] \intersect failed'[t] = {}
        BY <3>2, <3>4 DEF Tried
      <4> QED
        BY <4>1, <4>2 DEF Tried
    <3> QED
      BY <3>1, <3>3
  <2>5. ASSUME NEW t \in Tasks, NEW r \in Responses \union {NoResponse},
               Returns(t, r) \/ Caught(t, r) \/ Escapes(t, r)
        PROVE  Tried' /\ Marked'
    <3>1. PICK st, c : \E ph \in {"writing", "ended"} : Ends(t, r, st, c, ph)
      BY <2>5 DEF Returns, Caught, Escapes
    <3>2. PICK ph \in {"writing", "ended"} : Ends(t, r, st, c, ph)
      BY <3>1
    <3>3. \A q \in Tasks : /\ phase'[q] = IF q = t THEN ph ELSE phase[q]
                           /\ q # t => candidates'[q] = candidates[q] /\ failed'[q] = failed[q]
                                       /\ leftOut'[q] = leftOut[q]
      BY <3>2 DEF Ends, Shapes, TypeOK, PerCall
    <3>4. Tried'
      BY <3>3 DEF Tried
    <3>5. Marked'
      BY <3>2 DEF Ends, Marked
    <3> QED
      BY <3>4, <3>5
  <2>6. ASSUME NEW t \in Tasks, Persist(t) PROVE Tried' /\ Marked'
    <3>1. /\ candidates' = candidates /\ failed' = failed /\ leftOut' = leftOut
          /\ phase' = [phase EXCEPT ![t] = "ended"]
          /\ health' = health /\ resting' = resting /\ overwritten' = overwritten
      BY <2>6 DEF Persist
    <3> QED
      BY <3>1 DEF Tried, Marked, Shapes, TypeOK
  <2>7. ASSUME NEW p \in Proxies, MarkBurned(p) \/ CooldownEnds(p) PROVE Tried' /\ Marked'
    <3>1. candidates' = candidates /\ failed' = failed /\ leftOut' = leftOut /\ phase' = phase
      BY <2>7 DEF MarkBurned, CooldownEnds
    <3>2. CASE MarkBurned(p)
      <4>1. health' = [health EXCEPT ![p] = "burned"] /\ resting' = resting \union {p}
            /\ overwritten' = overwritten \ {p}
        BY <3>2 DEF MarkBurned
      <4> QED
        BY <3>1, <4>1, TriedStays DEF Marked, Shapes, TypeOK
    <3>3. CASE CooldownEnds(p)
      <4>1. health' = health /\ resting' = resting \ {p} /\ overwritten' = overwritten \ {p}
        BY <3>3 DEF CooldownEnds
      <4> QED
        BY <3>1, <4>1, TriedStays DEF Marked
    <3> QED
      BY <2>7, <3>2, <3>3
  <2>8. ASSUME NEW v \in Versions, ChromeUpdates(v) PROVE Tried' /\ Marked'
    BY <2>8, TriedStays DEF ChromeUpdates, Marked
  <2>9. CASE UNCHANGED vars
    BY <2>9, TriedStays DEF vars, Marked
  <2> QED
    BY <2>1, <2>2, <2>3, <2>4, <2>5, <2>6, <2>7, <2>8, <2>9 DEF Next, Serve
<1> QED
  BY <1>1, <1>2, ShapesHold, PTL DEF Spec

(* The step by which a call goes out.                                      *)
Vouched(t) ==
    IF assigned'[t] = Direct
    THEN Proxies \subseteq failed'[t] \union leftOut'[t]
    ELSE /\ assigned'[t] \notin failed[t]
         /\ \A q \in Proxies : q < assigned'[t] => q \in failed[t] \union leftOut[t]
         /\ assigned'[t] \in resting => assigned'[t] \in overwritten'

(* A call goes out without proxy only when no proxy is left, and with one  *)
(* only when it is the first that answered; a burned one by overwriting.   *)
THEOREM ProxyIsVouchedHolds == Spec => ProxyIsVouched
<1>1. Shapes /\ Tried /\ Marked /\ [Next]_vars =>
         [\A t \in Tasks : phase[t] # "asked" /\ phase'[t] = "asked" => Vouched(t)]_vars
  <2> SUFFICES ASSUME Shapes, Tried, Marked, Next,
                      NEW t \in Tasks, phase[t] # "asked", phase'[t] = "asked"
               PROVE  Vouched(t)
    OBVIOUS
  <2> USE DEF pool, call, history, setup
  <2>1. ASSUME NEW u \in Tasks, NEW s \in Sites, Begin(u, s) PROVE Vouched(t)
    <3>1. u = t /\ Unburned = {}
      BY <2>1 DEF Begin, Dispatch, Shapes, TypeOK
    <3>2. assigned'[t] = Direct /\ leftOut'[t] = Proxies
      BY <2>1, <3>1 DEF Begin, Dispatch, Shapes, TypeOK, PerCall
    <3> QED
      BY <3>2 DEF Vouched
  <2>2. ASSUME NEW u \in Tasks, CheckPasses(u) PROVE Vouched(t)
    <3>1. u = t /\ phase[t] = "checking" /\ assigned'[t] = Checked(t)
      BY <2>2 DEF CheckPasses, Dispatch, Shapes, TypeOK
    <3> DEFINE p == Checked(t)
    <3>2. p \in candidates[t] /\ p \in Proxies /\ \A q \in candidates[t] : p <= q
      BY <3>1, CheckedIsCandidate DEF Shapes
    <3>3. p \in resting => p \in overwritten'
      BY <2>2, <3>1, <3>2 DEF CheckPasses, Diagnose, Marked
    <3> HIDE DEF p
    <3>4. p # Direct /\ p \in Nat
      BY <3>2 DEF Proxies, Direct
    <3>5. \A q \in Proxies : q < p => q \notin candidates[t]
      BY <3>2, <3>4 DEF Proxies
    <3>6. p \notin failed[t] /\ \A q \in Proxies : q < p => q \in failed[t] \union leftOut[t]
      BY <3>1, <3>2, <3>5 DEF Tried
    <3> QED
      BY <3>1, <3>3, <3>4, <3>6 DEF Vouched, p
  <2>3. ASSUME NEW u \in Tasks, CheckFails(u) PROVE Vouched(t)
    <3>1. u = t /\ phase[t] = "checking" /\ candidates[t] = {Checked(t)}
      BY <2>3 DEF CheckFails, Dispatch, Shapes, TypeOK
    <3>2. /\ assigned'[t] = Direct /\ failed'[t] = failed[t] \union {Checked(t)}
          /\ leftOut' = leftOut
      BY <2>3, <3>1 DEF CheckFails, Dispatch, Shapes, TypeOK, PerCall
    <3> QED
      BY <3>1, <3>2 DEF Vouched, Tried
  <2>4. ASSUME NEW u \in Tasks, NEW r \in Responses \union {NoResponse},
               Returns(u, r) \/ Caught(u, r) \/ Escapes(u, r)
        PROVE  FALSE
    <3>1. PICK st, c : \E ph \in {"writing", "ended"} : Ends(u, r, st, c, ph)
      BY <2>4 DEF Returns, Caught, Escapes
    <3> QED
      BY <3>1 DEF Ends, Shapes, TypeOK
  <2>5. ASSUME NEW u \in Tasks, Persist(u) PROVE FALSE
    BY <2>5 DEF Persist, Shapes, TypeOK
  <2>6. CASE \/ Discover \/ \E p \in Proxies : MarkBurned(p) \/ CooldownEnds(p)
             \/ \E v \in Versions : ChromeUpdates(v)
    BY <2>6 DEF Discover, MarkBurned, CooldownEnds, ChromeUpdates
  <2> QED
    BY <2>1, <2>2, <2>3, <2>4, <2>5, <2>6 DEF Next, Serve
<1> QED
  BY <1>1, ShapesHold, TriedHolds, PTL DEF Spec, ProxyIsVouched, Vouched

-----------------------------------------------------------------------------
(* The outcome: which answers lead to it, whatever the registry holds, and *)
(* that a call keeps its registry, its answer and what was told of it.     *)

Community(t) == ScraperFor(site[t]) # "public"
Article(t) == IF Community(t) THEN {"post", "stub"} ELSE {"page"}

LEMMA ScraperKnown ==
    ASSUME RegistryOK, NEW s
    PROVE  ScraperFor(s) \in {"public"} \union Modules
<1> DEFINE bound == {i \in 1 .. Len(s) : SubSeq(s, i, Len(s)) \in DOMAIN registry}
<1>1. CASE bound = {}
  BY <1>1 DEF ScraperFor
<1>2. CASE bound # {}
  <2>1. bound \subseteq Nat
    OBVIOUS
  <2>2. Min(bound) \in bound
    BY <1>2, <2>1, MinIsLeast
  <2>3. ScraperFor(s) = registry[SubSeq(s, Min(bound), Len(s))]
    BY <1>2 DEF ScraperFor
  <2>4. SubSeq(s, Min(bound), Len(s)) \in DOMAIN registry
    BY <2>2
  <2> HIDE DEF bound
  <2> QED
    BY <2>3, <2>4 DEF RegistryOK
<1> QED
  BY <1>1, <1>2

LEMMA ResponseShape ==
    ASSUME NEW r \in Responses
    PROVE  /\ r # NoResponse
           /\ r.code \in {403, 429, 503} \/ (r.code = 200 /\ r.body \in Bodies)
<1>1. r.code \in {403, 429, 503} \/ (r.code = 200 /\ r.body \in Bodies)
  <2>1. CASE r \in [code : {200}, marker : {FALSE}, body : Bodies]
    BY <2>1
  <2>2. CASE r \in [code : {403, 429, 503}, marker : BOOLEAN, body : {"page"}]
    BY <2>2
  <2>3. \/ r \in [code : {200}, marker : {FALSE}, body : Bodies]
        \/ r \in [code : {403, 429, 503}, marker : BOOLEAN, body : {"page"}]
    BY Zenon DEF Responses
  <2> QED
    BY <2>1, <2>2, <2>3, Zenon
<1>2. NoResponse.code = 0
  BY DEF NoResponse
<1> QED
  BY <1>1, <1>2

LEMMA OutcomeOfNoAnswer ==
    ASSUME NEW t
    PROVE  Outcome(t, NoResponse) = "RequestsError" /\ NoResponse.code = 0
BY DEF Outcome, NoResponse

LEMMA OutcomeOfAnswer ==
    ASSUME RegistryOK, NEW t, NEW r \in Responses
    PROVE  /\ Outcome(t, r) \in {"success", "error", "ValueError", "ChallengeError",
                                "RateLimitError", "DriverError"}
           /\ Outcome(t, r) = "success" => r.code = 200 /\ r.body \in Article(t)
           /\ Outcome(t, r) = "ChallengeError" =>
                 r.marker \/ (~ Community(t) /\ r.code = 200 /\ r.body # "page")
           /\ Outcome(t, r) = "RateLimitError" <=> r.code = 429
           /\ Outcome(t, r) = "ValueError" =>
                 Community(t) /\ r.code = 200 /\ r.body \notin Article(t)
<1>1. r # NoResponse
  BY ResponseShape
<1>2. CASE r.code \in {403, 429, 503}
  <2>1. Outcome(t, r) = HttpError(r) /\ r.code # 200
    BY <1>1, <1>2 DEF Outcome
  <2> QED
    BY <1>2, <2>1 DEF HttpError
<1>3. CASE r.code = 200 /\ r.body \in Bodies
  <2>1. CASE ScraperFor(site[t]) = "public"
    <3>1. Outcome(t, r) = ReadPublic(r) /\ ~ Community(t) /\ Article(t) = {"page"}
      BY <1>1, <1>3, <2>1 DEF Outcome, Community, Article
    <3> QED
      BY <1>3, <3>1 DEF ReadPublic, ResponseIsValid, BlockSignature, MainTextLong
  <2>2. CASE ScraperFor(site[t]) = "reddit"
    <3>1. /\ Outcome(t, r) = ReadReddit(r) /\ Community(t)
          /\ Article(t) = {"post", "stub"}
      BY <1>1, <1>3, <2>2 DEF Outcome, Community, Article
    <3>2. ReadReddit(r) = IF r.body \in {"post", "stub"} THEN "success" ELSE "ValueError"
      BY DEF ReadReddit, IsJson, IsRedditPost, HtmlBodies
    <3> QED
      BY <1>3, <3>1, <3>2
  <2>3. CASE ScraperFor(site[t]) = "substack"
    <3>1. /\ Outcome(t, r) = ReadSubstack(r) /\ Community(t)
          /\ Article(t) = {"post", "stub"}
      BY <1>1, <1>3, <2>3 DEF Outcome, Community, Article
    <3>2. CASE r.body \in HtmlBodies
      <4>1. ReadSubstack(r) = "ValueError" /\ r.body \notin {"post", "stub"}
        <5>1. ~ IsJson(r)
          BY <3>2 DEF IsJson
        <5>2. r.body \notin {"post", "stub", "json"}
          BY <3>2 DEF HtmlBodies
        <5> QED
          BY <5>1, <5>2 DEF ReadSubstack, IsPaywalled
      <4> QED
        BY <1>3, <3>1, <4>1
    <3>3. CASE r.body \in {"post", "stub", "json"}
      <4>0. IsJson(r)
        BY <3>3 DEF IsJson, HtmlBodies
      <4>1. /\ ReadSubstack(r) \in {"success", "error"}
            /\ ReadSubstack(r) = "success" => r.body = "post"
        <5>1. CASE r.body = "json"
          BY <4>0, <5>1 DEF ReadSubstack, IsPaywalled
        <5>2. CASE r.body = "stub"
          BY <4>0, <5>2 DEF ReadSubstack, IsPaywalled
        <5>3. CASE r.body = "post"
          BY <4>0, <5>3 DEF ReadSubstack, IsPaywalled
        <5> QED
          BY <3>3, <5>1, <5>2, <5>3
      <4> QED
        BY <1>3, <3>1, <4>1
    <3> QED
      BY <1>3, <3>2, <3>3 DEF Bodies
  <2> QED
    BY <2>1, <2>2, <2>3, ScraperKnown DEF Modules
<1> QED
  BY <1>2, <1>3, ResponseShape

(* What is claimed of one call, by phase.                                  *)
Explained(t) ==
    /\ phase[t] # "idle" => engine = "ready"
    /\ phase[t] = "writing" => /\ status[t] = "success" /\ counted[t] = "success"
                              /\ heard[t].code = 200 /\ heard[t].body \in Article(t)
    /\ phase[t] = "ended" =>
          /\ status[t] = "success" => counted[t] = "success"
          /\ counted[t] = "success" => heard[t].code = 200 /\ heard[t].body \in Article(t)
          /\ status[t] = "challenge" =>
                \/ heard[t].marker
                \/ ~ Community(t) /\ heard[t].code = 200 /\ heard[t].body # "page"
          /\ status[t] = "rate_limited" <=> heard[t].code = 429
          /\ status[t] # "proxy_failed"
          /\ counted[t] = "none" =>
                /\ status[t] = "raised"
                /\ \/ heard[t] = NoResponse
                   \/ Community(t) /\ heard[t].code = 200 /\ heard[t].body \notin Article(t)

(* A call to which nothing happens.                                        *)
LEMMA ExplainedStays ==
    ASSUME NEW t, Explained(t), engine' = engine, registry' = registry, site'[t] = site[t],
           phase'[t] = phase[t], status'[t] = status[t], counted'[t] = counted[t],
           heard'[t] = heard[t]
    PROVE  Explained(t)'
<1>1. Community(t)' = Community(t) /\ Article(t)' = Article(t)
  BY DEF Community, Article, ScraperFor
<1> QED
  BY <1>1 DEF Explained

(* A call before its end: only the engine matters.                         *)
LEMMA ExplainedBefore ==
    ASSUME NEW t, phase'[t] \in {"checking", "asked"}, engine' = "ready"
    PROVE  Explained(t)'
BY DEF Explained

(* The end of a request, for the call it belongs to.                       *)
LEMMA EndExplained ==
    ASSUME Shapes, NEW t \in Tasks, Explained(t), NEW r \in Responses \union {NoResponse},
           Returns(t, r) \/ Caught(t, r) \/ Escapes(t, r)
    PROVE  Explained(t)'
<1> DEFINE o == Outcome(t, r)
<1>1. PICK st, c : \E ph \in {"writing", "ended"} :
         /\ Ends(t, r, st, c, ph)
         /\ \/ o = "success" /\ st = "success" /\ c = "success" /\ ph = "writing"
            \/ o = "error" /\ st = "error" /\ c = "failure" /\ ph = "ended"
            \/ o \in DOMAIN Mapped /\ st = Mapped[o] /\ c = "failure" /\ ph = "ended"
            \/ o \in {"RequestsError", "ValueError"} /\ st = "raised" /\ c = "none" /\ ph = "ended"
  BY DEF Returns, Caught, Escapes
<1>2. PICK ph \in {"writing", "ended"} :
         /\ Ends(t, r, st, c, ph)
         /\ \/ o = "success" /\ st = "success" /\ c = "success" /\ ph = "writing"
            \/ o = "error" /\ st = "error" /\ c = "failure" /\ ph = "ended"
            \/ o \in DOMAIN Mapped /\ st = Mapped[o] /\ c = "failure" /\ ph = "ended"
            \/ o \in {"RequestsError", "ValueError"} /\ st = "raised" /\ c = "none" /\ ph = "ended"
  BY <1>1
<1>3. /\ phase[t] = "asked" /\ engine' = engine /\ registry' = registry /\ site' = site
      /\ heard'[t] = r /\ status'[t] = st /\ counted'[t] = c /\ phase'[t] = ph
  BY <1>2 DEF Ends, setup, Shapes, TypeOK
<1>4. Community(t)' = Community(t) /\ Article(t)' = Article(t)
  BY <1>3 DEF Community, Article, ScraperFor
<1>5. engine' = "ready"
  BY <1>3 DEF Explained
<1> HIDE DEF o
<1>6. CASE r = NoResponse
  <2>1. o = "RequestsError" /\ r.code = 0
    BY <1>6, OutcomeOfNoAnswer DEF o
  <2>2. st = "raised" /\ c = "none" /\ ph = "ended"
    BY <1>2, <2>1 DEF Mapped
  <2> QED
    BY <1>3, <1>5, <1>6, <2>1, <2>2 DEF Explained
<1>7. CASE r \in Responses
  <2>1. /\ o \in {"success", "error", "ValueError", "ChallengeError", "RateLimitError",
                  "DriverError"}
        /\ o = "success" => r.code = 200 /\ r.body \in Article(t)
        /\ o = "ChallengeError" =>
              r.marker \/ (~ Community(t) /\ r.code = 200 /\ r.body # "page")
        /\ o = "RateLimitError" <=> r.code = 429
        /\ o = "ValueError" => Community(t) /\ r.code = 200 /\ r.body \notin Article(t)
    BY <1>7, OutcomeOfAnswer DEF Shapes, o
  <2>2. CASE o \in {"success", "error", "ValueError"}
    BY <1>2, <1>3, <1>4, <1>5, <2>1, <2>2 DEF Explained, Mapped
  <2>3. CASE o \in {"ChallengeError", "RateLimitError", "DriverError"}
    <3>1. /\ ph = "ended" /\ c = "failure" /\ st \in {"challenge", "rate_limited", "error"}
          /\ st = "challenge" <=> o = "ChallengeError"
          /\ st = "rate_limited" <=> o = "RateLimitError"
      BY <1>2, <2>3 DEF Mapped
    <3> QED
      BY <1>3, <1>4, <1>5, <2>1, <3>1 DEF Explained
  <2> QED
    BY <2>1, <2>2, <2>3
<1> QED
  BY <1>6, <1>7

(* What the caller and the breaker learn follows from the answer.          *)
THEOREM OutcomeExplainedHolds == Spec => []OutcomeExplained
<1> DEFINE AllExplained == \A t \in Tasks : Explained(t)
<1>1. Init => AllExplained
  BY DEF Init, Explained
<1>2. Shapes /\ AllExplained /\ [Next]_vars => AllExplained'
  <2> SUFFICES ASSUME Shapes, AllExplained, [Next]_vars, NEW t \in Tasks PROVE Explained(t)'
    OBVIOUS
  <2>0. Explained(t)
    OBVIOUS
  <2> HIDE DEF AllExplained
  <2> USE DEF pool, call, history, setup
  <2>1. CASE Discover
    <3>1. phase[t] = "idle" /\ phase' = phase
      BY <2>0, <2>1 DEF Discover, Explained
    <3> QED
      BY <3>1 DEF Explained
  <2>2. ASSUME NEW u \in Tasks, NEW s \in Sites, Begin(u, s) PROVE Explained(t)'
    <3>1. /\ engine = "ready" /\ engine' = engine /\ registry' = registry
          /\ status' = status /\ counted' = counted /\ heard' = heard
          /\ site' = [site EXCEPT ![u] = s]
          /\ phase' \in {[phase EXCEPT ![u] = "checking"], [phase EXCEPT ![u] = "asked"]}
      BY <2>2 DEF Begin, Dispatch
    <3>2. CASE u = t
      BY <3>1, <3>2, ExplainedBefore DEF Shapes, TypeOK
    <3>3. CASE u # t
      <4>1. site'[t] = site[t] /\ phase'[t] = phase[t]
        BY <3>1, <3>3 DEF Shapes, TypeOK, PerCall
      <4> QED
        BY <2>0, <3>1, <4>1, ExplainedStays
    <3> QED
      BY <3>2, <3>3
  <2>3. ASSUME NEW u \in Tasks, CheckPasses(u) \/ CheckFails(u) PROVE Explained(t)'
    <3>1. /\ engine' = engine /\ registry' = registry /\ site' = site /\ phase[u] = "checking"
          /\ status' = status /\ counted' = counted /\ heard' = heard
          /\ phase' \in {phase, [phase EXCEPT ![u] = "asked"]}
      BY <2>3 DEF CheckPasses, CheckFails, Dispatch
    <3>2. CASE phase'[t] = phase[t]
      BY <2>0, <3>1, <3>2, ExplainedStays
    <3>3. CASE phase'[t] # phase[t]
      <4>1. u = t /\ phase'[t] = "asked"
        BY <3>1, <3>3 DEF Shapes, TypeOK
      <4>2. engine = "ready"
        BY <2>0, <3>1, <4>1 DEF Explained
      <4> QED
        BY <3>1, <4>1, <4>2, ExplainedBefore
    <3> QED
      BY <3>2, <3>3
  <2>4. ASSUME NEW u \in Tasks, NEW r \in Responses \union {NoResponse},
               Returns(u, r) \/ Caught(u, r) \/ Escapes(u, r)
        PROVE  Explained(t)'
    <3>1. CASE u = t
      BY <2>0, <2>4, <3>1, EndExplained
    <3>2. CASE u # t
      <4>1. PICK st, c : \E ph \in {"writing", "ended"} : Ends(u, r, st, c, ph)
        BY <2>4 DEF Returns, Caught, Escapes
      <4>2. /\ engine' = engine /\ registry' = registry /\ site' = site
            /\ phase'[t] = phase[t] /\ status'[t] = status[t] /\ counted'[t] = counted[t]
            /\ heard'[t] = heard[t]
        BY <3>2, <4>1 DEF Ends, Shapes, TypeOK
      <4> QED
        BY <2>0, <4>2, ExplainedStays
    <3> QED
      BY <3>1, <3>2
  <2>5. ASSUME NEW u \in Tasks, Persist(u) PROVE Explained(t)'
    <3>1. /\ engine' = engine /\ registry' = registry /\ site' = site /\ phase[u] = "writing"
          /\ counted' = counted /\ heard' = heard /\ phase' = [phase EXCEPT ![u] = "ended"]
          /\ status' \in {status, [status EXCEPT ![u] = "raised"]}
      BY <2>5 DEF Persist
    <3>2. CASE u = t
      <4>1. phase'[t] = "ended" /\ status'[t] \in {status[t], "raised"}
        BY <3>1, <3>2 DEF Shapes, TypeOK
      <4>2. Community(t)' = Community(t) /\ Article(t)' = Article(t)
        BY <3>1 DEF Community, Article, ScraperFor
      <4>3. /\ status[t] = "success" /\ counted[t] = "success" /\ engine = "ready"
            /\ heard[t].code = 200 /\ heard[t].body \in Article(t)
        BY <2>0, <3>1, <3>2 DEF Explained
      <4> QED
        BY <3>1, <4>1, <4>2, <4>3 DEF Explained
    <3>3. CASE u # t
      <4>1. phase'[t] = phase[t] /\ status'[t] = status[t]
        BY <3>1, <3>3 DEF Shapes, TypeOK
      <4> QED
        BY <2>0, <3>1, <4>1, ExplainedStays
    <3> QED
      BY <3>2, <3>3
  <2>6. CASE \/ \E p \in Proxies : MarkBurned(p) \/ CooldownEnds(p)
             \/ \E v \in Versions : ChromeUpdates(v)
             \/ UNCHANGED vars
    <3>1. /\ engine' = engine /\ registry' = registry /\ site' = site /\ phase' = phase
          /\ status' = status /\ counted' = counted /\ heard' = heard
      BY <2>6 DEF MarkBurned, CooldownEnds, ChromeUpdates, vars
    <3> QED
      BY <2>0, <3>1, ExplainedStays
  <2> QED
    BY <2>1, <2>2, <2>3, <2>4, <2>5, <2>6 DEF Next, Serve
<1>3. AllExplained => OutcomeExplained
  BY DEF OutcomeExplained, Explained, Community, Article
<1> QED
  BY <1>1, <1>2, <1>3, ShapesHold, PTL DEF Spec
=============================================================================
