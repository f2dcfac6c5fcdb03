----------------------------- MODULE ScrapeCall -----------------------------
(***************************************************************************)
(* One ScrapeEngine.scrape after the other side of the gate: route by the  *)
(* registry, a proxy that answers its health check, a fresh StealthBridge  *)
(* with its fingerprint, the curl_cffi session, one request, the scraper's *)
(* reading of the answer, and what the engine makes of the outcome.        *)
(* Several calls share one engine and so one ProxyRotator.                 *)
(*                                                                         *)
(* ScrapeEngine models the gate and the slot before, and leaves to choice  *)
(* what is worked out here.  Each action runs to the next await: the       *)
(* request of a health check, the page request, the sink; the close of a   *)
(* session belongs to the step that hears the answer.  mark_burned is part *)
(* of the rotator's interface although nothing but tests calls it yet.     *)
(***************************************************************************)
EXTENDS Naturals, Sequences, FiniteSetsExt

CONSTANTS Tasks,          \* concurrent calls of scrape
          NumProxies,     \* lines of the proxy list file
          Sites,          \* host names, as sequences of labels
          Hosts,          \* machines: the os, what each probe for Chrome finds,
                          \* modules that cannot be imported for want of a
                          \* dependency, and SUBSTACK_CUSTOM_DOMAINS
          KnownAliases,   \* _KNOWN_CURL_ALIASES: Chrome majors, ascending
          DefaultMajor,   \* DEFAULT_CHROME_MAJOR
          Versions,       \* Chrome majors an update may install
          MaxBurns, MaxUpdates \* bounds: calls of mark_burned, Chrome updates

Proxies == 1 .. NumProxies
Direct  == 0              \* no proxy

\* A probe finds no Chrome (0), a text without version (1), or a major.
Probes == {"hklm", "hkcu", "chrome", "google", "plist"}

\* The modules of scrapeforge.scrapers that register a scraper.
Modules == {"reddit", "substack"}

ASSUME ParametersAssumption ==
    /\ NumProxies \in Nat /\ MaxBurns \in Nat /\ MaxUpdates \in Nat
    /\ KnownAliases \in Seq(Nat) /\ Len(KnownAliases) > 0
    /\ \A i, j \in 1 .. Len(KnownAliases) : i < j => KnownAliases[i] < KnownAliases[j]
    /\ \E i \in 1 .. Len(KnownAliases) : KnownAliases[i] = DefaultMajor
    /\ Versions \subseteq Nat
    /\ Hosts \subseteq [os : {"win32", "darwin", "linux"}, found : [Probes -> Nat],
                       missing : SUBSET Modules, custom : SUBSET Seq(STRING)]

VARIABLES
    host,        \* the machine
    engine,      \* "none", "ready", or "refused": its constructor raised
    registry,    \* _REGISTRY: domain -> scraper
    health,      \* health_status of each proxy
    resting,     \* proxies whose cooldown in _burn_times goes on
    phase,       \* where each call waits
    site,        \* host name of its url
    candidates,  \* proxies it has still to check
    assigned,    \* proxy of the scraper
    session,     \* the open curl_cffi session
    status,      \* of the result, or "raised"
    counted,     \* what circuit_breaker.record was told
    \* history
    heard,       \* the answer to each call's request
    failed,      \* proxies whose check failed in this call
    leftOut,     \* proxies this call did not consider
    overwritten, \* resting proxies whose mark a health check replaced
    burns, updates

pool    == <<health, resting, burns>>
call    == <<phase, site, candidates, assigned, session, status, counted>>
history == <<heard, failed, leftOut, overwritten>>
setup   == <<engine, registry>>
vars == <<host, updates, setup, pool, call, history>>

Phases == {"idle", "checking", "asked", "writing", "ended"}
Statuses == {"success", "challenge", "rate_limited", "proxy_failed", "error"}

-----------------------------------------------------------------------------
(* Routing: discover_scrapers and get_scraper_for.                         *)

DomainsOf(m) ==
    IF m = "reddit" THEN {<<"reddit", "com">>, <<"www", "reddit", "com">>}
    ELSE {<<"substack", "com">>, <<"www", "substack", "com">>} \union host.custom

\* The name itself, then its parents, longest first; PublicScraper catches all.
ScraperFor(s) ==
    LET bound == {i \in 1 .. Len(s) : SubSeq(s, i, Len(s)) \in DOMAIN registry}
    IN  IF bound = {} THEN "public"
        ELSE registry[SubSeq(s, Min(bound), Len(s))]

-----------------------------------------------------------------------------
(* Fingerprint: generate_profile("chrome") and curl_impersonate_target.    *)

Major(found) == IF found = 1 THEN 0 ELSE found

\* A key of HKLM without a version hides the one of HKCU.
FromRegistry(h) ==
    IF h.os # "win32" THEN 0
    ELSE IF h.found["hklm"] # 0 THEN Major(h.found["hklm"]) ELSE Major(h.found["hkcu"])

FromPlist(h) == IF h.os = "darwin" THEN Major(h.found["plist"]) ELSE 0

FromCommand(h, c) == Major(h.found[c])

\* The first probe that finds a version; 0 is FingerprintError.
Detected(h) ==
    LET answers == <<FromRegistry(h), FromCommand(h, "chrome"),
                     FromCommand(h, "google"), FromPlist(h)>>
        found   == {i \in 1 .. 4 : answers[i] # 0}
    IN  IF found = {} THEN 0 ELSE answers[Min(found)]

TemplateKey(h) == CASE h.os = "darwin" -> "chrome_mac"
                    [] h.os = "linux"  -> "chrome_linux"
                    [] OTHER           -> "chrome_win"

\* An entry of PROFILES: the major in its User-Agent, and its own.
Template(h) == [name |-> TemplateKey(h), userAgent |-> DefaultMajor, major |-> DefaultMajor]

\* replace() stamps the version only: the User-Agent keeps the template's.
Profile(h) == [Template(h) EXCEPT !.major = IF Detected(h) = 0 THEN @ ELSE Detected(h)]

\* The loop over the sorted aliases up to the first that exceeds the major.
AliasesUpTo(major) ==
    LET beyond == {i \in 1 .. Len(KnownAliases) : KnownAliases[i] > major}
    IN  IF beyond = {} THEN Len(KnownAliases) ELSE Min(beyond) - 1

(* Seeded defect: below every alias, none is used.                         *)
TargetOrNone(major) == IF AliasesUpTo(major) = 0 THEN 0 ELSE KnownAliases[AliasesUpTo(major)]

ImpersonateTarget(major) ==
    IF AliasesUpTo(major) = 0 THEN KnownAliases[1] ELSE KnownAliases[AliasesUpTo(major)]

NoSession == <<>>

(* Seeded defect: the bridge is made without the scraper's proxy.          *)
BridgeUnproxied(p) ==
    LET f == Profile(host)
    IN  [proxy |-> Direct, profile |-> f, target |-> ImpersonateTarget(f.major)]

\* A fresh bridge and its driver.
Bridge(p) ==
    LET f == Profile(host)
    IN  [proxy |-> p, profile |-> f, target |-> ImpersonateTarget(f.major)]

Launch(p) == <<Bridge(p)>>

-----------------------------------------------------------------------------
(* The answer: CurlCffiDriver.navigate, then the scraper.                  *)

\* What the server may send.  marker: cf-mitigated, or cloudflare in the text.
\* A body is an article page, a page with too little content, a challenge page
\* sent as an article, a public post in JSON, one without a readable text, or
\* other JSON.
HtmlBodies == {"page", "thin", "block"}
Bodies == HtmlBodies \union {"post", "stub", "json"}
Responses == [code : {200}, marker : {FALSE}, body : Bodies]
             \union [code : {403, 429, 503}, marker : BOOLEAN, body : {"page"}]
NoResponse == [code |-> 0, marker |-> FALSE, body |-> "thin"]  \* session.get raised

(* Seeded defect: every code from 400 on is one kind of error.             *)
HttpErrorLumped(r) == IF r.code = 403 /\ r.marker THEN "ChallengeError" ELSE "DriverError"

HttpError(r) == CASE r.code = 403 /\ r.marker -> "ChallengeError"
                  [] r.code = 429             -> "RateLimitError"
                  [] OTHER                    -> "DriverError"

\* response_is_valid: no signature of a block, content selected and long enough.
BlockSignature(r) == r.body = "block"
MainTextLong(r)   == r.body \in {"page", "block"}
ResponseIsValid(r) == ~ BlockSignature(r) /\ MainTextLong(r)

\* What each scraper returns for a body.
ReadPublic(r) == IF ResponseIsValid(r) THEN "success" ELSE "ChallengeError"

IsJson(r) == r.body \notin HtmlBodies

\* A removed post or a link is an article without content.
IsRedditPost(r) == r.body \in {"post", "stub"}
ReadReddit(r) == IF IsJson(r) /\ IsRedditPost(r) THEN "success" ELSE "ValueError"

IsPaywalled(r) == r.body = "stub"
ReadSubstack(r) == CASE ~ IsJson(r)           -> "ValueError"
                     [] r.body = "json" -> "error"
                     [] IsPaywalled(r)        -> "error"
                     [] OTHER                 -> "success"

\* A status of a result, or an exception.
Outcome(t, r) ==
    CASE r = NoResponse -> "RequestsError"
      [] r.code >= 400  -> HttpError(r)
      [] OTHER -> CASE ScraperFor(site[t]) = "reddit"   -> ReadReddit(r)
                    [] ScraperFor(site[t]) = "substack" -> ReadSubstack(r)
                    [] OTHER                            -> ReadPublic(r)

Mapped == [ChallengeError |-> "challenge", RateLimitError |-> "rate_limited",
           ProxyError |-> "proxy_failed", DriverError |-> "error"]

-----------------------------------------------------------------------------
Init ==
    /\ host \in Hosts
    /\ engine = "none" /\ registry = <<>>
    /\ health = [p \in Proxies |-> "unknown"] /\ resting = {}
    /\ phase = [t \in Tasks |-> "idle"] /\ site = [t \in Tasks |-> <<>>]
    /\ candidates = [t \in Tasks |-> {}] /\ assigned = [t \in Tasks |-> Direct]
    /\ session = [t \in Tasks |-> NoSession] /\ heard = [t \in Tasks |-> NoResponse]
    /\ status = [t \in Tasks |-> "none"] /\ counted = [t \in Tasks |-> "none"]
    /\ failed = [t \in Tasks |-> {}] /\ leftOut = [t \in Tasks |-> {}]
    /\ overwritten = {}
    /\ burns = 0 /\ updates = 0

\* ScrapeEngine(): a module that cannot be imported is skipped for good; a
\* domain bound to two scrapers raises out of the constructor.
Discover ==
    LET loaded == Modules \ host.missing
        domains == [m \in loaded |-> DomainsOf(m)]
        clash == \E m, n \in loaded : m # n /\ domains[m] \intersect domains[n] # {}
    IN  /\ engine = "none"
        /\ registry' = [d \in UNION {domains[m] : m \in loaded} |->
                           CHOOSE m \in loaded : d \in domains[m]]
        /\ engine' = IF clash THEN "refused" ELSE "ready"
        /\ UNCHANGED <<host, updates, pool, call, history>>

(* Seeded defect: burned proxies are candidates as well.                   *)
AnyProxy == Proxies

\* _filter_candidates; a proxy whose cooldown is over comes back.
Unburned == {p \in Proxies : health[p] = "burned" => p \notin resting}

\* The proxy is known, so the scraper, its bridge and the session follow.
Dispatch(t, p) ==
    /\ assigned' = [assigned EXCEPT ![t] = p]
    /\ session' = [session EXCEPT ![t] = Launch(p)]
    /\ phase' = [phase EXCEPT ![t] = "asked"]

Begin(t, s) ==
    /\ engine = "ready" /\ phase[t] = "idle"
    /\ site' = [site EXCEPT ![t] = s]
    /\ health' = [p \in Proxies |->
                     IF health[p] = "burned" /\ p \in Unburned THEN "unknown" ELSE health[p]]
    /\ candidates' = [candidates EXCEPT ![t] = Unburned]
    /\ leftOut' = [leftOut EXCEPT ![t] = Proxies \ Unburned]
    /\ IF Unburned = {}
       THEN Dispatch(t, Direct)
       ELSE phase' = [phase EXCEPT ![t] = "checking"] /\ UNCHANGED <<assigned, session>>
    /\ UNCHANGED <<host, updates, setup, resting, burns, status, counted, heard,
                   failed, overwritten>>

\* The candidate whose health check is under way.
Checked(t) == Min(candidates[t])

\* health_check replaces whatever the status is by now.
Diagnose(p, s) ==
    /\ health' = [health EXCEPT ![p] = s]
    /\ overwritten' = IF health[p] = "burned" /\ p \in resting
                      THEN overwritten \union {p} ELSE overwritten

CheckPasses(t) ==
    /\ phase[t] = "checking"
    /\ Diagnose(Checked(t), "healthy")
    /\ Dispatch(t, Checked(t))
    /\ UNCHANGED <<host, updates, setup, resting, burns, site, candidates, status, counted,
                   heard, failed, leftOut>>

CheckFails(t) ==
    LET p == Checked(t)
    IN  /\ phase[t] = "checking"
        /\ Diagnose(p, "unhealthy")
        /\ candidates' = [candidates EXCEPT ![t] = @ \ {p}]
        /\ failed' = [failed EXCEPT ![t] = @ \union {p}]
        /\ IF candidates[t] = {p} THEN Dispatch(t, Direct) ELSE UNCHANGED <<phase, assigned, session>>
        /\ UNCHANGED <<host, updates, setup, resting, burns, site, status, counted, heard,
                       leftOut>>

\* The request ended with r, which is no answer if session.get raised; the
\* scraper has read it and `async with bridge` closed the session.
Ends(t, r, st, c, p) ==
    /\ phase[t] = "asked"
    /\ heard' = [heard EXCEPT ![t] = r]
    /\ session' = [session EXCEPT ![t] = NoSession]
    /\ status' = [status EXCEPT ![t] = st]
    /\ counted' = [counted EXCEPT ![t] = c]
    /\ phase' = [phase EXCEPT ![t] = p]
    /\ candidates' = [candidates EXCEPT ![t] = {}]
    /\ assigned' = [assigned EXCEPT ![t] = Direct]
    /\ failed' = [failed EXCEPT ![t] = {}] /\ leftOut' = [leftOut EXCEPT ![t] = {}]
    /\ UNCHANGED <<host, updates, setup, pool, site, overwritten>>

\* scrape returned a result; a success goes on to the sink.
Returns(t, r) ==
    \/ Outcome(t, r) = "success" /\ Ends(t, r, "success", "success", "writing")
    \/ Outcome(t, r) = "error"   /\ Ends(t, r, "error", "failure", "ended")

\* An exception of the library becomes a result.
Caught(t, r) ==
    Outcome(t, r) \in DOMAIN Mapped /\ Ends(t, r, Mapped[Outcome(t, r)], "failure", "ended")

\* Any other exception passes through, and the breaker is not told.
Escapes(t, r) ==
    Outcome(t, r) \in {"RequestsError", "ValueError"} /\ Ends(t, r, "raised", "none", "ended")

\* The sink takes the result, or raises through scrape.
Persist(t) ==
    /\ phase[t] = "writing"
    /\ status' \in {status, [status EXCEPT ![t] = "raised"]}
    /\ phase' = [phase EXCEPT ![t] = "ended"]
    /\ UNCHANGED <<host, updates, setup, pool, site, candidates, assigned, session,
                   counted, history>>

MarkBurned(p) ==
    /\ engine = "ready" /\ burns < MaxBurns
    /\ burns' = burns + 1
    /\ health' = [health EXCEPT ![p] = "burned"] /\ resting' = resting \union {p}
    /\ overwritten' = overwritten \ {p}
    /\ UNCHANGED <<host, updates, setup, call, heard, failed, leftOut>>

\* PROXY_BURNED_COOLDOWN_MINUTES have passed.
CooldownEnds(p) ==
    /\ p \in resting
    /\ resting' = resting \ {p} /\ overwritten' = overwritten \ {p}
    /\ UNCHANGED <<host, updates, setup, health, burns, call, heard, failed, leftOut>>

\* Chrome updates itself: the probes that found a version find another.
ChromeUpdates(v) ==
    /\ updates < MaxUpdates /\ updates' = updates + 1
    /\ host' = [host EXCEPT !.found = [b \in Probes |-> IF @[b] > 1 THEN v ELSE @[b]]]
    /\ UNCHANGED <<setup, pool, call, history>>

Serve(t) ==
    \/ \E s \in Sites : Begin(t, s)
    \/ CheckPasses(t) \/ CheckFails(t)
    \/ \E r \in Responses \union {NoResponse} : Returns(t, r) \/ Caught(t, r) \/ Escapes(t, r)
    \/ Persist(t)

Next ==
    \/ Discover
    \/ \E t \in Tasks : Serve(t)
    \/ \E p \in Proxies : MarkBurned(p) \/ CooldownEnds(p)
    \/ \E v \in Versions : ChromeUpdates(v)

Spec == Init /\ [][Next]_vars

-----------------------------------------------------------------------------
(* Properties.                                                             *)

(* The engine, the pool and the calls keep their types; every session      *)
(* impersonates a version curl_cffi knows, however old Chrome is.          *)
TypeOK ==
    /\ engine \in {"none", "ready", "refused"}
    /\ health \in [Proxies -> {"unknown", "healthy", "unhealthy", "burned"}]
    /\ resting \subseteq Proxies /\ overwritten \subseteq resting
    /\ phase \in [Tasks -> Phases]
    /\ candidates \in [Tasks -> SUBSET Proxies]
    /\ assigned \in [Tasks -> Proxies \union {Direct}]
    /\ \A t \in Tasks : phase[t] = "checking" => candidates[t] # {}
    /\ \A t \in Tasks : session[t] # NoSession =>
          \E i \in 1 .. Len(KnownAliases) : session[t][1].target = KnownAliases[i]
    /\ heard \in [Tasks -> Responses \union {NoResponse}]
    /\ status \in [Tasks -> Statuses \union {"none", "raised"}]
    /\ counted \in [Tasks -> {"none", "success", "failure"}]
    /\ burns \in Nat /\ updates \in Nat

(* A call that goes out without proxy had every proxy fail its check in    *)
(* this call or found it burned; a call with a proxy has the first whose   *)
(* check did not fail.  And a burned proxy is used during its cooldown in  *)
(* one way only: a health check that was to come or under way when it was  *)
(* marked replaced the mark by its own verdict, for this call or another.  *)
ProxyIsVouched ==
    [][\A t \in Tasks : phase[t] # "asked" /\ phase'[t] = "asked" =>
          IF assigned'[t] = Direct
          THEN Proxies \subseteq failed'[t] \union leftOut'[t]
          ELSE /\ assigned'[t] \notin failed[t]
               /\ \A q \in Proxies : q < assigned'[t] => q \in failed[t] \union leftOut[t]
               /\ assigned'[t] \in resting => assigned'[t] \in overwritten']_vars

(* Exactly the calls with a request under way hold a session, each its own *)
(* with the proxy of the call.  Its User-Agent names the Chrome that its   *)
(* TLS impersonates exactly when the closest alias of the profile's major  *)
(* is the template's: any other Chrome on the machine splits the two.      *)
OneIdentity ==
    \A t \in Tasks :
       /\ session[t] # NoSession <=> phase[t] = "asked"
       /\ session[t] # NoSession =>
             LET s == session[t][1]
                 Closest(a) == \A i \in 1 .. Len(KnownAliases) :
                                  KnownAliases[i] <= s.profile.major => KnownAliases[i] <= a
             IN  /\ s.proxy = assigned[t]
                 /\ s.target <= s.profile.major \/ s.target = KnownAliases[1]
                 /\ Closest(s.target)
                 /\ s.profile.userAgent = s.target
                       <=> /\ DefaultMajor <= s.profile.major \/ DefaultMajor = KnownAliases[1]
                           /\ Closest(DefaultMajor)

(* What the caller and the breaker learn follows from what was asked and   *)
(* what came back: an article only from a readable answer of the right     *)
(* kind, a challenge only where one can be recognised, a proxy failure     *)
(* never.  The breaker is told once per call, except when no answer came   *)
(* or a community site sent something that is not its JSON -- a challenge  *)
(* page sent with code 200 among them.                                     *)
OutcomeExplained ==
    \A t \in Tasks : phase[t] = "ended" =>
       LET r == heard[t]
           community == ScraperFor(site[t]) # "public"
           article == IF community THEN {"post", "stub"} ELSE {"page"}
       IN  /\ status[t] = "success" => counted[t] = "success"
           /\ counted[t] = "success" => r.code = 200 /\ r.body \in article
           /\ status[t] = "challenge" => r.marker \/ (~ community /\ r.code = 200 /\ r.body # "page")
           /\ status[t] = "rate_limited" <=> r.code = 429
           /\ status[t] # "proxy_failed"
           /\ counted[t] = "none" =>
                 /\ status[t] = "raised"
                 /\ r = NoResponse \/ (community /\ r.code = 200 /\ r.body \notin article)
=============================================================================
