---------------------------- MODULE LocalScrape -----------------------------
(***************************************************************************)
(* Scraping to a local file: BaseScraper.batch_scrape, and the community   *)
(* commands, over a JsonlSink.  The sink appends a line to <output>.jsonl  *)
(* and then the url id to <output>.manifest, with an await around each     *)
(* append, and only then remembers both in memory.  The process may die    *)
(* between any two steps; the next run starts from the files.              *)
(*                                                                         *)
(* The commands write one result after the other and never ask seen().     *)
(* Appends are atomic: each is one write of a closed file.                 *)
(*                                                                         *)
(* The url asked for need not be the url stored: a post is stored under    *)
(* its permalink or its canonical url.  And a page may have changed when   *)
(* it is fetched again.                                                    *)
(***************************************************************************)
EXTENDS Naturals, FiniteSets

CONSTANTS Tasks,          \* positions in the list of urls
          Urls, Contents,
          UrlOf,          \* the url at each position; urls may repeat
          PagesOf,        \* what a scrape of each url may return
          None,           \* no page yet
          MaxConcurrency, \* permits of the semaphore
          MaxRuns,        \* bound: runs of the program
          MaxFaults       \* bound: scrapes and appends that fail

ASSUME TasksAssumption ==
    /\ Tasks \subseteq Nat /\ IsFiniteSet(Tasks)
    /\ UrlOf \in [Tasks -> Urls]
    /\ PagesOf \in [Urls -> SUBSET [url : Urls, content : Contents]]
ASSUME BoundsAssumption ==
    /\ MaxConcurrency \in Nat \ {0} /\ MaxRuns \in Nat /\ MaxFaults \in Nat

VARIABLES
    lines,       \* <output>.jsonl: lines of each url
    manifest,    \* <output>.manifest
    mode,        \* what runs: "off", "batch" (batch_scrape), "command"
    place,       \* each task
    page,        \* what each task's scrape returned
    permits,     \* of the semaphore
    seenUrls,    \* sink._seen_urls
    seenContent, \* sink._seen_content
    \* history
    emitted,     \* lines of each content in this run
    excused,     \* lines of each url that seen() was not asked about, or cut
    overlaps,    \* contents that may have several lines in this run
    runs, faults

files   == <<lines, manifest>>
memory  == <<seenUrls, seenContent>>
history == <<emitted, excused, overlaps>>
vars == <<files, mode, place, page, permits, memory, history, runs, faults>>

Ended == {"skipped", "done", "duplicate", "failed"}
Writing == {"append", "enlist", "note"}
Places == {"new", "scrape"} \union Writing \union Ended

Pages == [url : Urls, content : Contents]
Move(t, p) == place' = [place EXCEPT ![t] = p]

Init ==
    /\ lines = [u \in Urls |-> 0] /\ manifest = {}
    /\ mode = "off" /\ permits = 0
    /\ place = [t \in Tasks |-> "new"] /\ page = [t \in Tasks |-> None]
    /\ seenUrls = {} /\ seenContent = {}
    /\ emitted = [c \in Contents |-> 0] /\ excused = [u \in Urls |-> 0] /\ overlaps = {}
    /\ runs = 0 /\ faults = 0

\* A new process with a new sink: _load_manifest.
NewSink == seenUrls' = manifest /\ seenContent' = {}

StartRun(m, skipped, size) ==
    /\ mode = "off" /\ runs < MaxRuns
    /\ mode' = m /\ runs' = runs + 1
    /\ NewSink
    /\ place' = [t \in Tasks |-> IF t \in skipped THEN "skipped" ELSE "new"]
    /\ page' = [t \in Tasks |-> None]
    /\ permits' = size
    /\ emitted' = [c \in Contents |-> 0] /\ overlaps' = {}
    /\ UNCHANGED <<files, excused, faults>>

(* Seeded defect: seen() is not asked.                                     *)
StartBatchUnasked == StartRun("batch", {}, MaxConcurrency)

\* batch_scrape asks seen() for each url of its list before its first await.
StartBatch == StartRun("batch", {t \in Tasks : UrlOf[t] \in manifest}, MaxConcurrency)

\* The commands never ask.
StartCommand == StartRun("command", {}, 1)

\* async with self._semaphore; a command serves its results in order.
Enter(t) ==
    /\ mode # "off" /\ place[t] = "new" /\ permits > 0
    /\ mode = "command" => \A q \in Tasks : q < t => place[q] \in Ended
    /\ permits' = permits - 1
    /\ Move(t, "scrape")
    /\ UNCHANGED <<files, mode, page, memory, history, runs, faults>>

Leave(t, p) == Move(t, p) /\ permits' = permits + 1

(* Seeded defect: a failed scrape keeps its permit.                        *)
ScrapeFailsInside(t) ==
    /\ mode = "batch" /\ place[t] = "scrape" /\ faults < MaxFaults
    /\ faults' = faults + 1
    /\ Move(t, "failed")
    /\ UNCHANGED <<files, mode, page, permits, memory, history, runs>>

\* Any exception becomes a result with status "error".  A command has fetched
\* its listing before the first write and passes over what did not succeed.
ScrapeFails(t) ==
    /\ mode # "off" /\ place[t] = "scrape" /\ faults < MaxFaults
    /\ faults' = faults + 1
    /\ Leave(t, "failed")
    /\ UNCHANGED <<files, mode, page, memory, history, runs>>

Return(t, p) == page' = [page EXCEPT ![t] = p]

\* The scrape succeeded and write() runs up to its first await: it looks for
\* the content, never for the url.
SameContent(t, c) == {q \in Tasks \ {t} : place[q] \in Writing /\ page[q].content = c}

WriteBegins(t) ==
    /\ mode # "off" /\ place[t] = "scrape"
    /\ \E p \in PagesOf[UrlOf[t]] :
          /\ p.content \notin seenContent
          /\ Return(t, p)
          /\ overlaps' = IF SameContent(t, p.content) = {} THEN overlaps
                         ELSE overlaps \union {p.content}
    /\ Move(t, "append")
    /\ UNCHANGED <<files, mode, permits, memory, emitted, excused, runs, faults>>

DuplicateContent(t) ==
    /\ mode # "off" /\ place[t] = "scrape"
    /\ \E p \in PagesOf[UrlOf[t]] : p.content \in seenContent /\ Return(t, p)
    /\ Leave(t, "duplicate")
    /\ UNCHANGED <<files, mode, memory, history, runs, faults>>

(* Seeded defect: the manifest is written before the line.                 *)
EnlistFirst(t) ==
    /\ mode # "off" /\ place[t] = "append"
    /\ manifest' = manifest \union {page[t].url}
    /\ Move(t, "enlist")
    /\ UNCHANGED <<lines, mode, page, permits, memory, history, runs, faults>>

\* The line is of a url that seen() was asked about before the scrape.
Asked(t) == mode = "batch" /\ page[t].url = UrlOf[t]

\* Step 1: the line.
AppendLine(t) ==
    /\ mode # "off" /\ place[t] = "append"
    /\ lines' = [lines EXCEPT ![page[t].url] = @ + 1]
    /\ emitted' = [emitted EXCEPT ![page[t].content] = @ + 1]
    /\ excused' = IF Asked(t) THEN excused ELSE [excused EXCEPT ![page[t].url] = @ + 1]
    /\ Move(t, "enlist")
    /\ UNCHANGED <<manifest, mode, page, permits, memory, overlaps, runs, faults>>

\* Step 2: the manifest.
AppendManifest(t) ==
    /\ mode # "off" /\ place[t] = "enlist"
    /\ manifest' = manifest \union {page[t].url}
    /\ Move(t, "note")
    /\ UNCHANGED <<lines, mode, page, permits, memory, history, runs, faults>>

(* Seeded defect: the content is not remembered.                           *)
NoteUrlOnly(t) ==
    /\ mode # "off" /\ place[t] = "note"
    /\ seenUrls' = seenUrls \union {page[t].url}
    /\ Leave(t, "done")
    /\ UNCHANGED <<files, mode, page, seenContent, history, runs, faults>>

\* Step 3: the sets in memory.
Note(t) ==
    /\ mode # "off" /\ place[t] = "note"
    /\ seenUrls' = seenUrls \union {page[t].url}
    /\ seenContent' = seenContent \union {page[t].content}
    /\ Leave(t, "done")
    /\ UNCHANGED <<files, mode, page, history, runs, faults>>

\* A line of a url that was asked about and does not reach the manifest.
Enlisting(u) == {t \in Tasks : place[t] = "enlist" /\ page[t].url = u /\ Asked(t)}

Cut(T) ==
    /\ excused' = [u \in Urls |-> excused[u] + Cardinality(Enlisting(u) \intersect T)]
    /\ overlaps' = overlaps \union {page[t].content : t \in {q \in T : place[q] = "enlist"}}

\* An append raises: batch_scrape turns it into a result, a command ends.
AppendFails(t) ==
    /\ mode # "off" /\ place[t] \in {"append", "enlist"} /\ faults < MaxFaults
    /\ faults' = faults + 1
    /\ Cut({t})
    /\ Leave(t, "failed")
    /\ mode' = IF mode = "batch" THEN mode ELSE "off"
    /\ UNCHANGED <<files, page, memory, emitted, runs>>

\* The process dies, or the next listing of a command raises.
Die ==
    /\ mode # "off"
    /\ mode' = "off"
    /\ Cut(Tasks)
    /\ UNCHANGED <<files, place, page, permits, memory, emitted, runs, faults>>

\* gather has all results, or the command is through its list.
Finish ==
    /\ mode # "off" /\ \A t \in Tasks : place[t] \in Ended
    /\ mode' = "off"
    /\ UNCHANGED <<files, place, page, permits, memory, history, runs, faults>>

Serve(t) == \/ Enter(t) \/ WriteBegins(t) \/ DuplicateContent(t) \/ AppendLine(t)
            \/ AppendManifest(t) \/ Note(t)

Next == \/ StartBatch \/ StartCommand
        \/ \E t \in Tasks : Serve(t) \/ ScrapeFails(t) \/ AppendFails(t)
        \/ Finish \/ Die

Spec == Init /\ [][Next]_vars

\* Every scrape has a timeout and every append ends, so each task goes on.
FairSpec == Spec /\ WF_vars(Finish) /\ \A t \in Tasks : WF_vars(Serve(t))

-----------------------------------------------------------------------------
(* Properties.                                                             *)

Holders == {t \in Tasks : place[t] = "scrape" \/ place[t] \in Writing}

(* Files, memory and tasks keep their types, and while a run goes on the   *)
(* permits and the tasks that hold one add up: `async with` gives each     *)
(* permit back exactly once, whichever way _guarded_scrape is left.        *)
TypeOK ==
    /\ lines \in [Urls -> Nat] /\ manifest \subseteq Urls
    /\ mode \in {"off", "batch", "command"} /\ place \in [Tasks -> Places]
    /\ page \in [Tasks -> Pages \union {None}]
    /\ \A t \in Tasks : place[t] \in Writing \union {"done", "duplicate"} => page[t] \in Pages
    /\ permits \in Nat
    /\ seenUrls \subseteq Urls /\ seenContent \subseteq Contents
    /\ emitted \in [Contents -> Nat] /\ excused \in [Urls -> Nat] /\ overlaps \subseteq Contents
    /\ runs \in Nat /\ faults \in Nat
    /\ mode = "batch" => permits + Cardinality(Holders) = MaxConcurrency
    /\ mode = "command" => permits + Cardinality(Holders) = 1

(* What a run or a later one leaves out is in the data file: a url in the  *)
(* manifest has its line ("write THEN manifest"), so a skipped url has;    *)
(* a finished write has both; and a result dropped for its content was     *)
(* preceded by that content in this run.                                   *)
LeftOutIsStored ==
    /\ \A u \in manifest \union seenUrls : lines[u] > 0
    /\ \A t \in Tasks :
          /\ place[t] = "skipped" => lines[UrlOf[t]] > 0
          /\ place[t] = "done" => page[t].url \in manifest
          /\ place[t] = "duplicate" => emitted[page[t].content] > 0

(* Resuming repeats nothing without a reason, over any number of runs of   *)
(* batch_scrape: beyond one line for each position of its list that asks   *)
(* for a url, every line of the url in the data file is excused, one by    *)
(* one: it was written by a command, which never asks seen(), or stored    *)
(* under another url than the one asked for, or its append and that of its *)
(* manifest entry were torn apart.                                         *)
Listed(u) == {t \in Tasks : UrlOf[t] = u}
RepeatsAreCounted == \A u \in Urls : lines[u] <= Cardinality(Listed(u)) + excused[u]

(* Within a run a content has several lines only if two of its writes      *)
(* overlapped (both pass the check of _seen_content before either is       *)
(* noted), or a write of it failed after its line.                         *)
ContentsExplained == \A c \in Contents : emitted[c] > 1 => c \in overlaps

(* Every run finishes: no permit is lost on the way, whatever fails.       *)
RunsFinish == mode # "off" ~> mode = "off"
=============================================================================
