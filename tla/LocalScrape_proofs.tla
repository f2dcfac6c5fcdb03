------------------------- MODULE LocalScrape_proofs -------------------------
(***************************************************************************)
(* Proofs about LocalScrape: types and permits, what a run leaves out, and *)
(* why a content or a url may have several lines.                          *)
(***************************************************************************)
EXTENDS LocalScrape, FiniteSetTheorems, TLAPS

USE TasksAssumption, BoundsAssumption

(* A scrape returns a page, stored under one of the urls.                  *)
LEMMA PagesAreTyped ==
    ASSUME NEW t \in Tasks, NEW p \in PagesOf[UrlOf[t]]
    PROVE  p \in Pages /\ p.url \in Urls /\ p.content \in Contents
BY DEF Pages

LEMMA PageTyped ==
    ASSUME TypeOK, NEW t \in Tasks, place[t] \in Writing \union {"done", "duplicate"}
    PROVE  page[t] \in Pages /\ page[t].url \in Urls /\ page[t].content \in Contents
BY DEF TypeOK, Pages

(* What a run cut short adds to the excuses.                               *)
LEMMA EnlistingFinite ==
    ASSUME NEW u, NEW T
    PROVE  /\ IsFiniteSet(Enlisting(u) \intersect T)
           /\ Cardinality(Enlisting(u) \intersect T) \in Nat
BY FS_Subset, FS_CardinalityType DEF Enlisting

LEMMA CutTyped ==
    ASSUME TypeOK, NEW T \in SUBSET Tasks, Cut(T)
    PROVE  /\ excused' \in [Urls -> Nat] /\ overlaps' \subseteq Contents
           /\ \A u \in Urls : excused'[u] = excused[u] + Cardinality(Enlisting(u) \intersect T)
<1>1. \A u \in Urls : excused[u] \in Nat /\ Cardinality(Enlisting(u) \intersect T) \in Nat
  BY EnlistingFinite DEF TypeOK
<1>2. \A t \in {q \in T : place[q] = "enlist"} : page[t].content \in Contents
  BY PageTyped DEF Writing
<1>3. overlaps \subseteq Contents
  BY DEF TypeOK
<1> QED
  BY <1>1, <1>2, <1>3 DEF Cut

(* A task that holds no permit takes one, and one that holds one gives it  *)
(* back: the number of holders changes by one.                             *)
LEMMA HoldersFinite == IsFiniteSet(Holders)
BY FS_Subset DEF Holders

LEMMA HoldersCount == Cardinality(Holders) \in Nat
BY HoldersFinite, FS_CardinalityType

LEMMA EnterCounts ==
    ASSUME NEW t \in Tasks, TypeOK, place[t] = "new", Move(t, "scrape")
    PROVE  Cardinality(Holders)' = Cardinality(Holders) + 1
<1>1. t \notin Holders
  BY DEF Holders, Writing
<1>2. Holders' = Holders \union {t}
  BY DEF Holders, Writing, Move, TypeOK, Places
<1> QED
  BY <1>1, <1>2, HoldersFinite, FS_AddElement

LEMMA LeaveCounts ==
    ASSUME NEW t \in Tasks, NEW p \in Ended, TypeOK, t \in Holders, Move(t, p)
    PROVE  Cardinality(Holders)' = Cardinality(Holders) - 1
<1>1. Holders' = Holders \ {t}
  BY DEF Holders, Writing, Ended, Move, TypeOK, Places
<1> QED
  BY <1>1, HoldersFinite, FS_RemoveElement

LEMMA StayCounts ==
    ASSUME NEW t \in Tasks, NEW p \in Writing, TypeOK, t \in Holders, Move(t, p)
    PROVE  Holders' = Holders
BY DEF Holders, Writing, Move, TypeOK, Places

LEMMA StartCounts ==
    ASSUME NEW S, place' = [t \in Tasks |-> IF t \in S THEN "skipped" ELSE "new"]
    PROVE  Cardinality(Holders)' = 0
<1>1. Holders' = {}
  BY DEF Holders, Writing
<1> QED
  BY <1>1, FS_EmptySet

(* Types, and permits that add up: proof of the type invariant.            *)
THEOREM TypesHold == Spec => []TypeOK
<1>1. Init => TypeOK
  BY DEF Init, TypeOK, Places, Writing
<1>2. TypeOK /\ [Next]_vars => TypeOK'
  <2> SUFFICES ASSUME TypeOK, [Next]_vars PROVE TypeOK'
    OBVIOUS
  <2> USE DEF files, memory, history, Places, Ended, Writing
  <2>0. Cardinality(Holders) \in Nat
    BY HoldersCount
  <2>1. CASE StartBatch
    <3>1. Cardinality(Holders)' = 0
      BY <2>1, StartCounts DEF StartBatch, StartRun
    <3> QED
      BY <2>1, <3>1 DEF TypeOK, StartBatch, StartRun, NewSink
  <2>2. CASE StartCommand
    <3>1. Cardinality(Holders)' = 0
      BY <2>2, StartCounts DEF StartCommand, StartRun
    <3> QED
      BY <2>2, <3>1 DEF TypeOK, StartCommand, StartRun, NewSink
  <2>3. ASSUME NEW t \in Tasks, Enter(t) PROVE TypeOK'
    <3>1. Cardinality(Holders)' = Cardinality(Holders) + 1
      BY <2>3, EnterCounts DEF Enter
    <3> QED
      BY <2>0, <2>3, <3>1 DEF TypeOK, Enter, Move
  <2>4. ASSUME NEW t \in Tasks, NEW p \in Ended, place[t] \in {"scrape"} \union Writing,
               Leave(t, p), mode' \in {mode, "off"}, page' \in [Tasks -> Pages \union {None}],
               \A q \in Tasks : q # t => page'[q] = page[q],
               p \in {"done", "duplicate"} => page'[t] \in Pages,
               lines' = lines, manifest' = manifest, runs' = runs, faults' \in Nat,
               seenUrls' \subseteq Urls, seenContent' \subseteq Contents,
               emitted' = emitted, excused' \in [Urls -> Nat], overlaps' \subseteq Contents
        PROVE  TypeOK'
    <3>1. t \in Holders
      BY <2>4 DEF Holders
    <3>2. Cardinality(Holders)' = Cardinality(Holders) - 1
      BY <2>4, <3>1, LeaveCounts DEF Leave
    <3>3. /\ place' \in [Tasks -> Places]
          /\ \A q \in Tasks : place'[q] = IF q = t THEN p ELSE place[q]
      BY <2>4 DEF TypeOK, Leave, Move
    <3>4. \A q \in Tasks : place'[q] \in Writing \union {"done", "duplicate"} => page'[q] \in Pages
      BY <2>4, <3>3 DEF TypeOK
    <3> QED
      BY <2>0, <2>4, <3>2, <3>3, <3>4 DEF TypeOK, Leave
  <2>5. ASSUME NEW t \in Tasks, NEW p \in Writing, place[t] \in {"scrape"} \union Writing,
               Move(t, p), permits' = permits, mode' = mode,
               page' \in [Tasks -> Pages \union {None}], page'[t] \in Pages,
               \A q \in Tasks : q # t => page'[q] = page[q],
               lines' \in [Urls -> Nat], manifest' \subseteq Urls, runs' = runs, faults' = faults,
               seenUrls' = seenUrls, seenContent' = seenContent,
               emitted' \in [Contents -> Nat], excused' \in [Urls -> Nat], overlaps' \subseteq Contents
        PROVE  TypeOK'
    <3>1. Holders' = Holders
      BY <2>5, StayCounts DEF Holders
    <3>2. /\ place' \in [Tasks -> Places]
          /\ \A q \in Tasks : place'[q] = IF q = t THEN p ELSE place[q]
      BY <2>5 DEF TypeOK, Move
    <3>3. \A q \in Tasks : place'[q] \in Writing \union {"done", "duplicate"} => page'[q] \in Pages
      BY <2>5, <3>2 DEF TypeOK
    <3> QED
      BY <2>5, <3>1, <3>2, <3>3 DEF TypeOK
  <2>6. ASSUME NEW t \in Tasks, ScrapeFails(t) PROVE TypeOK'
    <3>1. /\ Leave(t, "failed") /\ place[t] = "scrape" /\ mode' = mode /\ page' = page
          /\ faults' \in Nat /\ UNCHANGED <<lines, manifest, runs, seenUrls, seenContent>>
          /\ UNCHANGED <<emitted, excused, overlaps>>
      BY <2>6 DEF ScrapeFails, TypeOK
    <3> QED
      BY <2>4, <3>1 DEF TypeOK
  <2>7. ASSUME NEW t \in Tasks, DuplicateContent(t) PROVE TypeOK'
    <3>1. PICK p \in PagesOf[UrlOf[t]] : p.content \in seenContent /\ Return(t, p)
      BY <2>7 DEF DuplicateContent
    <3>2. /\ page' \in [Tasks -> Pages \union {None}] /\ page'[t] \in Pages
          /\ \A q \in Tasks : q # t => page'[q] = page[q]
      BY <3>1, PagesAreTyped DEF Return, TypeOK
    <3> QED
      BY <2>4, <2>7, <3>2 DEF DuplicateContent, TypeOK
  <2>8. ASSUME NEW t \in Tasks, Note(t) PROVE TypeOK'
    <3>1. page[t] \in Pages /\ page[t].url \in Urls /\ page[t].content \in Contents
      BY <2>8, PageTyped DEF Note
    <3> QED
      BY <2>4, <2>8, <3>1 DEF Note, TypeOK
  <2>9. ASSUME NEW t \in Tasks, AppendFails(t) PROVE TypeOK'
    <3>1. excused' \in [Urls -> Nat] /\ overlaps' \subseteq Contents
      BY <2>9, CutTyped DEF AppendFails
    <3>2. /\ Leave(t, "failed") /\ place[t] \in Writing /\ mode' \in {mode, "off"} /\ page' = page
          /\ faults' \in Nat /\ UNCHANGED <<lines, manifest, runs, seenUrls, seenContent, emitted>>
      BY <2>9 DEF AppendFails, TypeOK
    <3> QED
      BY <2>4, <3>1, <3>2 DEF TypeOK
  <2>10. ASSUME NEW t \in Tasks, WriteBegins(t) PROVE TypeOK'
    <3>1. PICK p \in PagesOf[UrlOf[t]] :
             /\ p.content \notin seenContent /\ Return(t, p)
             /\ overlaps' = IF SameContent(t, p.content) = {} THEN overlaps
                            ELSE overlaps \union {p.content}
      BY <2>10 DEF WriteBegins
    <3>2. /\ page' \in [Tasks -> Pages \union {None}] /\ page'[t] \in Pages
          /\ \A q \in Tasks : q # t => page'[q] = page[q]
      BY <3>1, PagesAreTyped DEF Return, TypeOK
    <3>3. overlaps' \subseteq Contents
      BY <3>1, PagesAreTyped DEF TypeOK
    <3> QED
      BY <2>5, <2>10, <3>2, <3>3 DEF WriteBegins, TypeOK
  <2>11. ASSUME NEW t \in Tasks, AppendLine(t) PROVE TypeOK'
    <3>1. page[t] \in Pages /\ page[t].url \in Urls /\ page[t].content \in Contents
      BY <2>11, PageTyped DEF AppendLine
    <3>2. lines' \in [Urls -> Nat] /\ emitted' \in [Contents -> Nat] /\ excused' \in [Urls -> Nat]
      BY <2>11, <3>1 DEF AppendLine, TypeOK
    <3> QED
      BY <2>5, <2>11, <3>1, <3>2 DEF AppendLine, TypeOK
  <2>12. ASSUME NEW t \in Tasks, AppendManifest(t) PROVE TypeOK'
    <3>1. page[t] \in Pages /\ page[t].url \in Urls
      BY <2>12, PageTyped DEF AppendManifest
    <3> QED
      BY <2>5, <2>12, <3>1 DEF AppendManifest, TypeOK
  <2>13. CASE Die
    <3>1. excused' \in [Urls -> Nat] /\ overlaps' \subseteq Contents
      BY <2>13, CutTyped DEF Die
    <3> QED
      BY <2>13, <3>1 DEF Die, TypeOK
  <2>14. CASE Finish
    BY <2>14 DEF Finish, TypeOK
  <2>15. CASE UNCHANGED vars
    BY <2>15 DEF vars, TypeOK, Holders
  <2> QED
    BY <2>1, <2>2, <2>3, <2>6, <2>7, <2>8, <2>9, <2>10, <2>11, <2>12, <2>13, <2>14, <2>15
       DEF Next, Serve
<1> QED
  BY <1>1, <1>2, PTL DEF Spec

-----------------------------------------------------------------------------
(* What a run leaves out is stored.  Beyond the property itself: a task    *)
(* past its first append has its line, one past its second is in the       *)
(* manifest, and a content in memory has been written in this run.         *)

Stored ==
    /\ \A t \in Tasks : place[t] \in {"enlist", "note"} =>
          lines[page[t].url] > 0 /\ emitted[page[t].content] > 0
    /\ \A t \in Tasks : place[t] = "note" => page[t].url \in manifest
    /\ \A c \in seenContent : emitted[c] > 0

SInv == TypeOK /\ Stored /\ LeftOutIsStored

(* A step of one task that forgets no file, no line and no content.        *)
LEMMA OneTaskKeepsStored ==
    ASSUME SInv, TypeOK', NEW t \in Tasks, NEW p \in Places, Move(t, p),
           \A q \in Tasks : q # t => page'[q] = page[q],
           manifest \subseteq manifest', seenUrls' \subseteq manifest' \union seenUrls,
           \A u \in Urls : lines'[u] >= lines[u],
           \A c \in Contents : emitted'[c] >= emitted[c],
           \A u \in manifest' : u \in manifest \/ lines[u] > 0,
           \A c \in seenContent' : c \in seenContent \/ emitted[c] > 0,
           p \in {"enlist", "note"} => lines'[page'[t].url] > 0 /\ emitted'[page'[t].content] > 0,
           p \in {"note", "done"} => page'[t].url \in manifest',
           p = "skipped" => FALSE,
           p = "duplicate" => emitted[page'[t].content] > 0
    PROVE  SInv'
<1>1. \A u \in Urls : lines[u] \in Nat /\ lines'[u] \in Nat
  BY DEF SInv, TypeOK
<1>2. \A c \in Contents : emitted[c] \in Nat /\ emitted'[c] \in Nat
  BY DEF SInv, TypeOK
<1>3. \A q \in Tasks : UrlOf[q] \in Urls /\ place'[q] = IF q = t THEN p ELSE place[q]
  BY DEF SInv, TypeOK, Move
<1>4. \A q \in Tasks : place[q] \in Writing \union {"done", "duplicate"} =>
         page[q].url \in Urls /\ page[q].content \in Contents
  BY PageTyped DEF SInv
<1>5. p \in Writing \union {"done", "duplicate"} =>
         page'[t].url \in Urls /\ page'[t].content \in Contents
  <2> SUFFICES ASSUME p \in Writing \union {"done", "duplicate"}
               PROVE  page'[t].url \in Urls /\ page'[t].content \in Contents
    OBVIOUS
  <2>1. page'[t] \in Pages
    BY <1>3 DEF TypeOK
  <2> QED
    BY <2>1 DEF Pages
<1>6. Stored'
  <2>1. ASSUME NEW q \in Tasks, place'[q] \in {"enlist", "note"}
        PROVE  lines'[page'[q].url] > 0 /\ emitted'[page'[q].content] > 0
    <3>1. CASE q = t
      BY <1>3, <2>1, <3>1
    <3>2. CASE q # t
      <4>1. page'[q] = page[q] /\ place[q] \in {"enlist", "note"}
        BY <1>3, <2>1, <3>2
      <4>2. page[q].url \in Urls /\ page[q].content \in Contents
        BY <1>4, <4>1 DEF Writing
      <4>3. lines[page[q].url] > 0 /\ emitted[page[q].content] > 0
        BY <4>1 DEF SInv, Stored
      <4> QED
        BY <1>1, <1>2, <4>1, <4>2, <4>3
    <3> QED
      BY <3>1, <3>2
  <2>2. \A q \in Tasks : place'[q] = "note" => page'[q].url \in manifest'
    BY <1>3 DEF SInv, Stored
  <2>3. \A c \in seenContent' : emitted'[c] > 0
    BY <1>2 DEF SInv, Stored, TypeOK
  <2> QED
    BY <2>1, <2>2, <2>3 DEF Stored
<1>7. LeftOutIsStored'
  <2>1. \A u \in manifest' \union seenUrls' : lines'[u] > 0
    BY <1>1 DEF SInv, LeftOutIsStored, TypeOK
  <2>2. ASSUME NEW q \in Tasks, place'[q] = "skipped" PROVE lines'[UrlOf[q]] > 0
    <3>1. UrlOf[q] \in Urls /\ q # t /\ place[q] = "skipped"
      BY <1>3, <2>2
    <3>2. lines[UrlOf[q]] > 0 /\ lines'[UrlOf[q]] >= lines[UrlOf[q]]
      BY <3>1 DEF SInv, LeftOutIsStored
    <3> QED
      BY <1>1, <3>1, <3>2
  <2>3. ASSUME NEW q \in Tasks, place'[q] = "done" PROVE page'[q].url \in manifest'
    <3>1. CASE q = t
      BY <1>3, <2>3, <3>1
    <3>2. CASE q # t
      <4>1. page'[q] = page[q] /\ place[q] = "done"
        BY <1>3, <2>3, <3>2
      <4> QED
        BY <4>1 DEF SInv, LeftOutIsStored
    <3> QED
      BY <3>1, <3>2
  <2>4. ASSUME NEW q \in Tasks, place'[q] = "duplicate"
        PROVE  emitted'[page'[q].content] > 0
    <3>1. CASE q = t
      <4>1. p = "duplicate"
        BY <1>3, <2>4, <3>1
      <4>2. emitted[page'[t].content] > 0 /\ page'[t].content \in Contents
        BY <1>5, <4>1
      <4> QED
        BY <1>2, <3>1, <4>2
    <3>2. CASE q # t
      <4>1. page'[q] = page[q] /\ place[q] = "duplicate"
        BY <1>3, <2>4, <3>2
      <4>2. page[q].content \in Contents /\ emitted[page[q].content] > 0
        BY <1>4, <4>1 DEF SInv, LeftOutIsStored
      <4> QED
        BY <1>2, <4>1, <4>2
    <3> QED
      BY <3>1, <3>2
  <2> QED
    BY <1>3, <2>1, <2>2, <2>3, <2>4 DEF LeftOutIsStored
<1> QED
  BY <1>6, <1>7 DEF SInv

(* A new run skips only what the manifest names.                           *)
LEMMA StartKeepsStored ==
    ASSUME SInv, TypeOK', NEW m, NEW S \in SUBSET Tasks, NEW k, StartRun(m, S, k),
           \A t \in S : UrlOf[t] \in manifest
    PROVE  SInv'
<1>1. \A t \in Tasks : place'[t] \in {"skipped", "new"} /\ (place'[t] = "skipped" => t \in S)
  BY DEF StartRun
<1>2. lines' = lines /\ manifest' = manifest /\ seenUrls' = manifest /\ seenContent' = {}
  BY DEF StartRun, NewSink, files
<1>3. Stored'
  BY <1>1, <1>2 DEF Stored
<1>4. LeftOutIsStored'
  BY <1>1, <1>2 DEF SInv, LeftOutIsStored
<1> QED
  BY <1>3, <1>4 DEF SInv

(* Crash or not, what is left out is stored: the manifest, which is        *)
(* written last, never names a url without a line.                         *)
THEOREM LeftOutHolds == Spec => []LeftOutIsStored
<1>1. Init => Stored /\ LeftOutIsStored
  BY DEF Init, Stored, LeftOutIsStored
<1>2. SInv /\ TypeOK' /\ [Next]_vars => SInv'
  <2> SUFFICES ASSUME SInv, TypeOK', [Next]_vars PROVE SInv'
    OBVIOUS
  <2> USE DEF files, memory, history, Places, Ended, Writing
  <2>1. CASE StartBatch
    BY <2>1, StartKeepsStored DEF StartBatch
  <2>2. CASE StartCommand
    BY <2>2, StartKeepsStored DEF StartCommand
  <2>3. ASSUME NEW t \in Tasks, Enter(t) PROVE SInv'
    BY <2>3, OneTaskKeepsStored DEF Enter, SInv, TypeOK
  <2>4. ASSUME NEW t \in Tasks, ScrapeFails(t) PROVE SInv'
    BY <2>4, OneTaskKeepsStored DEF ScrapeFails, Leave, SInv, TypeOK
  <2>5. ASSUME NEW t \in Tasks, WriteBegins(t) PROVE SInv'
    <3>1. \A q \in Tasks : q # t => page'[q] = page[q]
      BY <2>5 DEF WriteBegins, Return, SInv, TypeOK
    <3> QED
      BY <2>5, <3>1, OneTaskKeepsStored DEF WriteBegins, SInv, TypeOK
  <2>6. ASSUME NEW t \in Tasks, DuplicateContent(t) PROVE SInv'
    <3>1. PICK p \in PagesOf[UrlOf[t]] : p.content \in seenContent /\ Return(t, p)
      BY <2>6 DEF DuplicateContent
    <3>2. page'[t] = p /\ \A q \in Tasks : q # t => page'[q] = page[q]
      BY <3>1 DEF Return, SInv, TypeOK
    <3>3. emitted[page'[t].content] > 0
      BY <3>1, <3>2 DEF SInv, Stored
    <3> QED
      BY <2>6, <3>2, <3>3, OneTaskKeepsStored DEF DuplicateContent, Leave, SInv, TypeOK
  <2>7. ASSUME NEW t \in Tasks, AppendLine(t) PROVE SInv'
    <3>1. page[t].url \in Urls /\ page[t].content \in Contents
      BY <2>7, PageTyped DEF AppendLine, SInv
    <3>2. /\ \A u \in Urls : lines[u] \in Nat
                /\ lines'[u] = IF u = page[t].url THEN lines[u] + 1 ELSE lines[u]
          /\ \A c \in Contents : emitted[c] \in Nat
                /\ emitted'[c] = IF c = page[t].content THEN emitted[c] + 1 ELSE emitted[c]
      BY <2>7, <3>1 DEF AppendLine, SInv, TypeOK
    <3> QED
      BY <2>7, <3>1, <3>2, OneTaskKeepsStored DEF AppendLine, SInv, TypeOK
  <2>8. ASSUME NEW t \in Tasks, AppendManifest(t) PROVE SInv'
    <3>1. lines[page[t].url] > 0 /\ emitted[page[t].content] > 0
      BY <2>8 DEF AppendManifest, SInv, Stored
    <3> QED
      BY <2>8, <3>1, OneTaskKeepsStored DEF AppendManifest, SInv, TypeOK
  <2>9. ASSUME NEW t \in Tasks, Note(t) PROVE SInv'
    <3>1. /\ page[t].url \in manifest /\ lines[page[t].url] > 0
          /\ emitted[page[t].content] > 0
      BY <2>9 DEF Note, SInv, Stored
    <3> QED
      BY <2>9, <3>1, OneTaskKeepsStored DEF Note, Leave, SInv, TypeOK
  <2>10. ASSUME NEW t \in Tasks, AppendFails(t) PROVE SInv'
    BY <2>10, OneTaskKeepsStored DEF AppendFails, Leave, SInv, TypeOK
  <2>11. CASE Die \/ Finish
    BY <2>11 DEF Die, Finish, SInv, Stored, LeftOutIsStored
  <2>12. CASE UNCHANGED vars
    BY <2>12 DEF vars, SInv, Stored, LeftOutIsStored
  <2> QED
    BY <2>1, <2>2, <2>3, <2>4, <2>5, <2>6, <2>7, <2>8, <2>9, <2>10, <2>11, <2>12
       DEF Next, Serve
<1>3. SInv => LeftOutIsStored
  BY DEF SInv
<1>4. TypeOK /\ Stored /\ LeftOutIsStored => SInv
  BY DEF SInv
<1> QED
  BY <1>1, <1>2, <1>3, <1>4, TypesHold, PTL DEF Spec

-----------------------------------------------------------------------------
(* Repeated contents.  A content written in this run is in the memory of   *)
(* the sink, on its way there, or among the overlaps; a task about to      *)
(* append a content that has a line, and two tasks that write one content, *)
(* have left it among the overlaps.                                        *)

KnownHere(c) == c \in seenContent \union overlaps
                \/ \E q \in Tasks : place[q] \in {"enlist", "note"} /\ page[q].content = c

ContentsKnown == \A c \in Contents : emitted[c] > 0 => KnownHere(c)
AppendsExplained == \A t \in Tasks :
    place[t] = "append" /\ emitted[page[t].content] > 0 => page[t].content \in overlaps
PairsExplained == \A q, t \in Tasks :
    q # t /\ place[q] \in Writing /\ place[t] \in Writing /\ page[q].content = page[t].content
        => page[t].content \in overlaps

CInv == TypeOK /\ ContentsKnown /\ AppendsExplained /\ PairsExplained /\ ContentsExplained

(* A task that writes nothing moves on and goes on writing nothing.        *)
LEMMA IdleKeepsContents ==
    ASSUME CInv, TypeOK', NEW t \in Tasks, NEW p \in Places, Move(t, p),
           \A q \in Tasks : q # t => page'[q] = page[q],
           place[t] \notin Writing, p \notin Writing,
           UNCHANGED <<seenContent, emitted, overlaps>>
    PROVE  CInv'
<1>1. \A q \in Tasks : place'[q] = IF q = t THEN p ELSE place[q]
  BY DEF Move, CInv, TypeOK
<1> USE DEF Writing
<1>2. ContentsKnown'
  BY <1>1 DEF CInv, ContentsKnown, KnownHere
<1>3. AppendsExplained'
  BY <1>1 DEF CInv, AppendsExplained
<1>4. PairsExplained'
  BY <1>1 DEF CInv, PairsExplained
<1>5. ContentsExplained'
  BY DEF CInv, ContentsExplained
<1> QED
  BY <1>2, <1>3, <1>4, <1>5 DEF CInv

(* A write begins: whatever wrote or writes the content is found now.      *)
LEMMA WriteBeginsKeepsContents ==
    ASSUME CInv, TypeOK', NEW t \in Tasks, WriteBegins(t)
    PROVE  CInv'
<1>1. PICK p \in PagesOf[UrlOf[t]] :
         /\ p.content \notin seenContent /\ Return(t, p)
         /\ overlaps' = IF SameContent(t, p.content) = {} THEN overlaps
                        ELSE overlaps \union {p.content}
  BY DEF WriteBegins
<1>2. /\ \A q \in Tasks : place'[q] = IF q = t THEN "append" ELSE place[q]
      /\ \A q \in Tasks : page'[q] = IF q = t THEN p ELSE page[q]
  BY <1>1 DEF WriteBegins, Move, Return, CInv, TypeOK
<1>3. /\ seenContent' = seenContent /\ emitted' = emitted /\ place[t] = "scrape"
      /\ overlaps \subseteq overlaps' /\ p.content \in Contents
  BY <1>1, PagesAreTyped DEF WriteBegins, memory
<1>4. ASSUME NEW q \in Tasks, q # t, place[q] \in Writing, page[q].content = p.content
      PROVE  p.content \in overlaps'
  <2>1. q \in SameContent(t, p.content)
    BY <1>4 DEF SameContent
  <2> QED
    BY <1>1, <2>1
<1>5. ContentsKnown'
  BY <1>2, <1>3 DEF CInv, ContentsKnown, KnownHere
<1>6. emitted[p.content] > 0 => p.content \in overlaps'
  <2> SUFFICES ASSUME emitted[p.content] > 0 PROVE p.content \in overlaps'
    OBVIOUS
  <2>1. CASE \E q \in Tasks : place[q] \in {"enlist", "note"} /\ page[q].content = p.content
    <3>1. PICK q \in Tasks : place[q] \in {"enlist", "note"} /\ page[q].content = p.content
      BY <2>1
    <3>2. q # t
      BY <1>3, <3>1
    <3> QED
      BY <1>4, <3>1, <3>2 DEF Writing
  <2> QED
    BY <1>1, <1>3, <2>1 DEF CInv, ContentsKnown, KnownHere
<1>7. AppendsExplained'
  BY <1>2, <1>3, <1>6 DEF CInv, AppendsExplained
<1>8. PairsExplained'
  <2>1. SUFFICES ASSUME NEW q \in Tasks, NEW r \in Tasks, q # r,
                        place'[q] \in Writing, place'[r] \in Writing,
                        page'[q].content = page'[r].content
                 PROVE  page'[r].content \in overlaps'
    BY DEF PairsExplained, Writing
  <2>2. CASE q = t
    BY <1>2, <1>4, <2>1, <2>2
  <2>3. CASE r = t
    BY <1>2, <1>4, <2>1, <2>3
  <2>4. CASE q # t /\ r # t
    BY <1>2, <1>3, <2>1, <2>4 DEF CInv, PairsExplained
  <2> QED
    BY <2>2, <2>3, <2>4
<1>9. ContentsExplained'
  BY <1>3 DEF CInv, ContentsExplained
<1> QED
  BY <1>5, <1>7, <1>8, <1>9 DEF CInv

(* The line is appended: those about to append the same were paired.       *)
LEMMA AppendLineKeepsContents ==
    ASSUME CInv, TypeOK', NEW t \in Tasks, AppendLine(t)
    PROVE  CInv'
<1>1. \A q \in Tasks : place'[q] = IF q = t THEN "enlist" ELSE place[q]
  BY DEF AppendLine, Move, CInv, TypeOK
<1>2. /\ seenContent' = seenContent /\ overlaps' = overlaps /\ page' = page
      /\ place[t] = "append"
  BY DEF AppendLine, memory
<1>3. \A q \in Tasks : place[q] \in Writing => page[q].content \in Contents
  BY PageTyped DEF CInv
<1>4. \A c \in Contents : emitted[c] \in Nat
         /\ emitted'[c] = IF c = page[t].content THEN emitted[c] + 1 ELSE emitted[c]
  BY DEF AppendLine, CInv, TypeOK
<1>5. ContentsKnown'
  BY <1>1, <1>2, <1>4 DEF CInv, ContentsKnown, KnownHere
<1>6. AppendsExplained'
  <2>1. SUFFICES ASSUME NEW q \in Tasks, place'[q] = "append", emitted'[page[q].content] > 0
                 PROVE  page[q].content \in overlaps
    BY <1>2 DEF AppendsExplained
  <2>2. q # t /\ place[q] = "append" /\ page[q].content \in Contents
    BY <1>1, <1>3, <2>1 DEF Writing
  <2>3. page[q].content = page[t].content => page[q].content \in overlaps
    BY <1>2, <2>2 DEF CInv, PairsExplained, Writing
  <2>4. emitted[page[q].content] > 0 => page[q].content \in overlaps
    BY <2>2 DEF CInv, AppendsExplained
  <2> QED
    BY <1>4, <2>1, <2>2, <2>3, <2>4
<1>7. PairsExplained'
  BY <1>1, <1>2 DEF CInv, PairsExplained, Writing
<1>8. ContentsExplained'
  <2>1. emitted[page[t].content] > 0 => page[t].content \in overlaps
    BY <1>2 DEF CInv, AppendsExplained
  <2> QED
    BY <1>2, <1>4, <2>1 DEF CInv, ContentsExplained
<1> QED
  BY <1>5, <1>6, <1>7, <1>8 DEF CInv

(* The write goes on, or ends for good: what the task stood for is known   *)
(* otherwise.                                                              *)
LEMMA WriteEndsKeepsContents ==
    ASSUME CInv, TypeOK', NEW t \in Tasks, NEW p \in {"note"} \union Ended, Move(t, p),
           page' = page, emitted' = emitted,
           seenContent \subseteq seenContent', overlaps \subseteq overlaps',
           place[t] \in Writing,
           place[t] \in {"enlist", "note"} /\ p # "note" =>
               page[t].content \in seenContent' \union overlaps'
    PROVE  CInv'
<1>1. \A q \in Tasks : place'[q] = IF q = t THEN p ELSE place[q]
  BY DEF Move, CInv, TypeOK
<1>2. ContentsKnown'
  <2>1. SUFFICES ASSUME NEW c \in Contents, emitted[c] > 0 PROVE KnownHere(c)'
    BY DEF ContentsKnown
  <2>2. CASE c \in seenContent \union overlaps
    BY <2>2 DEF KnownHere
  <2>3. CASE \E q \in Tasks : place[q] \in {"enlist", "note"} /\ page[q].content = c
    <3>1. PICK q \in Tasks : place[q] \in {"enlist", "note"} /\ page[q].content = c
      BY <2>3
    <3>2. CASE q = t
      BY <1>1, <3>1, <3>2 DEF KnownHere
    <3>3. CASE q # t
      BY <1>1, <3>1, <3>3 DEF KnownHere
    <3> QED
      BY <3>2, <3>3
  <2> QED
    BY <2>1, <2>2, <2>3 DEF CInv, ContentsKnown, KnownHere
<1>3. AppendsExplained'
  BY <1>1 DEF CInv, AppendsExplained, Ended
<1>4. PairsExplained'
  BY <1>1 DEF CInv, PairsExplained, Ended, Writing
<1>5. ContentsExplained'
  BY DEF CInv, ContentsExplained
<1> QED
  BY <1>2, <1>3, <1>4, <1>5 DEF CInv

(* A new run: nothing is being written, and memory starts afresh.          *)
LEMMA StartKeepsContents ==
    ASSUME CInv, TypeOK', NEW m, NEW S, NEW k, StartRun(m, S, k)
    PROVE  CInv'
<1>1. \A t \in Tasks : place'[t] \in {"skipped", "new"}
  BY DEF StartRun
<1>2. \A c \in Contents : emitted'[c] = 0
  BY DEF StartRun
<1>3. ContentsKnown' /\ ContentsExplained'
  BY <1>2 DEF ContentsKnown, ContentsExplained
<1>4. AppendsExplained' /\ PairsExplained'
  BY <1>1 DEF AppendsExplained, PairsExplained, Writing
<1> QED
  BY <1>3, <1>4 DEF CInv

(* The process dies, or is through.                                        *)
LEMMA StopKeepsContents ==
    ASSUME CInv, TypeOK', Die \/ Finish
    PROVE  CInv'
<1>1. /\ place' = place /\ page' = page /\ emitted' = emitted
      /\ seenContent' = seenContent /\ overlaps \subseteq overlaps'
  BY DEF Die, Finish, Cut, memory, history
<1>2. ContentsKnown'
  BY <1>1 DEF CInv, ContentsKnown, KnownHere
<1>3. AppendsExplained' /\ PairsExplained'
  BY <1>1 DEF CInv, AppendsExplained, PairsExplained
<1>4. ContentsExplained'
  BY <1>1 DEF CInv, ContentsExplained
<1> QED
  BY <1>2, <1>3, <1>4 DEF CInv

(* Several lines of a content within a run have a reason.                  *)
THEOREM ContentsHold == Spec => []ContentsExplained
<1>1. Init => ContentsKnown /\ AppendsExplained /\ PairsExplained /\ ContentsExplained
  BY DEF Init, ContentsKnown, AppendsExplained, PairsExplained, ContentsExplained, Writing
<1>2. CInv /\ TypeOK' /\ [Next]_vars => CInv'
  <2> SUFFICES ASSUME CInv, TypeOK', [Next]_vars PROVE CInv'
    OBVIOUS
  <2> USE DEF memory, history
  <2>1. CASE StartBatch \/ StartCommand
    BY <2>1, StartKeepsContents DEF StartBatch, StartCommand
  <2>2. ASSUME NEW t \in Tasks, Enter(t) PROVE CInv'
    BY <2>2, IdleKeepsContents DEF Enter, Places, Writing
  <2>3. ASSUME NEW t \in Tasks, ScrapeFails(t) PROVE CInv'
    BY <2>3, IdleKeepsContents DEF ScrapeFails, Leave, Places, Writing, Ended
  <2>4. ASSUME NEW t \in Tasks, DuplicateContent(t) PROVE CInv'
    <3>1. \A q \in Tasks : q # t => page'[q] = page[q]
      BY <2>4 DEF DuplicateContent, Return, CInv, TypeOK
    <3> QED
      BY <2>4, <3>1, IdleKeepsContents DEF DuplicateContent, Leave, Places, Writing, Ended
  <2>5. ASSUME NEW t \in Tasks, WriteBegins(t) PROVE CInv'
    BY <2>5, WriteBeginsKeepsContents
  <2>6. ASSUME NEW t \in Tasks, AppendLine(t) PROVE CInv'
    BY <2>6, AppendLineKeepsContents
  <2>7. ASSUME NEW t \in Tasks, AppendManifest(t) PROVE CInv'
    BY <2>7, WriteEndsKeepsContents DEF AppendManifest, Writing
  <2>8. ASSUME NEW t \in Tasks, Note(t) PROVE CInv'
    BY <2>8, WriteEndsKeepsContents DEF Note, Leave, Ended, Writing
  <2>9. ASSUME NEW t \in Tasks, AppendFails(t) PROVE CInv'
    <3>1. /\ overlaps \subseteq overlaps'
          /\ place[t] = "enlist" => page[t].content \in overlaps'
      BY <2>9 DEF AppendFails, Cut
    <3> QED
      BY <2>9, <3>1, WriteEndsKeepsContents DEF AppendFails, Leave, Ended, Writing
  <2>10. CASE Die \/ Finish
    BY <2>10, StopKeepsContents
  <2>11. CASE UNCHANGED vars
    BY <2>11 DEF vars, CInv, ContentsKnown, KnownHere, AppendsExplained, PairsExplained,
                 ContentsExplained
  <2> QED
    BY <2>1, <2>2, <2>3, <2>4, <2>5, <2>6, <2>7, <2>8, <2>9, <2>10, <2>11 DEF Next, Serve
<1>3. CInv => ContentsExplained
  BY DEF CInv
<1>4. TypeOK /\ ContentsKnown /\ AppendsExplained /\ PairsExplained /\ ContentsExplained => CInv
  BY DEF CInv
<1> QED
  BY <1>1, <1>2, <1>3, <1>4, TypesHold, PTL DEF Spec

-----------------------------------------------------------------------------
(* Repeated lines.  A url that is not in the manifest has no unexcused     *)
(* line, except those whose manifest entry is about to be appended; and    *)
(* while a position that asks for a url has yet to append, its unexcused   *)
(* lines are those of the other positions that ask for it, one each.       *)

Fresh(t) == place[t] \in {"new", "scrape", "append"}
Past(u)  == {t \in Listed(u) : ~Fresh(t)}

TornAreExcused == \A u \in Urls \ manifest :
    lines[u] <= excused[u] + Cardinality(Enlisting(u))
FreshAreAhead == \A u \in Urls : mode = "batch" /\ (\E t \in Listed(u) : Fresh(t)) =>
    lines[u] <= excused[u] + Cardinality(Past(u))

WInv == TypeOK /\ TornAreExcused /\ FreshAreAhead /\ RepeatsAreCounted

LEMMA CountsTyped ==
    ASSUME NEW u
    PROVE  /\ IsFiniteSet(Enlisting(u)) /\ Cardinality(Enlisting(u)) \in Nat
           /\ IsFiniteSet(Past(u)) /\ Cardinality(Past(u)) \in Nat
           /\ IsFiniteSet(Listed(u)) /\ Cardinality(Listed(u)) \in Nat
           /\ Cardinality(Past(u)) <= Cardinality(Listed(u))
<1>1. Enlisting(u) \subseteq Tasks /\ Listed(u) \subseteq Tasks /\ Past(u) \subseteq Listed(u)
  BY DEF Enlisting, Listed, Past
<1>2. IsFiniteSet(Enlisting(u)) /\ IsFiniteSet(Listed(u))
  BY <1>1, FS_Subset
<1>3. IsFiniteSet(Past(u)) /\ Cardinality(Past(u)) <= Cardinality(Listed(u))
  BY <1>1, <1>2, FS_Subset
<1> QED
  BY <1>2, <1>3, FS_CardinalityType

(* After the step the positions are as many, whoever is past its append.   *)
LEMMA CountsTypedNext ==
    ASSUME NEW u
    PROVE  /\ IsFiniteSet(Enlisting(u)') /\ Cardinality(Enlisting(u)') \in Nat
           /\ IsFiniteSet(Past(u)') /\ Cardinality(Past(u)') \in Nat
           /\ Cardinality(Past(u)') <= Cardinality(Listed(u))
<1>1. Enlisting(u)' \subseteq Tasks /\ Past(u)' \subseteq Listed(u) /\ Listed(u) \subseteq Tasks
  BY DEF Enlisting, Listed, Past
<1>2. IsFiniteSet(Enlisting(u)') /\ IsFiniteSet(Listed(u))
  BY <1>1, FS_Subset
<1>3. IsFiniteSet(Past(u)') /\ Cardinality(Past(u)') <= Cardinality(Listed(u))
  BY <1>1, <1>2, FS_Subset
<1> QED
  BY <1>2, <1>3, FS_CardinalityType

(* A step that writes no line, and excuses the lines it tears off.         *)
LEMMA NoLineKeepsCounts ==
    ASSUME WInv, TypeOK', lines' = lines, manifest \subseteq manifest',
           mode' = "batch" => mode = "batch",
           \A q \in Tasks : Fresh(q)' => Fresh(q),
           \A u \in Urls : excused'[u] >= excused[u],
           \A u \in Urls \ manifest' : excused[u] + Cardinality(Enlisting(u))
                                         <= excused'[u] + Cardinality(Enlisting(u)')
    PROVE  WInv'
<1>1. \A u \in Urls : lines[u] \in Nat /\ excused[u] \in Nat /\ excused'[u] \in Nat
  BY DEF WInv, TypeOK
<1>2. TornAreExcused'
  <2> SUFFICES ASSUME NEW u \in Urls \ manifest'
               PROVE  lines[u] <= excused'[u] + Cardinality(Enlisting(u)')
    BY DEF TornAreExcused
  <2>1. lines[u] <= excused[u] + Cardinality(Enlisting(u))
    BY DEF WInv, TornAreExcused
  <2>2. excused[u] + Cardinality(Enlisting(u)) <= excused'[u] + Cardinality(Enlisting(u)')
    OBVIOUS
  <2> QED
    BY <1>1, <2>1, <2>2, CountsTyped, CountsTypedNext
<1>3. FreshAreAhead'
  <2> SUFFICES ASSUME NEW u \in Urls, mode' = "batch", NEW t \in Listed(u), Fresh(t)'
               PROVE  lines[u] <= excused'[u] + Cardinality(Past(u)')
    BY DEF FreshAreAhead, Listed
  <2>1. t \in Tasks /\ Fresh(t)
    BY DEF Listed
  <2>2. lines[u] <= excused[u] + Cardinality(Past(u))
    BY <2>1 DEF WInv, FreshAreAhead
  <2>3. Past(u) \subseteq Past(u)'
    BY DEF Past, Listed
  <2>4. Cardinality(Past(u)) <= Cardinality(Past(u)')
    BY <2>3, CountsTypedNext, FS_Subset
  <2> QED
    BY <1>1, <2>2, <2>4, CountsTyped, CountsTypedNext
<1>4. RepeatsAreCounted'
  <2> SUFFICES ASSUME NEW u \in Urls
               PROVE  lines[u] <= Cardinality(Listed(u)) + excused'[u]
    BY DEF RepeatsAreCounted, Listed
  <2>1. lines[u] <= Cardinality(Listed(u)) + excused[u]
    BY DEF WInv, RepeatsAreCounted
  <2> QED
    BY <1>1, <2>1, CountsTyped
<1> QED
  BY <1>2, <1>3, <1>4 DEF WInv

(* A run starts: batch_scrape lets through only urls without a manifest    *)
(* entry, and no append of an earlier run is still under way.              *)
LEMMA StartKeepsCounts ==
    ASSUME WInv, TypeOK', NEW m, NEW S, NEW k, StartRun(m, S, k),
           m = "batch" => S = {t \in Tasks : UrlOf[t] \in manifest}
    PROVE  WInv'
<1>1. /\ mode = "off" /\ mode' = m
      /\ lines' = lines /\ manifest' = manifest /\ excused' = excused
      /\ \A t \in Tasks : place'[t] = IF t \in S THEN "skipped" ELSE "new"
  BY DEF StartRun, files
<1>2. \A u \in Urls : lines[u] \in Nat /\ excused[u] \in Nat
  BY DEF WInv, TypeOK
<1>3. \A u \in Urls \ manifest : lines[u] <= excused[u]
  <2>1. \A u : Enlisting(u) = {}
    BY <1>1 DEF Enlisting, Asked
  <2>2. \A u : Cardinality(Enlisting(u)) = 0
    BY <2>1, FS_EmptySet
  <2> QED
    BY <1>2, <2>2 DEF WInv, TornAreExcused
<1>4. TornAreExcused'
  <2> SUFFICES ASSUME NEW u \in Urls \ manifest
               PROVE  lines[u] <= excused[u] + Cardinality(Enlisting(u)')
    BY <1>1 DEF TornAreExcused
  <2> QED
    BY <1>2, <1>3, CountsTypedNext
<1>5. FreshAreAhead'
  <2> SUFFICES ASSUME NEW u \in Urls, mode' = "batch", NEW t \in Listed(u), Fresh(t)'
               PROVE  lines[u] <= excused[u] + Cardinality(Past(u)')
    BY <1>1 DEF FreshAreAhead, Listed
  <2>1. t \in Tasks /\ UrlOf[t] = u /\ t \notin S
    BY <1>1 DEF Listed, Fresh
  <2>2. u \notin manifest
    BY <1>1, <2>1
  <2> QED
    BY <1>2, <1>3, <2>2, CountsTypedNext
<1>6. RepeatsAreCounted'
  BY <1>1 DEF WInv, RepeatsAreCounted, Listed
<1> QED
  BY <1>4, <1>5, <1>6 DEF WInv

(* A line is appended: by the position that asked for its url, for the     *)
(* first time, or with an excuse.                                          *)
LEMMA AppendLineKeepsCounts ==
    ASSUME WInv, TypeOK', NEW t \in Tasks, AppendLine(t)
    PROVE  WInv'
<1> DEFINE v == page[t].url
<1>1. /\ mode' = mode /\ manifest' = manifest /\ page' = page /\ place[t] = "append"
      /\ \A q \in Tasks : place'[q] = IF q = t THEN "enlist" ELSE place[q]
      /\ v \in Urls
  BY PageTyped DEF AppendLine, Move, WInv, TypeOK, Writing
<1>2. \A u \in Urls : /\ lines[u] \in Nat /\ excused[u] \in Nat
                      /\ lines'[u] = IF u = v THEN lines[u] + 1 ELSE lines[u]
  BY DEF AppendLine, WInv, TypeOK
<1>3. \A q \in Tasks : Asked(q)' = Asked(q)
  BY <1>1 DEF Asked
<1>4. \A u \in Urls : Past(u) \subseteq Past(u)'
  BY <1>1 DEF Past, Listed, Fresh
<1>5. \A u \in Urls : Cardinality(Past(u)) <= Cardinality(Past(u)')
  BY <1>4, CountsTypedNext, FS_Subset
<1>6. CASE Asked(t)
  <2>1. excused' = excused /\ mode = "batch" /\ UrlOf[t] = v
    BY <1>6 DEF AppendLine, Asked
  <2>2. \A u \in Urls : Enlisting(u)' = IF u = v THEN Enlisting(u) \union {t} ELSE Enlisting(u)
    BY <1>1, <1>3, <1>6 DEF Enlisting
  <2>3. ASSUME NEW u \in Urls, u = v
        PROVE  Cardinality(Enlisting(u)') = Cardinality(Enlisting(u)) + 1
    <3>1. t \notin Enlisting(u)
      BY <1>1 DEF Enlisting
    <3>2. Enlisting(u)' = Enlisting(u) \union {t}
      BY <2>2, <2>3
    <3> QED
      BY <3>1, <3>2, CountsTyped, FS_AddElement
  <2>4. ASSUME NEW u \in Urls, u = v
        PROVE  lines'[u] <= excused[u] + Cardinality(Past(u)')
    <3>1. t \in Listed(u) /\ Fresh(t)
      BY <1>1, <2>1, <2>4 DEF Listed, Fresh
    <3>2. Past(u)' = Past(u) \union {t} /\ t \notin Past(u)
      BY <1>1, <3>1 DEF Past, Listed, Fresh
    <3>3. Cardinality(Past(u)') = Cardinality(Past(u)) + 1
      BY <3>2, CountsTyped, FS_AddElement
    <3>4. lines[u] <= excused[u] + Cardinality(Past(u))
      BY <2>1, <3>1 DEF WInv, FreshAreAhead
    <3>5. lines'[u] = lines[u] + 1 /\ lines[u] \in Nat /\ excused[u] \in Nat
      BY <1>2, <2>4
    <3> QED
      BY <3>3, <3>4, <3>5, CountsTyped
  <2>5. TornAreExcused'
    <3> SUFFICES ASSUME NEW u \in Urls \ manifest
                 PROVE  lines'[u] <= excused[u] + Cardinality(Enlisting(u)')
      BY <1>1, <2>1 DEF TornAreExcused
    <3>1. lines[u] <= excused[u] + Cardinality(Enlisting(u))
      BY DEF WInv, TornAreExcused
    <3>2. CASE u = v
      <4>1. Cardinality(Enlisting(u)') = Cardinality(Enlisting(u)) + 1
        BY <2>3, <3>2
      <4>2. lines'[u] = lines[u] + 1 /\ lines[u] \in Nat /\ excused[u] \in Nat
        BY <1>2, <3>2
      <4> QED
        BY <3>1, <4>1, <4>2, CountsTyped
    <3>3. CASE u # v
      BY <1>2, <2>2, <3>1, <3>3
    <3> QED
      BY <3>2, <3>3
  <2>6. FreshAreAhead'
    <3> SUFFICES ASSUME NEW u \in Urls, NEW q \in Listed(u), Fresh(q)'
                 PROVE  lines'[u] <= excused[u] + Cardinality(Past(u)')
      BY <2>1 DEF FreshAreAhead, Listed
    <3>1. CASE u = v
      BY <2>4, <3>1
    <3>2. CASE u # v
      <4>1. Fresh(q)
        BY <1>1 DEF Fresh, Listed
      <4>2. lines[u] <= excused[u] + Cardinality(Past(u))
        BY <2>1, <4>1 DEF WInv, FreshAreAhead
      <4>3. lines'[u] = lines[u] /\ lines[u] \in Nat /\ excused[u] \in Nat
        BY <1>2, <3>2
      <4>4. Cardinality(Past(u)) <= Cardinality(Past(u)')
        BY <1>5
      <4> HIDE DEF v
      <4> QED
        BY <4>2, <4>3, <4>4, CountsTyped, CountsTypedNext
    <3> QED
      BY <3>1, <3>2
  <2>7. RepeatsAreCounted'
    <3> SUFFICES ASSUME NEW u \in Urls
                 PROVE  lines'[u] <= Cardinality(Listed(u)) + excused[u]
      BY <2>1 DEF RepeatsAreCounted, Listed
    <3>1. CASE u = v
      <4>1. lines'[u] <= excused[u] + Cardinality(Past(u)')
        BY <2>4, <3>1
      <4>2. lines'[u] \in Nat /\ excused[u] \in Nat
        BY <1>2, <3>1
      <4> HIDE DEF v
      <4> QED
        BY <4>1, <4>2, CountsTyped, CountsTypedNext
    <3>2. CASE u # v
      BY <1>2, <3>2 DEF WInv, RepeatsAreCounted
    <3> QED
      BY <3>1, <3>2
  <2> QED
    BY <2>5, <2>6, <2>7 DEF WInv
<1>7. CASE ~Asked(t)
  <2>1. \A u \in Urls : excused'[u] = IF u = v THEN excused[u] + 1 ELSE excused[u]
    BY <1>7 DEF AppendLine, WInv, TypeOK
  <2>2. \A u : Enlisting(u)' = Enlisting(u)
    BY <1>1, <1>3, <1>7 DEF Enlisting
  <2>3. \A u \in Urls : /\ lines[u] \in Nat /\ excused[u] \in Nat /\ lines'[u] \in Nat
                        /\ excused'[u] \in Nat /\ lines'[u] - excused'[u] = lines[u] - excused[u]
    BY <1>2, <2>1
  <2> HIDE DEF v
  <2>4. TornAreExcused'
    <3> SUFFICES ASSUME NEW u \in Urls \ manifest
                 PROVE  lines'[u] <= excused'[u] + Cardinality(Enlisting(u))
      BY <1>1, <2>2 DEF TornAreExcused
    <3>1. lines[u] <= excused[u] + Cardinality(Enlisting(u))
      BY DEF WInv, TornAreExcused
    <3> QED
      BY <2>3, <3>1, CountsTyped
  <2>5. FreshAreAhead'
    <3> SUFFICES ASSUME NEW u \in Urls, mode = "batch", NEW q \in Listed(u), Fresh(q)'
                 PROVE  lines'[u] <= excused'[u] + Cardinality(Past(u)')
      BY <1>1 DEF FreshAreAhead, Listed
    <3>1. Fresh(q)
      BY <1>1 DEF Fresh, Listed
    <3>2. lines[u] <= excused[u] + Cardinality(Past(u))
      BY <3>1 DEF WInv, FreshAreAhead
    <3>3. Cardinality(Past(u)) <= Cardinality(Past(u)')
      BY <1>5
    <3> QED
      BY <2>3, <3>2, <3>3, CountsTyped, CountsTypedNext
  <2>6. RepeatsAreCounted'
    <3> SUFFICES ASSUME NEW u \in Urls
                 PROVE  lines'[u] <= Cardinality(Listed(u)) + excused'[u]
      BY DEF RepeatsAreCounted, Listed
    <3>1. lines[u] <= Cardinality(Listed(u)) + excused[u]
      BY DEF WInv, RepeatsAreCounted
    <3> QED
      BY <2>3, <3>1, CountsTyped
  <2> QED
    BY <2>4, <2>5, <2>6 DEF WInv
<1> QED
  BY <1>6, <1>7

(* The append fails: the line it tears off, if any, is excused.            *)
LEMMA FailKeepsCounts ==
    ASSUME WInv, TypeOK', NEW t \in Tasks, AppendFails(t)
    PROVE  WInv'
<1>1. /\ lines' = lines /\ manifest' = manifest /\ page' = page
      /\ mode' = (IF mode = "batch" THEN mode ELSE "off")
      /\ \A q \in Tasks : place'[q] = IF q = t THEN "failed" ELSE place[q]
  BY DEF AppendFails, Leave, Move, files, WInv, TypeOK
<1>2. \A u \in Urls : /\ excused[u] \in Nat
                      /\ excused'[u] = excused[u] + Cardinality(Enlisting(u) \intersect {t})
  BY CutTyped DEF AppendFails, WInv, TypeOK
<1>3. \A u : Enlisting(u)' = Enlisting(u) \ {t}
  BY <1>1 DEF Enlisting, Asked
<1>4. ASSUME NEW u \in Urls
      PROVE  /\ excused'[u] >= excused[u]
             /\ excused[u] + Cardinality(Enlisting(u)) <= excused'[u] + Cardinality(Enlisting(u)')
  <2>1. CASE t \in Enlisting(u)
    <3>1. Cardinality(Enlisting(u)') = Cardinality(Enlisting(u)) - 1
      BY <1>3, <2>1, CountsTyped, FS_RemoveElement
    <3>2. Enlisting(u) \intersect {t} = {t}
      BY <2>1
    <3>3. Cardinality(Enlisting(u) \intersect {t}) = 1
      BY <3>2, FS_Singleton
    <3> QED
      BY <1>2, <3>1, <3>3, CountsTyped
  <2>2. CASE t \notin Enlisting(u)
    <3>1. Enlisting(u)' = Enlisting(u) /\ Enlisting(u) \intersect {t} = {}
      BY <1>3, <2>2
    <3>2. Cardinality(Enlisting(u) \intersect {t}) = 0
      BY <3>1, FS_EmptySet
    <3> QED
      BY <1>2, <3>1, <3>2, CountsTyped
  <2> QED
    BY <2>1, <2>2
<1>5. \A q \in Tasks : Fresh(q)' => Fresh(q)
  BY <1>1 DEF Fresh
<1> QED
  BY <1>1, <1>4, <1>5, NoLineKeepsCounts

(* The process dies: all lines without their entry are excused.            *)
LEMMA DieKeepsCounts ==
    ASSUME WInv, TypeOK', Die
    PROVE  WInv'
<1>1. lines' = lines /\ manifest' = manifest /\ place' = place /\ mode' = "off"
  BY DEF Die, files
<1>2. \A u \in Urls : /\ excused[u] \in Nat
                      /\ excused'[u] = excused[u] + Cardinality(Enlisting(u) \intersect Tasks)
  BY CutTyped DEF Die, WInv, TypeOK
<1>3. ASSUME NEW u \in Urls
      PROVE  /\ excused'[u] >= excused[u]
             /\ excused[u] + Cardinality(Enlisting(u)) <= excused'[u] + Cardinality(Enlisting(u)')
  <2>1. Enlisting(u) \intersect Tasks = Enlisting(u)
    BY DEF Enlisting
  <2> QED
    BY <1>2, <2>1, CountsTyped, CountsTypedNext
<1>4. \A q \in Tasks : Fresh(q)' => Fresh(q)
  BY <1>1 DEF Fresh
<1> QED
  BY <1>1, <1>3, <1>4, NoLineKeepsCounts

(* A step that changes neither lines nor excuses nor who is enlisting.     *)
LEMMA QuietKeepsCounts ==
    ASSUME WInv, TypeOK', UNCHANGED <<lines, excused>>, manifest \subseteq manifest',
           mode' = "batch" => mode = "batch",
           \A q \in Tasks : Fresh(q)' => Fresh(q),
           \A u \in Urls \ manifest' : Enlisting(u)' = Enlisting(u)
    PROVE  WInv'
<1>1. \A u \in Urls : excused[u] \in Nat
  BY DEF WInv, TypeOK
<1>2. \A u \in Urls \ manifest' : excused[u] + Cardinality(Enlisting(u))
                                    <= excused'[u] + Cardinality(Enlisting(u)')
  BY <1>1, CountsTyped
<1> QED
  BY <1>1, <1>2, NoLineKeepsCounts

(* Over any number of runs, crashes and failing appends, each line beyond  *)
(* one for each position that asks for its url has an excuse of its own.   *)
THEOREM RepeatsHold == Spec => []RepeatsAreCounted
<1>1. Init => TornAreExcused /\ FreshAreAhead /\ RepeatsAreCounted
  <2> SUFFICES ASSUME Init PROVE TornAreExcused /\ FreshAreAhead /\ RepeatsAreCounted
    OBVIOUS
  <2>1. mode = "off" /\ \A u \in Urls : lines[u] = 0 /\ excused[u] = 0
    BY DEF Init
  <2> QED
    BY <2>1, CountsTyped DEF TornAreExcused, FreshAreAhead, RepeatsAreCounted
<1>2. WInv /\ TypeOK' /\ [Next]_vars => WInv'
  <2> SUFFICES ASSUME WInv, TypeOK', [Next]_vars PROVE WInv'
    OBVIOUS
  <2> USE DEF files, memory, history
  <2>1. CASE StartBatch
    BY <2>1, StartKeepsCounts DEF StartBatch
  <2>2. CASE StartCommand
    BY <2>2, StartKeepsCounts DEF StartCommand
  <2>3. ASSUME NEW t \in Tasks, NEW p \in Places, Move(t, p),
               UNCHANGED <<lines, excused, mode>>, manifest \subseteq manifest',
               \A q \in Tasks : q # t => page'[q] = page[q],
               Fresh(t) \/ p \notin {"new", "scrape", "append"}, p # "enlist",
               place[t] = "enlist" => page[t].url \in manifest'
        PROVE  WInv'
    <3>1. \A q \in Tasks : place'[q] = IF q = t THEN p ELSE place[q]
      BY <2>3 DEF Move, WInv, TypeOK
    <3>2. \A q \in Tasks : Fresh(q)' => Fresh(q)
      BY <2>3, <3>1 DEF Fresh
    <3>3. ASSUME NEW u \in Urls \ manifest' PROVE Enlisting(u)' = Enlisting(u)
      <4>1. t \notin Enlisting(u) /\ t \notin Enlisting(u)'
        BY <2>3, <3>1 DEF Enlisting
      <4>2. \A q \in Tasks : q # t => (q \in Enlisting(u)' <=> q \in Enlisting(u))
        BY <2>3, <3>1 DEF Enlisting, Asked
      <4>3. \A q : q \in Enlisting(u)' \/ q \in Enlisting(u) => q \in Tasks
        BY DEF Enlisting
      <4>4. \A q : q \in Enlisting(u)' <=> q \in Enlisting(u)
        BY <4>1, <4>2, <4>3
      <4>5. Enlisting(u)' \subseteq Enlisting(u)
        BY <4>4
      <4>6. Enlisting(u) \subseteq Enlisting(u)'
        BY <4>4
      <4> QED
        BY <4>5, <4>6
    <3> QED
      BY <2>3, <3>2, <3>3, QuietKeepsCounts
  <2>4. ASSUME NEW t \in Tasks, Enter(t) PROVE WInv'
    BY <2>3, <2>4 DEF Enter, Fresh, Places
  <2>5. ASSUME NEW t \in Tasks, ScrapeFails(t) PROVE WInv'
    BY <2>3, <2>5 DEF ScrapeFails, Leave, Fresh, Places, Ended
  <2>6. ASSUME NEW t \in Tasks, WriteBegins(t) PROVE WInv'
    <3>1. \A q \in Tasks : q # t => page'[q] = page[q]
      BY <2>6 DEF WriteBegins, Return, WInv, TypeOK
    <3> QED
      BY <2>3, <2>6, <3>1 DEF WriteBegins, Fresh, Places, Writing
  <2>7. ASSUME NEW t \in Tasks, DuplicateContent(t) PROVE WInv'
    <3>1. \A q \in Tasks : q # t => page'[q] = page[q]
      BY <2>7 DEF DuplicateContent, Return, WInv, TypeOK
    <3> QED
      BY <2>3, <2>7, <3>1 DEF DuplicateContent, Leave, Fresh, Places, Ended
  <2>8. ASSUME NEW t \in Tasks, AppendLine(t) PROVE WInv'
    BY <2>8, AppendLineKeepsCounts
  <2>9. ASSUME NEW t \in Tasks, AppendManifest(t) PROVE WInv'
    BY <2>3, <2>9 DEF AppendManifest, Places, Writing
  <2>10. ASSUME NEW t \in Tasks, Note(t) PROVE WInv'
    BY <2>3, <2>10 DEF Note, Leave, Places, Ended
  <2>11. ASSUME NEW t \in Tasks, AppendFails(t) PROVE WInv'
    BY <2>11, FailKeepsCounts
  <2>12. CASE Die
    BY <2>12, DieKeepsCounts
  <2>13. CASE Finish
    <3>1. \A u : Enlisting(u)' = Enlisting(u)
      BY <2>13 DEF Finish, Enlisting, Asked, Ended
    <3> QED
      BY <2>13, <3>1, QuietKeepsCounts DEF Finish, Fresh
  <2>14. CASE UNCHANGED vars
    <3>1. \A u : Enlisting(u)' = Enlisting(u)
      BY <2>14 DEF vars, Enlisting, Asked
    <3> QED
      BY <2>14, <3>1, QuietKeepsCounts DEF vars, Fresh
  <2> QED
    BY <2>1, <2>2, <2>4, <2>5, <2>6, <2>7, <2>8, <2>9, <2>10, <2>11, <2>12, <2>13, <2>14
       DEF Next, Serve
<1>3. WInv => RepeatsAreCounted
  BY DEF WInv
<1>4. TypeOK /\ TornAreExcused /\ FreshAreAhead /\ RepeatsAreCounted => WInv
  BY DEF WInv
<1> QED
  BY <1>1, <1>2, <1>3, <1>4, TypesHold, PTL DEF Spec
=============================================================================
