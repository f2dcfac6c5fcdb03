--------------------------- MODULE MCLocalScrape ----------------------------
(* A small instance of LocalScrape for TLC.                                 *)
EXTENDS LocalScrape

Page(u, c) == [url |-> u, content |-> c]

\* "a" is listed twice.  The page of "b" may change to the content of "a";
\* that of "c" is stored under "b", its canonical url.
FourTasks == 1..4
FourUrls  == <<"a", "a", "b", "c">>
SomePages == [u \in {"a", "b", "c"} |->
    CASE u = "a" -> {Page("a", "same")}
      [] u = "b" -> {Page("b", "same"), Page("b", "other")}
      [] u = "c" -> {Page("b", "other")}]
=============================================================================
