--------------------------- MODULE MCScrapeEngine ---------------------------
(* Small instances of ScrapeEngine for TLC; the values are in the configs.  *)
EXTENDS ScrapeEngine, TLC

\* Calls of scrape are interchangeable: safety runs only.
Symmetry == Permutations(Tasks)
=============================================================================
