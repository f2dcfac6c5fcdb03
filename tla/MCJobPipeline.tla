--------------------------- MODULE MCJobPipeline ---------------------------
(* Small instances of JobPipeline for TLC.                                  *)
EXTENDS JobPipeline

\* All jobs ask for the same url: this is where they interfere.
CONSTANT TheUrl
SameUrls == {TheUrl}
SameUrl  == [j \in Jobs |-> TheUrl]
=============================================================================
