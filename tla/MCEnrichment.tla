---------------------------- MODULE MCEnrichment ----------------------------
(* A small instance of Enrichment for TLC.                                  *)
EXTENDS Enrichment

\* Article 2 is listed by both publications; article 1 is a poor post.
TwoArticles == 1..2
SomeFeeds == [c \in IngestCommands |->
                 IF c = "ingest" THEN <<{1, 2}, {2}>>
                 ELSE IF c = "ingest-reddit" THEN <<{1, 2}>> ELSE <<>>]
TwoSubscribers == 1..2

TwoRuns == {"one", "two"}
Both(one, two) == [r \in TwoRuns |-> IF r = "one" THEN one ELSE two]
\* The workflow alone, and its parts next to each other.
Daily == <<"ingest", "ingest-reddit", "ingest-news", "summarize", "seed-owner",
           "sync-users", "embed-articles", "embed-profiles", "score-users", "prune">>
Scored == <<"ingest", "embed-articles", "seed-owner", "embed-profiles", "score-users">>
\* In the last but one, embed-articles meets the prune as well.
Pairs == {
    Both(Daily, <<>>),
    Both(<<"ingest", "summarize">>, <<"summarize">>),
    Both(<<"ingest", "refresh">>, <<"ingest">>),
    Both(<<"ingest", "prune">>, <<"prune">>),
    Both(<<"ingest", "embed-articles">>, <<"embed-articles">>),
    Both(<<"sync-users", "embed-profiles">>, <<"sync-users", "embed-profiles">>),
    Both(Scored, <<"score-users">>),
    Both(Scored \o <<"score-users">>, <<"prune">>),
    Both(<<"ingest", "refresh", "sync-users", "embed-articles", "embed-profiles",
           "score-users", "digest">>, <<>>)
}
=============================================================================
