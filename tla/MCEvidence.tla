------------------------------ MODULE MCEvidence ------------------------------
(***************************************************************************)
(* Evidence, for one run of TLC.                                            *)
(***************************************************************************)
EXTENDS Evidence, FilingSamples

CONSTANTS n1, n2, f1, f2, s1, s2, p1, p2

\* Three articles of a search, the first two perhaps with one address; titles a and b are
\* alike, and so are b and c.  A row with title a may be there already.
Articles(urls, titles, dates) ==
    {[url |-> u, title |-> t, date |-> d, direct |-> u # 2] :
        u \in urls, t \in titles, d \in dates}

MCSearches ==
    {<<x, y, z>> : x \in Articles({1}, {"a", "b", "short"}, {1}),
                   y \in Articles({1, 2}, {"a", "b", "c", "short"}, {1, 3}),
                   z \in Articles({3}, {"a", "c"}, {0, 1})}

MCAlike == {{"a", "b"}, {"b", "c"}}
MCCaches == {{}, {[url |-> 4, title |-> "a", date |-> 1]}}

MCTtl == [open |-> 1, closed |-> 2, weekend |-> 3]

\* The impacts that the model names: one of each sign, one of them out of range.
MCImpacts == {-3, 2}

\* Bound: at most two rules match; the extract is prose for news and has key points.
AnalysisBound ==
    /\ Cardinality(doc.rules) <= 2 /\ doc.points = "prose"
    /\ doc.kind = "news" => doc.extract = "prose" /\ ~doc.earnings

\* Bound: a request for the page of a stock is over by the end of the day.
SameDay == which = "prices" /\ view.reading => today' = today

\* Bound: without fusion nothing is reranked.
RetrievalBound == settings.reranker => settings.hybrid

\* Bound: the other symbols of the news have at most the last article.
SelectionBound == others \subseteq {3}

\* Bound: at most one row is not in the tables when the feed is asked for.
FeedBound == Cardinality(wrows) >= 3

MCInit ==
    /\ AllInit
    /\ which = "analysis" => AnalysisBound
    /\ which = "retrieval" => RetrievalBound
    /\ which = "selection" => SelectionBound
    /\ which = "feed" => FeedBound

MCSpec == MCInit /\ [][AllNext /\ SameDay]_allvars
=============================================================================
