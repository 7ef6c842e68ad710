----------------------------- MODULE WatchlistFeed -----------------------------
(***************************************************************************)
(* The feed of a user (api/watchlist.py, get_watchlist_feed): the newest of  *)
(* the news and filings of the symbols that the user watches.  Each table is *)
(* asked for as many rows as the feed has, in the order of publication; then *)
(* the rows are merged in an order that is not the same, and cut.            *)
(*                                                                         *)
(* Left out: the names of the symbols and the analyses that go with a row.   *)
(***************************************************************************)
EXTENDS Integers, FiniteSets

CONSTANTS
    News, Filings,   \* rows of the watched symbols that may be in the tables
    LastDay,         \* the days are 1..LastDay
    MaxItems,        \* the longest feed
    Limits,          \* the lengths that requests ask for
    MaxChanges       \* bound on the rows that come and go during a request

VARIABLES
    date,      \* when a row was published, if that is known, and retrieved
    rows,      \* the rows in the tables
    stage,     \* the next statement of the request
    capped,    \* the length of the feed
    news, filings,   \* what the two SELECTs have returned
    feed,      \* the answer
    lasting,   \* rows that have been in the tables throughout the request
    changes

vars == <<date, rows, stage, capped, news, filings, feed, lasting, changes>>

Items == News \cup Filings
Unknown == 0

Init ==
    /\ date \in [Items -> {d \in [published : 0..LastDay, retrieved : 1..LastDay] :
                               d.published <= d.retrieved}]
    /\ rows \in SUBSET Items
    /\ stage = "request" /\ capped = 1 /\ changes = 0
    /\ news = {} /\ filings = {} /\ feed = {} /\ lasting = {}

TypeOK ==
    /\ stage \in {"request", "news", "filings", "merge", "answered"}
    /\ capped \in 1..MaxItems /\ changes \in 0..MaxChanges
    /\ rows \subseteq Items /\ news \subseteq News /\ filings \subseteq Filings
    /\ feed \subseteq Items /\ lasting \subseteq rows

-----------------------------------------------------------------------------
Published(i) == date[i].published

\* ORDER BY published_at DESC NULLS LAST, retrieved_at DESC
Ahead(i, j) ==
    \/ Published(i) > Published(j)
    \/ Published(i) = Published(j) /\ date[i].retrieved > date[j].retrieved

\* The day that the feed shows.
Shown(i) == IF Published(i) = Unknown THEN date[i].retrieved ELSE Published(i)

\* The merge: by the day shown; the sort is stable, and the news are first in the list.
Newer(i, j) ==
    \/ Shown(i) > Shown(j)
    \/ Shown(i) = Shown(j) /\ i \in News /\ j \in Filings
    \/ Shown(i) = Shown(j) /\ (i \in News <=> j \in News) /\ Ahead(i, j)

\* The order of a SELECT, or of the merge.
Before(merging, i, j) == IF merging THEN Newer(i, j) ELSE Ahead(i, j)

\* The first rows of a set, as many as the feed has.
FirstOf(S, merging) ==
    {T \in SUBSET S : /\ Cardinality(T) <= capped
                      /\ T # S => Cardinality(T) = capped
                      /\ \A i \in T, j \in S \ T : ~Before(merging, j, i)}

Cap(limit) == IF limit < 1 THEN 1 ELSE IF limit > MaxItems THEN MaxItems ELSE limit

-----------------------------------------------------------------------------
Request ==
    /\ stage = "request" /\ stage' = "news"
    /\ \E limit \in Limits : capped' = Cap(limit)
    /\ lasting' = rows
    /\ UNCHANGED <<date, rows, news, filings, feed, changes>>

SelectNews ==
    /\ stage = "news" /\ stage' = "filings"
    /\ news' \in FirstOf(rows \cap News, FALSE)
    /\ UNCHANGED <<date, rows, capped, filings, feed, lasting, changes>>

SelectFilings ==
    /\ stage = "filings" /\ stage' = "merge"
    /\ filings' \in FirstOf(rows \cap Filings, FALSE)
    /\ UNCHANGED <<date, rows, capped, news, feed, lasting, changes>>

Merge ==
    /\ stage = "merge" /\ stage' = "answered"
    /\ feed' \in FirstOf(news \cup filings, TRUE)
    /\ UNCHANGED <<date, rows, capped, news, filings, lasting, changes>>

\* Meanwhile syncs, cleanups and purges commit.
Change(i) ==
    /\ stage \in {"news", "filings"} /\ changes < MaxChanges /\ changes' = changes + 1
    /\ IF i \in rows THEN rows' = rows \ {i} ELSE rows' = rows \cup {i}
    /\ lasting' = lasting \ {i}
    /\ UNCHANGED <<date, stage, capped, news, filings, feed>>

Next == Request \/ SelectNews \/ SelectFilings \/ Merge \/ \E i \in Items : Change(i)

Spec == Init /\ [][Next]_vars

-----------------------------------------------------------------------------
(* Properties                                                               *)

SelectOf(i) == IF i \in News THEN news ELSE filings

\* A row without a day of publication is the last of its table, however new it is.
CutUndated(i) ==
    Published(i) = Unknown /\ i \notin SelectOf(i) /\ Cardinality(SelectOf(i)) = capped

\* A row that the feed leaves out is no newer than any that it shows, though each table was
\* asked for its own newest in another order, and rows came and went between; only a row
\* without a day of publication may be cut off before the merge.
FeedShowsNewest ==
    stage = "answered" =>
        \A i \in lasting \ feed :
            /\ Cardinality(feed) = capped
            /\ CutUndated(i) \/ \A j \in feed : Shown(i) <= Shown(j)
=============================================================================
