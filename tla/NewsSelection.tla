--------------------------- MODULE NewsSelection ---------------------------
(***************************************************************************)
(* Which articles of a search become rows of news_cache                     *)
(* (domain/news_ingestion.py): the articles found are grouped by topic, the *)
(* pages of each group are tried until one has a usable text, and then the  *)
(* articles are gone through once more in the order of the search.  Each    *)
(* iteration of these three loops is an action.  The lock, the cooldown,    *)
(* the vectors and the trimming are in NewsSync.                            *)
(*                                                                          *)
(* An article is known by its place in the answer of the search.  Titles    *)
(* are similar if they share most of their words, which is not transitive;  *)
(* a title of few words is similar to none.                                 *)
(***************************************************************************)
EXTENDS Naturals, Sequences, FiniteSets, FiniteSetsExt, SequencesExt

CONSTANTS
    Urls,             \* what normalize_url makes of the addresses
    Alike,            \* pairs of titles that share 70 % of their words
    ShortTitles,      \* the titles of less than five words
    Searches,         \* the answers that the search may give, sequences of articles
    Caches,           \* the rows of the last day that the table may have
    PageDates,        \* the dates that a page may give itself
    SixHours,
    BodyCrawlLimit,   \* BODY_CRAWL_LIMIT
    BodyAttempts,     \* BODY_ATTEMPTS_PER_GROUP
    MaxFaults

VARIABLES
    found,     \* what the search has answered
    recent,    \* the rows of the symbol of the last day
    others,    \* addresses of rows that other symbols have
    stage,     \* search, group, scrape, store, done, failed
    skip,      \* the addresses that were in the table after the search
    left,      \* the articles that are not in the table and still to be grouped
    groups,    \* the articles to scrape, by topic
    turn,      \* the group that is being scraped
    attempt,   \* and which of its pages is next
    tried,     \* the articles whose pages were scraped
    body,      \* of the addresses with a usable text: whose it was, and the page's date
    queue,     \* the articles still to be stored
    redated,   \* addresses of the rows dated by their pages
    faults

vars == <<found, recent, others, stage, skip, left, groups, turn, attempt, tried, body,
          queue, redated, faults>>

NoDate == 0

\* Words in common, and not more than six hours apart, as far as dates are known.
Similar(a, b) ==
    /\ a.title \notin ShortTitles /\ b.title \notin ShortTitles
    /\ a.title = b.title \/ {a.title, b.title} \in Alike
    /\ \/ NoDate \in {a.date, b.date}
       \/ a.date <= b.date + SixHours /\ b.date <= a.date + SixHours

HasSimilar(article, rows) == \E r \in rows : Similar(article, r)
UrlsOf(rows) == {r.url : r \in rows}

TypeOK ==
    /\ stage \in {"search", "group", "scrape", "store", "done", "failed"}
    /\ others \subseteq Urls /\ skip \subseteq Urls /\ redated \subseteq Urls
    /\ DOMAIN body \subseteq Urls /\ UrlsOf(recent) \subseteq Urls
    /\ left \subseteq queue /\ queue \cup tried \subseteq DOMAIN found

Init ==
    /\ found \in Searches /\ recent \in Caches /\ others \in SUBSET Urls
    /\ UrlsOf(recent) \cap others = {}
    /\ stage = "search" /\ skip = {} /\ left = {} /\ groups = <<>> /\ turn = 1
    /\ attempt = 1 /\ tried = {} /\ body = <<>> /\ queue = {} /\ redated = {} /\ faults = 0

-----------------------------------------------------------------------------
(* _select_body_candidate_groups                                            *)

\* The newest first; of articles of one date, those with a link of their own.
Newer(a, b) == a.date > b.date \/ (a.date = b.date /\ a.direct /\ ~b.direct)

\* The sort is stable.
Before(i, j) ==
    Newer(found[i], found[j]) \/ (~Newer(found[j], found[i]) /\ i < j)

\* A group is known by its newest article.
SameTopic(group, i) == Similar(found[i], found[Head(group)])

AddToGroups(gs, i) ==
    LET matching == {g \in DOMAIN gs : SameTopic(gs[g], i)}
        full == Len(gs) >= BodyCrawlLimit
    IN IF HasSimilar(found[i], recent) THEN gs
       ELSE IF matching = {} THEN IF full THEN gs ELSE Append(gs, <<i>>)
       ELSE IF Len(gs[Min(matching)]) >= BodyAttempts THEN gs
       ELSE [gs EXCEPT ![Min(matching)] = Append(@, i)]

Group ==
    /\ stage = "group"
    /\ \E i \in left :
          /\ \A j \in left \ {i} : Before(i, j)
          /\ left' = left \ {i} /\ groups' = AddToGroups(groups, i)
    /\ UNCHANGED <<found, recent, others, stage, skip, turn, attempt, tried, body, queue,
                   redated, faults>>

EndGroup ==
    /\ stage = "group" /\ left = {} /\ stage' = "scrape"
    /\ UNCHANGED <<found, recent, others, skip, left, groups, turn, attempt, tried, body,
                   queue, redated, faults>>

-----------------------------------------------------------------------------
(* sync_news_for_ticker                                                     *)

\* The search has answered: titles, ages and languages let any articles through, and
\* those whose address the table has, of whatever symbol, are looked up once.
Select ==
    /\ stage = "search" /\ stage' = "group"
    /\ queue' \in SUBSET DOMAIN found
    /\ skip' = UrlsOf(recent) \cup others
    /\ left' = {i \in queue' : found[i].url \notin skip'}
    /\ UNCHANGED <<found, recent, others, groups, turn, attempt, tried, body, redated, faults>>

\* What a page is worth: it fails, has no text, too little of it or nothing about the
\* company; or it has a text, and perhaps a date of its own.
Pages == {[usable |-> FALSE, date |-> NoDate]}
             \cup [usable : {TRUE}, date : PageDates \cup {NoDate}]

WithText(i, date) ==
    [url \in DOMAIN body \cup {found[i].url} |->
        IF url = found[i].url THEN [by |-> i, date |-> date] ELSE body[url]]

\* The page of the next article of a group; the pages are tried until one can be used.
Scrape ==
    /\ stage = "scrape" /\ turn <= Len(groups)
    /\ LET i == groups[turn][attempt]
       IN /\ tried' = tried \cup {i}
          /\ \E page \in Pages :
                /\ IF page.usable \/ attempt = Len(groups[turn])
                   THEN turn' = turn + 1 /\ attempt' = 1
                   ELSE attempt' = attempt + 1 /\ UNCHANGED turn
                /\ body' = IF page.usable THEN WithText(i, page.date) ELSE body
    /\ UNCHANGED <<found, recent, others, stage, skip, left, groups, queue, redated, faults>>

EndScrape ==
    /\ stage = "scrape" /\ turn > Len(groups) /\ stage' = "store"
    /\ UNCHANGED <<found, recent, others, skip, left, groups, turn, attempt, tried, body,
                   queue, redated, faults>>

\* A sync of another symbol stores an article that is about both; its lock is another.
StoredForOther(url) ==
    /\ stage \in {"group", "scrape", "store"} /\ faults < MaxFaults /\ faults' = faults + 1
    /\ url \notin others \cup UrlsOf(recent) /\ others' = others \cup {url}
    /\ UNCHANGED <<found, recent, stage, skip, left, groups, turn, attempt, tried, body,
                   queue, redated>>

RowOf(article) ==
    [url |-> article.url, title |-> article.title,
     date |-> IF body[article.url].date = NoDate THEN article.date ELSE body[article.url].date]

\* A bug to compare with: the row is not compared with the articles that follow.
KeepsOldRows(row) == recent

WithRow(row) == recent \cup {row}

\* The text of the article's address may have been scraped for another article with that
\* address, whose title says more of the company.
ScrapedFor(article) == found[body[article.url].by]

Ready(article) ==
    article.url \notin skip /\ ~HasSimilar(article, recent) /\ article.url \in DOMAIN body

\* The next article.  An address that is in the table by now breaks the unique index, and
\* the sync is lost with all its rows.
Store ==
    /\ stage = "store"
    /\ \E i \in queue :
          /\ \A j \in queue : i <= j
          /\ queue' = queue \ {i}
          /\ \/ /\ Ready(found[i]) => ScrapedFor(found[i]) # found[i]
                /\ UNCHANGED <<recent, redated, stage>>
             \/ /\ Ready(found[i]) /\ found[i].url \notin others \cup UrlsOf(recent)
                /\ recent' = WithRow(RowOf(found[i])) /\ UNCHANGED stage
                /\ redated' = IF body[found[i].url].date = NoDate THEN redated
                              ELSE redated \cup {found[i].url}
             \/ /\ Ready(found[i]) /\ found[i].url \in others \cup UrlsOf(recent)
                /\ stage' = "failed" /\ UNCHANGED <<recent, redated>>
    /\ UNCHANGED <<found, others, skip, left, groups, turn, attempt, tried, body, faults>>

EndStore ==
    /\ stage = "store" /\ queue = {} /\ stage' = "done"
    /\ UNCHANGED <<found, recent, others, skip, left, groups, turn, attempt, tried, body,
                   queue, redated, faults>>

Next ==
    \/ Select \/ Group \/ EndGroup \/ Scrape \/ EndScrape \/ Store \/ EndStore
    \/ \E url \in Urls : StoredForOther(url)

Spec == Init /\ [][Next]_vars

-----------------------------------------------------------------------------
(* Properties                                                               *)

\* Two rows, one of which the sync has stored, are about one topic only if a page has
\* dated one of them: articles are compared by the date of the search, rows are kept by
\* the date of their page.
OneRowPerTopic ==
    stage # "search" =>
        \A a, b \in recent : a # b /\ Similar(a, b) /\ ~({a.url, b.url} \subseteq skip) =>
            {a.url, b.url} \cap redated # {}

Covered(article) == HasSimilar(article, recent) \/ article.url \in UrlsOf(recent)

\* An article with a usable text is in the table at the end, or one on its topic.
UsableKept == stage = "done" => \A url \in DOMAIN body : Covered(found[body[url].by])

\* A group gives its topic up only when all its pages have been tried, or a usable one
\* was scraped again for an article of another group that has its address.
TopicsTried ==
    stage = "done" => \A g \in DOMAIN groups :
        \/ \E k \in DOMAIN groups[g] :
              LET i == groups[g][k]
              IN Covered(found[i]) \/ (found[i].url \in DOMAIN body /\ body[found[i].url].by # i)
        \/ \A k \in DOMAIN groups[g] : groups[g][k] \in tried

\* A sync is lost only when an address came into the table after it had looked: one that
\* another symbol has stored meanwhile, or one that the search has given twice.
LostToSharedUrl ==
    stage = "failed" =>
        faults > 0 \/ \E i, j \in DOMAIN found : i # j /\ found[i].url = found[j].url
=============================================================================
