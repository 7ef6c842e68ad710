------------------------------- MODULE Evidence -------------------------------
(***************************************************************************)
(* The components that make evidence of what other services publish,        *)
(* together.  They share no state; a behaviour is one of a single component, *)
(* which the initial state chooses, and the others stay parked.             *)
(***************************************************************************)
EXTENDS EvidenceAnalysis, FiniteSets

CONSTANTS
    News, Filings, FilingChunks, TopK, SourceK, RrfK, Scale, RerankK,
    SearchFaults,                                                       \* of EvidenceRetrieval
    LastDay, Backfill, Recent, MaxRows, Window, Closes, PriceFaults,    \* of PriceHistory
    Tables, Texted, MaxChars,                                           \* of FilingText
    ListSyncs, PageCount, MaxFiled, ListFaults,                         \* of DartListing
    PriceSyncs, FinanceSyncs, LastTrade, LastQuarter, Lookback, MaxQuarters,
    RatioFaults,                                                        \* of Valuation
    Urls, Alike, ShortTitles, Searches, Caches, PageDates, SixHours, BodyCrawlLimit,
    BodyAttempts, NewsFaults,                                           \* of NewsSelection
    Readers, MaxAge, Ttl, FetchTime, MaxTime, QuoteFaults,              \* of QuoteCache
    FeedNews, FeedFilings, LastIssue, MaxItems, Limits, MaxChanges      \* of WatchlistFeed

ASSUME EvidenceAssumption ==
    /\ IsFiniteSet(News) /\ IsFiniteSet(Filings) /\ FilingChunks \in Nat
    /\ TopK \in Nat /\ SourceK \in Nat /\ RerankK \in Nat
    /\ Backfill \in Nat /\ Recent \in Nat /\ MaxRows \in Nat \ {0} /\ Window \in Nat \ {0}
    /\ LastTrade \in Nat \ {0} /\ LastQuarter \in Nat \ {0} /\ Lookback \in Nat \ {0}
    /\ MaxQuarters \in Nat /\ PriceSyncs \cap FinanceSyncs = {}
    /\ MaxAge \in Nat /\ FetchTime \in Nat /\ \A p \in DOMAIN Ttl : Ttl[p] \in Nat
    /\ PageCount \in Nat \ {0} /\ MaxFiled \in Nat
    /\ IsFiniteSet(FeedNews) /\ IsFiniteSet(FeedFilings) /\ FeedNews \cap FeedFilings = {}
    /\ LastIssue \in Nat /\ MaxItems \in Nat \ {0} /\ Limits \subseteq Int

\* max(1, rag_rrf_k); every rank that a list may have gives a whole number.
ASSUME FusionAssumption ==
    /\ RrfK \in Nat \ {0} /\ Scale \in Nat
    /\ \A rank \in 1..(SourceK + Cardinality(News \cup Filings)) : Scale % (RrfK + rank) = 0

\* _span_to_int gives at least one; a line ends after the one before it.
ASSUME TextAssumption ==
    /\ Tables \subseteq Seq(Seq([text : STRING, rows : Nat \ {0}, columns : Nat \ {0}]))
    /\ Texted \subseteq Seq(Seq(Nat)) /\ MaxChars \in Nat
    /\ \A d \in Texted : \A s \in DOMAIN d : \A i, j \in DOMAIN d[s] :
          i < j => d[s][i] < d[s][j]

ASSUME SearchAssumption ==
    Searches \subseteq Seq([url : Urls, title : STRING, date : Nat, direct : BOOLEAN])

VARIABLES
    which,
    settings, rows, vec, source, hits, lists, broken, step, evidence, unsaved, saved, gone,
    rfaults,
    today, open, final, price, ind, pstage, window, fetched, behind, unasked, view,
    pfaults,
    table, grid, column, text, document, from, number, chunks, part, item, tstage,
    file, filed, frows, fpc, known, page, items, crashed, ffaults,
    day, quarter, close, ratio, vpc, lock, own, priced, valued, loaded, met, vfaults,
    found, recent, others, nstage, skip, left, groups, turn, attempt, tried, body, queue,
    redated, nfaults,
    now, phase, key, qpc, began, seen, last, best, overlapped, qfaults,
    date, wrows, wstage, capped, news, filings, feed, lasting, changes

rvars == <<settings, rows, vec, source, hits, lists, broken, step, evidence, unsaved,
           saved, gone, rfaults>>
pvars == <<today, open, final, price, ind, pstage, window, fetched, behind, unasked, view,
           pfaults>>
tvars == <<table, grid, column, text, document, from, number, chunks, part, item, tstage>>
fvars == <<file, filed, frows, fpc, known, page, items, crashed, ffaults>>
vvars == <<day, quarter, close, ratio, vpc, lock, own, priced, valued, loaded, met, vfaults>>
nvars == <<found, recent, others, nstage, skip, left, groups, turn, attempt, tried, body,
           queue, redated, nfaults>>
qvars == <<now, phase, key, qpc, began, seen, last, best, overlapped, qfaults>>
wvars == <<date, wrows, wstage, capped, news, filings, feed, lasting, changes>>

Retrieval == INSTANCE EvidenceRetrieval
    WITH Chunks <- FilingChunks, MaxFaults <- SearchFaults,
         stage <- step, faults <- rfaults

Prices == INSTANCE PriceHistory
    WITH MaxFaults <- PriceFaults, stage <- pstage, faults <- pfaults

Filing == INSTANCE FilingText WITH Documents <- Texted, stage <- tstage

Listing == INSTANCE DartListing
    WITH Syncs <- ListSyncs, MaxFaults <- ListFaults,
         rows <- frows, pc <- fpc, faults <- ffaults

Ratios == INSTANCE Valuation
    WITH LastDay <- LastTrade, MaxRows <- MaxQuarters, MaxFaults <- RatioFaults,
         pc <- vpc, faults <- vfaults

Selection == INSTANCE NewsSelection
    WITH MaxFaults <- NewsFaults, stage <- nstage, faults <- nfaults

Quote == INSTANCE QuoteCache
    WITH Callers <- Readers, MaxFaults <- QuoteFaults, pc <- qpc, faults <- qfaults

Feed == INSTANCE WatchlistFeed
    WITH News <- FeedNews, Filings <- FeedFilings, LastDay <- LastIssue,
         rows <- wrows, stage <- wstage

\* A parked component has no state of its own.
Parked == "parked"

ParkAnalysis ==
    /\ doc = (CHOOSE d \in Documents : d.rules = {}) /\ hf = "none" /\ stage = "fetched"
    /\ baseline = Neutral /\ result = NoResult /\ again = "none" /\ asked = FALSE

ParkRetrieval ==
    /\ settings = Parked /\ rows = Parked /\ vec = Parked /\ source = Parked
    /\ hits = Parked /\ lists = Parked /\ broken = Parked /\ step = Parked
    /\ evidence = Parked /\ unsaved = Parked /\ saved = Parked /\ gone = Parked
    /\ rfaults = Parked

ParkPrices ==
    /\ today = Parked /\ open = Parked /\ final = Parked /\ price = Parked /\ ind = Parked
    /\ pstage = Parked /\ window = Parked /\ fetched = Parked /\ behind = Parked
    /\ unasked = Parked /\ view = Parked /\ pfaults = Parked

ParkFiling ==
    /\ table = Parked /\ grid = Parked /\ column = Parked /\ text = Parked
    /\ document = Parked /\ from = Parked /\ number = Parked /\ chunks = Parked
    /\ part = Parked /\ item = Parked /\ tstage = Parked

ParkListing ==
    /\ file = Parked /\ filed = Parked /\ frows = Parked /\ fpc = Parked /\ known = Parked
    /\ page = Parked /\ items = Parked /\ crashed = Parked /\ ffaults = Parked

ParkRatios ==
    /\ day = Parked /\ quarter = Parked /\ close = Parked /\ ratio = Parked /\ vpc = Parked
    /\ lock = Parked /\ own = Parked /\ priced = Parked /\ valued = Parked
    /\ loaded = Parked /\ met = Parked /\ vfaults = Parked

ParkSelection ==
    /\ found = Parked /\ recent = Parked /\ others = Parked /\ nstage = Parked
    /\ skip = Parked /\ left = Parked /\ groups = Parked /\ turn = Parked
    /\ attempt = Parked /\ tried = Parked /\ body = Parked /\ queue = Parked
    /\ redated = Parked /\ nfaults = Parked

ParkQuote ==
    /\ now = Parked /\ phase = Parked /\ key = Parked /\ qpc = Parked /\ began = Parked
    /\ seen = Parked /\ last = Parked /\ best = Parked /\ overlapped = Parked
    /\ qfaults = Parked

ParkFeed ==
    /\ date = Parked /\ wrows = Parked /\ wstage = Parked /\ capped = Parked
    /\ news = Parked /\ filings = Parked /\ feed = Parked /\ lasting = Parked
    /\ changes = Parked

AllInit ==
    /\ which \in {"analysis", "retrieval", "prices", "filing", "listing", "ratios",
                  "selection", "quote", "feed"}
    /\ IF which = "analysis" THEN Init ELSE ParkAnalysis
    /\ IF which = "retrieval" THEN Retrieval!Init ELSE ParkRetrieval
    /\ IF which = "prices" THEN Prices!Init ELSE ParkPrices
    /\ IF which = "filing" THEN Filing!Init ELSE ParkFiling
    /\ IF which = "listing" THEN Listing!Init ELSE ParkListing
    /\ IF which = "ratios" THEN Ratios!Init ELSE ParkRatios
    /\ IF which = "selection" THEN Selection!Init ELSE ParkSelection
    /\ IF which = "quote" THEN Quote!Init ELSE ParkQuote
    /\ IF which = "feed" THEN Feed!Init ELSE ParkFeed

AllNext ==
    \/ /\ which = "analysis" /\ Next
       /\ UNCHANGED <<which, rvars, pvars, tvars, fvars, vvars, nvars, qvars, wvars>>
    \/ /\ which = "retrieval" /\ Retrieval!Next
       /\ UNCHANGED <<which, vars, pvars, tvars, fvars, vvars, nvars, qvars, wvars>>
    \/ /\ which = "prices" /\ Prices!Next
       /\ UNCHANGED <<which, vars, rvars, tvars, fvars, vvars, nvars, qvars, wvars>>
    \/ /\ which = "filing" /\ Filing!Next
       /\ UNCHANGED <<which, vars, rvars, pvars, fvars, vvars, nvars, qvars, wvars>>
    \/ /\ which = "listing" /\ Listing!Next
       /\ UNCHANGED <<which, vars, rvars, pvars, tvars, vvars, nvars, qvars, wvars>>
    \/ /\ which = "ratios" /\ Ratios!Next
       /\ UNCHANGED <<which, vars, rvars, pvars, tvars, fvars, nvars, qvars, wvars>>
    \/ /\ which = "selection" /\ Selection!Next
       /\ UNCHANGED <<which, vars, rvars, pvars, tvars, fvars, vvars, qvars, wvars>>
    \/ /\ which = "quote" /\ Quote!Next
       /\ UNCHANGED <<which, vars, rvars, pvars, tvars, fvars, vvars, nvars, wvars>>
    \/ /\ which = "feed" /\ Feed!Next
       /\ UNCHANGED <<which, vars, rvars, pvars, tvars, fvars, vvars, nvars, qvars>>

allvars == <<which, vars, rvars, pvars, tvars, fvars, vvars, nvars, qvars, wvars>>

AllSpec == AllInit /\ [][AllNext]_allvars

-----------------------------------------------------------------------------
(* The properties of the components                                         *)

\* Reciprocal rank fusion: a document that every list ranks above another is found first.
RankFusion == Retrieval!FusionRespectsLists

\* The evidence of a debate names no document twice and none that never had a row; once
\* it is saved, it refers to rows that exist, or to nothing if the row has gone since.
EvidenceSound ==
    which = "retrieval" =>
        Retrieval!EvidenceDistinct /\ Retrieval!OrphansNotQuoted /\ Retrieval!EvidenceOnRecord

\* The price history has no hole that a sync could have filled, its change rates fit the
\* closes stored, and the indicators average the closes that the table has, also on the
\* page of a stock unless a sync was storing.
PricesConsistent ==
    which = "prices" =>
        /\ Prices!HistoryIsWhole /\ Prices!RatesMatchCloses
        /\ Prices!IndicatorsFollowPrices /\ Prices!PageOfOneDay

\* PER and PBR belong to the close and the quarter of their row, unless syncs overlapped;
\* the quote of the day is a recent one, and goes back in time only after overlapping
\* fetches or errors.
NumbersOfTheirTime ==
    /\ which = "ratios" => Ratios!RatioOfItsRow
    /\ which = "quote" => Quote!QuoteRecent /\ Quote!BackwardExplained

\* A sync that ends has stored all filings that were there when it began, however many
\* come in while it turns the pages, and half a map of company codes stays only after a
\* process died writing it.  The feed of a user shows the newest of what is kept, however
\* the lists that it is merged from were cut.
ListsComplete ==
    /\ which = "listing" => Listing!ListingComplete /\ Listing!PartialMapExplained
    /\ which = "feed" => Feed!FeedShowsNewest

\* What becomes text of a filing has its spanned cells in every row that they span and
\* loses values in known places only, and each line is in one chunk.  Of each topic of the
\* news one row is kept, if any page on it that was tried is usable and unless pages date
\* themselves; and a sync of news is lost only to an address that came into the table
\* after it had looked.
TextsWellChosen ==
    /\ which = "filing" => Filing!GridShowsSpans /\ Filing!LossExplained /\ Filing!ChunksWhole
    /\ which = "selection" =>
           /\ Selection!OneRowPerTopic /\ Selection!UsableKept /\ Selection!TopicsTried
           /\ Selection!LostToSharedUrl
=============================================================================
