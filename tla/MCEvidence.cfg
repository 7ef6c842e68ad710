\* The analysis of one document, a retrieval of three documents with one fault, the
\* prices of five days, tables of three rows, five filings, ratios under
\* three syncs, a search of three articles with one fault, two readers of the quote, and
\* the feed of two news and two filings, one of which may come or go.
CONSTANTS
    MaxHits = 2
    MinImpact = 1
    Impacts <- MCImpacts
    n1 = n1
    n2 = n2
    f1 = f1
    f2 = f2
    s1 = s1
    s2 = s2
    p1 = p1
    p2 = p2
    News = {n1, n2}
    Filings = {f1}
    FilingChunks = 2
    TopK = 2
    SourceK = 3
    RrfK = 4
    Scale = 2520
    RerankK = 2
    SearchFaults = 1
    LastDay = 5
    Backfill = 3
    Recent = 1
    MaxRows = 3
    Window = 2
    Closes = {1, 2}
    PriceFaults = 1
    Tables <- SampleTables
    Texted <- SampleDocuments
    MaxChars = 4
    ListSyncs = {s1, s2}
    PageCount = 2
    MaxFiled = 5
    ListFaults = 1
    PriceSyncs = {p1, p2}
    FinanceSyncs = {s1}
    LastTrade = 2
    LastQuarter = 2
    Lookback = 2
    MaxQuarters = 2
    RatioFaults = 1
    Urls = {1, 2, 3, 4}
    Alike <- MCAlike
    ShortTitles = {"short"}
    Searches <- MCSearches
    Caches <- MCCaches
    PageDates = {3}
    SixHours = 1
    BodyCrawlLimit = 2
    BodyAttempts = 2
    NewsFaults = 1
    Readers = {s1, s2}
    MaxAge = 1
    Ttl <- MCTtl
    FetchTime = 1
    MaxTime = 4
    QuoteFaults = 1
    FeedNews = {n1, n2}
    FeedFilings = {f1, f2}
    LastIssue = 2
    MaxItems = 2
    Limits = {0, 2, 3}
    MaxChanges = 1

SPECIFICATION MCSpec

INVARIANTS
    HarnessNeverRepairs
    ModelCannotOverrule
    
    PricesConsistent
    
    
    TextsWellChosen

PROPERTIES
    JobWithoutQuestion
    RankFusion

\* Each component does its work once and stops.
CHECK_DEADLOCK FALSE
