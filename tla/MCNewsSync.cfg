\* A watchlist sync, a sweep and a cleanup of one symbol, with one fault;
\* the lock may expire under a sync.
CONSTANTS
    w1 = w1  p1 = p1  c1 = c1
    Links = {1, 2, 3, 4, 5}
    UrlOf <- MCUrlOf
    Alike <- MCAlike
    Old = {1, 2}
    Expired = {1}
    Watchers = {w1}
    Sweepers = {p1}
    Cleaners = {c1}
    IdOf <- MCIdOf
    FetchLimit = 2
    MaxRows = 2
    TtlOutlastsSyncs = FALSE
    FaultKinds = {"redis", "chroma", "db", "crash"}
    MaxFaults = 1
    NoTask = NoTask

SPECIFICATION Spec

INVARIANTS
    RowsHaveVectors
    OrphanVectorExplained
    CooldownMeansStored

\* Every sync and cleanup is over.
CHECK_DEADLOCK FALSE
