\* Two workers and a sync that runs twice over two documents, one fault of either
\* kind, under fairness.
CONSTANTS
    w1 = w1  w2 = w2  i1 = i1  i2 = i2
    Docs = {1, 2}
    NeedsQwen = {1, 2}
    Workers = {w1, w2}
    Indexers = {i1}
    BatchSize = 2
    MaxAttempts = 2
    MaxRuns = 2
    FaultKinds = {"db", "crash"}
    MaxFaults = 1
    NoDoc = NoDoc

SPECIFICATION FairSpec

INVARIANTS
    NoJobStranded
    
    AttemptsSpent

PROPERTY
    JobsSettle

\* The syncs are bounded and the queue runs dry.
CHECK_DEADLOCK FALSE
