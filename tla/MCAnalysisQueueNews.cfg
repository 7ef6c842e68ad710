\* No fault at all: a deadlock with a worker or another sync is enough.
CONSTANTS
    w1 = w1  w2 = w2  i1 = i1  i2 = i2
    Docs = {1, 2}
    NeedsQwen = {1, 2}
    Workers = {w1, w2}
    Indexers = {i1, i2}
    BatchSize = 2
    MaxAttempts = 2
    MaxRuns = 1
    FaultKinds = {}
    MaxFaults = 1
    NoDoc = NoDoc

SPECIFICATION Spec

INVARIANT NewsOutliveAnalysis

\* The syncs are bounded and the queue runs dry.
CHECK_DEADLOCK FALSE
