\* Two users, a chain, a sweep and a purge of a symbol, with one fault; two calls of a
\* model; three publishers and a deletion, with two faults; four requests for the pool.
CONSTANTS
    u1 = u1
    u2 = u2
    m1 = m1
    m2 = m2
    g1 = g1
    g2 = g2
    NoTask = NoTask
    Users = {u1, u2}
    Chains = {c1}
    Sweeps = {s1}
    Purges = {p1}
    MaxFaults = 1
    Calls = {m1, m2}
    CallRequests <- MCRequests
    FallbackModel = "fallback"
    CallFaults = 1
    Publishers = {u1, u2, m1}
    Deleters = {m2}
    NotionFaults = 2
    PoolRequests = {u1, u2, m1, m2}
    PoolFaults = 1
    Debates = {m1}
    SessionGrades = {1}
    GoldenCases = {g1, g2}
    CaseGrades = {0, 1, 2}
    EvaluationFaults = 1

SPECIFICATION AllSpec

INVARIANTS
    
    
    PagesAccounted
    

PROPERTIES
    WipeIsStaleCheck

CONSTRAINT FaultBound

\* Every request may have been served.
CHECK_DEADLOCK FALSE
