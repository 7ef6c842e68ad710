\* One user, two symbols, three requests in two processes, one debate a day.
CONSTANTS
    s1 = s1
    s2 = s2
    s3 = s3
    k1 = k1
    k2 = k2
    u = u
    h = h
    m = m
    h1 = h1
    h2 = h2
    m1 = m1
    Sessions = {s1, s2, s3}
    Keys = {k1, k2}
    Users = {u}
    Tasks = {h1, h2, m1}
    Procs = {h, m}
    HttpProcs = {h}
    KeyOf <- MCKeyOf
    UserOf <- MCUserOf
    ProcOf <- MCProcOf
    NumStatements = 1
    MaxDebates = 1
    TtlOutlastsRuns = TRUE
    FaultKinds = {}
    MaxFaults = 0
    NoSession = NoSession
    NoTask = NoTask

SPECIFICATION Spec

SYMMETRY Symmetric

INVARIANTS
    DailyLimit

\* Every request may have been served.
CHECK_DEADLOCK FALSE
