\* Two HTTP requests and one MCP request on one user and symbol, one fault.
CONSTANTS
    s1 = s1
    s2 = s2
    s3 = s3
    k1 = k1
    k2 = k2
    u = u
    h = h
    m = m
    h1 = h1
    h2 = h2
    m1 = m1
    Sessions = {s1, s2}
    Keys = {k1}
    Users = {u}
    Tasks = {h1, h2, m1}
    Procs = {h, m}
    HttpProcs = {h}
    KeyOf <- MCKeyOf
    UserOf <- MCUserOf
    ProcOf <- MCProcOf
    NumStatements = 2
    MaxDebates = 2
    TtlOutlastsRuns = TRUE
    FaultKinds = {"redis", "db", "crash"}
    MaxFaults = 1
    NoSession = NoSession
    NoTask = NoTask

SPECIFICATION Spec

SYMMETRY Symmetric

INVARIANTS
    NoOrphanLock
    CompletedIsWhole
    
    
    

PROPERTIES
    TerminalIsFinal
    LockRefinement

\* Every request may have been served.
CHECK_DEADLOCK FALSE
