\* The deployed constants: three topics, the third strike, LangGraph limit 64.
CONSTANTS
    NumTopics = 3
    EndThreshold = 3
    RecursionLimit = 64

SPECIFICATION FairSpec

INVARIANTS
    RoundOrdersConsecutive
    
    CutOnlyAtThreshold
    StrikesMatchTranscript
    WithinRecursionLimit

PROPERTY
    Concludes

\* A debate really stops: at END or when the graph raises.
CHECK_DEADLOCK FALSE
