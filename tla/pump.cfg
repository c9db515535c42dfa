SPECIFICATION FairSpec
CONSTANTS
    s1 = s1
    s2 = s2
    MaxThreads = 2
    Services <- TwoServices
    Macros <- AllMacros
    MaxCtx = 2
    MaxStarts = 2
    MaxCalls = 1
    MaxThrows = 1
INVARIANTS
    NeverAllGone
    SafelyFreed
    RefsExact
PROPERTIES
    StopReturns
CHECK_DEADLOCK FALSE
