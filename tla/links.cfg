SPECIFICATION FairSpec
CONSTANTS
    Kinds <- AllKinds
    SocksBuf = 64
    Replies <- SomeReplies
    MaxCalls = 2
    MaxFaults = 1
INVARIANTS
    
    StreamAlone
PROPERTIES
    Ends
CHECK_DEADLOCK FALSE
