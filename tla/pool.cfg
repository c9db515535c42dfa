SPECIFICATION FairSpec
CONSTANTS
    o1 = o1
    o2 = o2
    o3 = o3
    Objs <- ThreeObjs
    None = None
    AcceptNum = 1
    MaxSize = 2
    Roles <- BothRoles
    Modes <- AllModes
    MaxId = 3
    MaxCalls = 2
INVARIANTS
    PoolSound
    LiveOwned
    
    AddedStarts
PROPERTIES
    BrokenFreed
CHECK_DEADLOCK FALSE
