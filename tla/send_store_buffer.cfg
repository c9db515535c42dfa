SPECIFICATION Spec
CONSTANTS
    a1 = a1
    a2 = a2
    starter = starter
    Apps <- TwoApps
    Starter <- starter
    MsgSize = 3
    SendBufSize = 6
    BatchSize = 6
    MaxListLen = 2
    CanOverflow = FALSE
    ArbitrarySend = FALSE
    ShrinkSendBuffer = FALSE
    StoreBuffer = TRUE
    MaxMsgs = 2
    MaxPops = 0
    MaxBreaks = 0
SYMMETRY Symmetry
INVARIANTS
    NothingLeftBehind
CHECK_DEADLOCK FALSE
