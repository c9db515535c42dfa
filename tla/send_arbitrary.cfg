SPECIFICATION Spec
CONSTANTS
    a1 = a1
    a2 = a2
    starter = starter
    Apps <- TwoApps
    Starter <- starter
    MsgSize = 3
    SendBufSize = 3
    BatchSize = 6
    MaxListLen = 2
    CanOverflow = FALSE
    ArbitrarySend = TRUE
    ShrinkSendBuffer = TRUE
    StoreBuffer = TRUE
    MaxMsgs = 2
    MaxPops = 0
    MaxBreaks = 1
SYMMETRY Symmetry
INVARIANTS
    NothingLeftBehind
PROPERTIES
    ImplementsChannel
CHECK_DEADLOCK FALSE
