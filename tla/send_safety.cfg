SPECIFICATION Spec
CONSTANTS
    a1 = a1
    a2 = a2
    starter = starter
    Apps <- TwoApps
    Starter <- starter
    MsgSize = 3
    SendBufSize = 3
    BatchSize = 6
    MaxListLen = 1
    CanOverflow = FALSE
    ArbitrarySend = FALSE
    ShrinkSendBuffer = FALSE
    StoreBuffer = FALSE
    MaxMsgs = 2
    MaxPops = 1
    MaxBreaks = 1
SYMMETRY Symmetry
INVARIANTS
    WriteExclusive
    FlagOwned
    NothingLeftBehind
    Conservation
CHECK_DEADLOCK FALSE
