SPECIFICATION FairSpec
CONSTANTS
    w1 = w1
    w2 = w2
    Workers <- TwoWorkers
    Settings <- SomeSettings
    SeqMod = 4
    RecvBufSize = 1
    MaxPerRead = 2
    MaxMsgs = 2
    MaxFails = 1
    MaxBreaks = 1
INVARIANTS
    InOrder
    OneRead
    DispatchComing
    ReadComing
PROPERTIES
    AllHandled
CHECK_DEADLOCK FALSE
