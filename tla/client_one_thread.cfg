SPECIFICATION FairSpec
CONSTANTS
    w1 = w1
    a1 = a1
    Workers <- OneWorker
    Callers <- OneWorker
    SeqMod = 4
    LocalAddr = FALSE
    MaxBreaks = 1
    MaxCalls = 2
    MaxPolls = 1
INVARIANTS
    ConnectAlone
PROPERTIES
    Reconnects
    ComesToAnEnd
CHECK_DEADLOCK FALSE
