SPECIFICATION FairSpec
CONSTANTS
    u1 = u1
    u2 = u2
    Users <- TwoUsers
    Resends = FALSE
    SendBuf = 1
    MaxTickets = 1
    MaxIn = 2
    MaxCalls = 3
    MaxFaults = 1
INVARIANTS
    RecvOnce
    AnswerTrue
PROPERTIES
    StrandFreed
CHECK_DEADLOCK FALSE
