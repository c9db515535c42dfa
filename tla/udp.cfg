SPECIFICATION FairSpec
CONSTANTS
    a1 = a1
    a2 = a2
    Apps <- OneApp
    SeqMod = 4
    Crews <- OneOrTwo
    Kinds <- PlainAndKcp
    MaxNsnd = 0
    Window = 1
    MaxMsgs = 3
    MaxFaults = 1
INVARIANTS
    SendAlone
    CongestionTimed
PROPERTIES
    EveryMessageSent
CHECK_DEADLOCK FALSE
