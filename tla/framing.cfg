SPECIFICATION Spec
CONSTANTS
    HEAD_LEN = 2
    MSG_BUFFER_SIZE = 8
    RAW_BUFF = 5
    FIXED = 3
    Prefix <- MCPrefix
    Suffix <- MCSuffix
    Base = 10
    Kinds <- AllKinds
    Bodies <- MCBodies
    MaxMsgs = 2
INVARIANTS
    AsSent
    NothingWithheld
    ReadsOn
    ForeignReported
CHECK_DEADLOCK FALSE
