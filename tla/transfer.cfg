SPECIFICATION FairSpec
CONSTANTS
    link_num = 2
    MaxTransfer = 1
    JobLists <- SomeJobs
    Crews <- EitherCrew
    Faults <- ServerAndPut
    AppWaits = TRUE
    MaxFaults = 1
INVARIANTS
    NeverMixed
    Arrives
    PutsOnIdleLinks
PROPERTIES
    Ends
CHECK_DEADLOCK FALSE
