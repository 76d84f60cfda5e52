SPECIFICATION FairSpec
CONSTANTS
    Required = 1
    Trigger = 2
    MaxRequired = 4
    MaxConcurrent = 2
    Total = 7
    SaveFreq = 2
    TestFreq = 1
    MayFail = TRUE
INVARIANTS
    OutstandingBounded
    SamplesAccounted
    NeverStarved
    QueueIsFresh
PROPERTIES
    Terminates
CHECK_DEADLOCK FALSE
