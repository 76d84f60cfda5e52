SPECIFICATION Spec
CONSTANTS
    Required = 1
    Trigger = 2
    MaxRequired = 2
    MaxConcurrent = 2
    Total = 3
    SaveFreq = 1
    TestFreq = 1
    MayFail = FALSE
INVARIANT LastUpdatesSaved
CHECK_DEADLOCK FALSE
