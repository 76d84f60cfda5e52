SPECIFICATION FairSpec
CONSTANTS
    Ranks = {1, 2}
    Roles <- MCRoles
    Keep <- MCKeep
    StepsPerEpoch = 3
    Epochs = 2
    Totals = {5, 7}
    SaveFreq = 4
    CriticWarmup = 2
    MayExpire = TRUE
    MaxStops = 2
INVARIANTS
    TrackedComplete
    InStep
    OnPolicy
    EndsTrained
PROPERTIES
    Completes
    ResumesSaved
CHECK_DEADLOCK FALSE
