SPECIFICATION Spec
CONSTANTS
    r1 = r1
    r2 = r2
    r3 = r3
    Runs <- MCRuns
    Raw <- MCRaw
    Core <- MCCore
    Dates <- MCDates
    Undated <- MCUndated
    MaxNames = 2
    Answers <- MCAnswers
    MaxActive = 2
    MaxKills = 1
INVARIANTS
    
    Reproducible
    ReadsOwnBuild
    OwnDirectory
SYMMETRY Interchangeable
CHECK_DEADLOCK FALSE
