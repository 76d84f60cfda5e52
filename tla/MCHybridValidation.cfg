SPECIFICATION HFairSpec
CONSTANTS
    standalone = standalone
    hybrid = hybrid
    t1 = t1
    v1 = v1
    Servers <- MCServers
    Standalone <- MCStandalone
    Requests <- MCRequests
    Validation <- MCValidation
    CacheSize = 1
    MaxTurns = 2
    MaxVersion = 2
INVARIANTS
    InflightCounts
    VersionsTrue
PROPERTIES
    StickySession
    FewestOutstanding
    Drains
CHECK_DEADLOCK FALSE
