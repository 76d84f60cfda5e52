SPECIFICATION Spec
CONSTANTS
    TradingDays <- MCTradingDays
    Announced <- MCAnnounced
    Reported <- MCReported
    Configs <- MCConfigs
    AskedDays <- MCAskedDays
    Horizon = 1
    Warmup = 1
    AskAhead = 1
    MaxLoaded = 1
    MaxBuilds = 2
INVARIANTS
    WholeBuilds
    PointInTimeAnswers
    LabelBeyondShown
    LatestReport
    HeldOut
