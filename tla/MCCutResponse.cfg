SPECIFICATION Spec
CONSTANTS
    Open = "open"
    Close = "close"
    Quote = "quote"
    Backslash = "backslash"
    Dots = "dots"
    Missing = Missing
    Unit = 13
    Tasks <- MCTasks
    Prose <- MCBalancedProse
    Results <- MCResults
    Answers <- MCAnswers
    Cuts <- MCCutInMiddle
    Forecasts <- MCTwoForecasts
    MaxRounds = 2
    MaxCalls = 5
INVARIANTS
    FinalAnswerExtracted
CHECK_DEADLOCK FALSE
