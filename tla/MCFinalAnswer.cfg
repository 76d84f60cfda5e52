SPECIFICATION Spec
CONSTANTS
    Open = "open"
    Close = "close"
    Quote = "quote"
    Backslash = "backslash"
    Dots = "dots"
    Missing = Missing
    Unit = 13
    Tasks <- MCTasks
    Prose <- MCProse
    Results <- MCResults
    Answers <- MCAnswers
    Cuts <- MCCuts
    Forecasts <- MCForecasts
    MaxRounds = 1
    MaxCalls = 5
INVARIANTS
    AnswerScored
    FormatPays
    CallsPayAsAsked
    TruthPays
CHECK_DEADLOCK FALSE
