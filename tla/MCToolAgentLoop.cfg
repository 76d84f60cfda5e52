SPECIFICATION FairSpec
CONSTANTS
    PromptLength = 2
    ResponseLength = 6
    MaxTemplate = 3
    MaxCalls = 3
    AbortReturns = TRUE
    Configs <- MCConfigs
INVARIANTS
    TypeOK
    ResponseAligned
    LogprobsAligned
    ToolUseCharged
    WithinCallBudget
    MessagesInCallOrder
    RoomToGenerate
PROPERTIES
    Terminates
CHECK_DEADLOCK FALSE
