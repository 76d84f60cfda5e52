SPECIFICATION Spec
CONSTANTS
    Batches <- MCBatches
    Workers = 3
    Ranks = 2
    Lengths <- MCLengths
    MaxTokens = 6
INVARIANTS
    OwnResponse
    BalancedPartitions
    LogprobsRestored
