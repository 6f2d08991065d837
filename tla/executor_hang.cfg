SPECIFICATION LoopFairSpec
CONSTANTS
    NumTasks = 2
    MaxConcurrent = 1
    MaxAttempts = 3
    BudgetNumerator = 3
    BudgetDenominator = 4
    Ttl <- MCTtl
    UseCache = TRUE
    StartTime <- MCStartTime
    InitialRows <- MCColdCache
PROPERTIES
    Terminates
\* A run ends when it has returned or raised.
CHECK_DEADLOCK FALSE
