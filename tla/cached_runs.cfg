SPECIFICATION RunsSpec
CONSTANTS
    NumTasks = 2
    MaxConcurrent = 2
    MaxAttempts = 2
    BudgetNumerator = 1
    BudgetDenominator = 2
    Ttl <- MCTtl
    UseCache = TRUE
    StartTime <- MCStartTime
    InitialRows <- MCInitialRows
    MaxTime = 2
    MaxRuns = 3
INVARIANTS
    NoRefetch
    AnswersKept
\* The last run ends when it has returned or raised.
CHECK_DEADLOCK FALSE
