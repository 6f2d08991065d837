SPECIFICATION FairSpec
CONSTANTS
    NumTasks = 3
    MaxConcurrent = 2
    MaxAttempts = 2
    BudgetNumerator = 3
    BudgetDenominator = 4
    Ttl <- MCTtl
    UseCache = TRUE
    StartTime <- MCStartTime
    InitialRows <- MCInitialRows
INVARIANTS
    TypeOK
    PermitsConserved
    BudgetIsSpentOnRetries
    ReplayAgrees
PROPERTIES
    LedgerSpec
    Terminates
\* A run ends when it has returned or raised.
CHECK_DEADLOCK FALSE
