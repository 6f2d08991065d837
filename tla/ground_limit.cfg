SPECIFICATION Spec
CONSTANTS
    AMS = AMS
    EIN = EIN
    DUS = DUS
    GRQ = GRQ
    DEL = DEL
    BOM = BOM
    XXX = XXX
    All = All
    Everything = All
    Schema <- MCSchema
    Defaults <- MCDefaults
    Overrides <- MCOverrides
    Environments <- MCEnvironments
    AirportFiles <- MCAirportFiles
    GroundFiles <- MCGroundFiles
    Requests <- MCRequests
    GroundLimit <- Limit
    LayoverMin <- Shortest
    LayoverMax <- Longest
INVARIANTS
    NoTaskBeyondTheLimit
\* A plan ends, and so does a refusal.
CHECK_DEADLOCK FALSE
