SPECIFICATION Spec
CONSTANTS
    o1 = o1
    o2 = o2
    Plans <- MCPlans
    Origins = {o1, o2}
    MaxOffers = 2
    Codes <- MCCodes
    LayoverCodes <- MCLayoverCodes
INVARIANTS
    TypeOK
    EnvelopeNeverRefuses
    ExitTellsTruth
    ReportShowsFailures
    ReasonIsMostFrequent
\* The command exits.
CHECK_DEADLOCK FALSE
