SPECIFICATION ReportSpec
CONSTANTS
    o1 = o1
    o2 = o2
    o3 = o3
    o4 = o4
    far = far
    d1 = d1
    d2 = d2
    direct1 = direct1
    stop1 = stop1
    stop2 = stop2
    stop3 = stop3
    stop4 = stop4
    direct5 = direct5
    KL = KL
    LH = LH
    Flight <- MCFlight
    Offered <- MCOffered
    Id <- MCId
    Registry <- MCRegistry
    Destinations <- MCDestinations
    GroundMinutes <- MCGroundMinutes
    MaxGroundMinutes = 150
    GroundCost <- MCGroundCost
    CostWeight = 1
    TimeWeight = 1
    Bonus = 12
    RecommendedDiff = 8
    RecommendedPercent = 10
    GoodDiff = 15
    GoodPercent = 20
    Threshold = 25
    TopGlobal = 2
    TopPerDestination = 1
    MaxValid = 5
INVARIANTS
    TypeOK
    VerdictsAreGrounded
    NoDuplicateOutranks
    AnalysesQuoteTheRanking
    DivergenceAgreesWithRanking
    TablesAgree
    SummaryFitsTheRanking
\* The pipeline ends.
CHECK_DEADLOCK FALSE
