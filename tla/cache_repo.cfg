SPECIFICATION FairSpec
CONSTANTS
    r1 = r1
    r2 = r2
    k1 = k1
    k2 = k2
    Repos = {r1, r2}
    Keys = {k1, k2}
    Callers <- MCCallers
    InitialRows = {"absent", "unparsable", "expired", "live"}
INVARIANTS
    TypeOK
    OneThreadPerConnection
    PutIsDurable
    ReturnLeavesNoJob
PROPERTIES
    GoodRowsAreLostOnlyToRaces
    AllEnd
\* The runs end.
CHECK_DEADLOCK FALSE
