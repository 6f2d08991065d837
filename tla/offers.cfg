SPECIFICATION Spec
CONSTANTS
    Zone <- MCZone
    Slices <- MCSlices
    Request <- MCRequest
    DayLength = 48
    Instants <- MCInstants
    MaxOffers = 2
INVARIANTS
    TypeOK
    AcceptedReadsOneWay
    AcceptedConnectionsHold
    RejectionsAreDeserved
    TransfersAreKept
CHECK_DEADLOCK FALSE
