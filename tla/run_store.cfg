\* Two command-line runs, a search and two approvals on one disk.
CONSTANTS
    c1 = c1
    c2 = c2
    s1 = s1
    a1 = a1
    a2 = a2
    D15 = D15
    Absent = Absent
    Idle = Idle
    CliRuns <- TwoCliRuns
    ApiRuns <- OneApiRun
    Approvals <- TwoApprovals
SYMMETRY JobSymmetry
SPECIFICATION Spec
INVARIANTS TypeOK ReadersGetWholeFiles RunsAreKnownWhole DecisionsAreGrounded
PROPERTIES LoneRunOwnsThePair
\* Every run and request ends.
CHECK_DEADLOCK FALSE
