SPECIFICATION MCSpec
CONSTANTS
    g1 = g1
    g2 = g2
    g3 = g3
    Groups <- MCGroups
    Names <- MCNames
    MaxEdits = 2
SYMMETRY Namesakes
INVARIANTS
    TypeOK
    ClaimWasTrue
    StandingClaimed
    FailedForDeleted
    ClaimsAgree
CHECK_DEADLOCK FALSE
