SPECIFICATION Spec
CONSTANTS
    c1 = c1
    c2 = c2
    u1 = u1
    u2 = u2
    i1 = i1
    i2 = i2
    i3 = i3
    Unknown = Unknown
    Calls <- TwoCalls
    Users <- TwoUsers
    Sids <- ThreeSids
SYMMETRY Symmetry
INVARIANTS
    TypeOK
    StandingSessionsEnd
PROPERTIES
    OthersKept
    KeepsLogoutPromise
