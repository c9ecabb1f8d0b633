SPECIFICATION Spec
CONSTANTS
    r1 = r1
    r2 = r2
    r3 = r3
    n1 = n1
    n2 = n2
    NoRequest = NoRequest
    Requests <- ThreeRequests
    Names <- TwoNames
SYMMETRY Symmetry
INVARIANTS
    TypeOK
    RegisteredAreWelcomed
CHECK_DEADLOCK FALSE
