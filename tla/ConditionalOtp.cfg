SPECIFICATION MCSpec
CONSTANTS
    s1 = s1
    s2 = s2
    own = own
    other = other
    role = role
    attr = attr
    None = None
    Own = own
    Sessions <- TwoSessions
    Configs <- AllConfigs
    Roles <- OneRole
    Attrs <- OneAttr
    MaxEdits = 2
SYMMETRY SessionSymmetry
INVARIANTS
    TypeOK
    SecondFactor
    ExemptNotEnrolled
