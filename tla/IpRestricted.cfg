SPECIFICATION Spec
CONSTANTS
    s1 = s1
    g1 = g1
    g2 = g2
    ip1 = ip1
    ip2 = ip2
    padded = padded
    NoGroup = NoGroup
    NoValue = NoValue
    Sessions <- OneSession
    Groups <- TwoGroups
    Addresses <- TwoAddresses
    Padded = padded
    Values <- Lists
INVARIANTS
    TypeOK
    AdmittedWasAllowed
    RefusedForCause
