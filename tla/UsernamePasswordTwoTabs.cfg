SPECIFICATION Spec
CONSTANTS
    s1 = s1
    s2 = s2
    u1 = u1
    u2 = u2
    NoUser = NoUser
    Sessions <- TwoSessions
    Users <- OneUser
    Names <- KnownName
    Passwords = {"ldap", "wrong"}
    MaxFailures = 2
SYMMETRY SessionSymmetry
PROPERTIES
    CountedOnce
    
