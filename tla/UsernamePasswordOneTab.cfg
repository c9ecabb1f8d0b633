SPECIFICATION FairSpec
CONSTANTS
    s1 = s1
    s2 = s2
    u1 = u1
    u2 = u2
    NoUser = NoUser
    Sessions <- OneSession
    Users <- TwoUsers
    Names <- AnyName
    Passwords = {"blank", "mkys", "ldap", "wrong"}
    MaxFailures = 2
INVARIANTS
    TypeOK
    
    StandardRefusalForgetsUser
PROPERTIES
    
    Answered
