SPECIFICATION Spec
CONSTANTS
    s1 = s1
    s2 = s2
    u1 = u1
    u2 = u2
    NoUser = NoUser
    Sessions <- OneSession
    Users <- OneUser
    Names <- KnownName
    Passwords = {"both", "wrong"}
    MaxFailures = 2
INVARIANT
    PasswordOnlyFormIsHandled
