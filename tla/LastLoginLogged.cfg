SPECIFICATION Spec
CONSTANTS
    r1 = r1
    r2 = r2
    u1 = u1
    u2 = u2
    Requests <- TwoRequests
    Users <- TwoUsers
    MaxTime = 3
INVARIANT
    LoggedTimeIsStored
CHECK_DEADLOCK FALSE
