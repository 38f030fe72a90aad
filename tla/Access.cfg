SPECIFICATION Spec
CONSTANTS
    q1 = q1
    q2 = q2
    q3 = q3
    k1 = k1
    Admin = Admin
    NoKey = NoKey
    Unknown = Unknown
    Requests = {q1, q2, q3}
    DbKeys = {k1}
    LimitOf <- Limits
    Window = 2
    MaxTime = 3
    MaxFaults = 1
SYMMETRY RequestSymmetry
CHECK_DEADLOCK FALSE
INVARIANTS
    TypeOK
    WindowBound
    LimitedForOwnRequests
    CountersExpire
    WritesPassBothChecks
