SPECIFICATION Spec
CONSTANTS
    Users = {u1}
    Devices = {d1}
    Calls = {c1, c2}
    MaxUserSessions = 1
    ExpiresIn = 1
    Radix = 10
    InitStatus <- AllLive
    MaxSessions = 3
    Times = {1, 2}
    None = None
CHECK_DEADLOCK FALSE
SYMMETRY Interchangeable
INVARIANTS
    MaxSessionsKept
