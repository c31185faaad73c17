SPECIFICATION FairSpec
CONSTANTS
    Users = {u1}
    Devices = {d1}
    Calls = {c1, c2}
    MaxUserSessions = 1
    ExpiresIn = 1
    Radix = 10
    InitStatus <- AllAbsent
    MaxSessions = 3
    Times = {1, 3}
    None = None
CHECK_DEADLOCK FALSE
INVARIANTS
    SessionHasUser
PROPERTIES
    CallsEnd
