SPECIFICATION Spec
CONSTANTS
    Users = {u1}
    Devices = {d1, d2}
    Calls = {c1, c2}
    MaxUserSessions = 2
    ExpiresIn = 2
    Radix = 10
    InitStatus <- AllLive
    MaxSessions = 3
    Times = {1, 2, 3}
    None = None
CHECK_DEADLOCK FALSE
SYMMETRY Interchangeable
INVARIANTS
    TypeOK
    AtMostMaxSessions
    SessionKeepsDevice
PROPERTIES
    EvictsTheEarliest
