SPECIFICATION Spec
CONSTANTS
    u1 = u1
    u2 = u2
    a = a
    b = b
    username = username
    description = description
    Registration = reg
    Readers = {r1}
    Updates = {u1, u2}
    Deletes = {d1}
    Columns <- MCColumns
    Registered <- MCRegistered
    Dto <- MCDto
    Ttl = 2
    MaxDeposits = 1
    MaxFaults = 1
    None = None
CHECK_DEADLOCK FALSE
INVARIANTS
    TypeOK
    StaleHasExcuse
    NoDepositLost
    MixtureNeedsRace
PROPERTIES
    NotStaleForEver
