SPECIFICATION Spec
CONSTANTS
    Instances = {w1, w2}
    Ids = {1, 2, 3}
    InitialUsers = {1, 2}
    BatchSize = 2
    MaxWaiting = 1
    MaxFaults = 1
    None = None
CHECK_DEADLOCK FALSE
INVARIANTS
    TypeOK
    CleanRunResetsEveryone
    ChainHolds
PROPERTIES
    ResetsGoOn
    StopEndsRuns
