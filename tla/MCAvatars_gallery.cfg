SPECIFICATION FairSpec
CONSTANTS
    Users = {1, 2}
    Ids = {i1, i2}
    Limit = 1
    BatchSize = 1
    OrphanJobs = {oj}
    HardDeleteJobs = {hj}
    MaxFaults = 1
    None = None
CHECK_DEADLOCK FALSE
INVARIANTS
    TypeOK
    ShownHasObject
    AtMostLimit
PROPERTIES
    GallerySpec
    OrphansGo
