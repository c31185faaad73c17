SPECIFICATION Spec
CONSTANTS
    Ids = {1, 2, 3, 4, 5}
    InitialLists = {{1, 2}, {1, 2, 3, 4, 5}}
    Limit = 2
    MaxChanges = 2
    None = None
CHECK_DEADLOCK FALSE
INVARIANTS
    TypeOK
    WalkIsExact
    NothingOutOfReach

    
