SPECIFICATION Spec
CONSTANTS
    Instances = {w1}
    Ids = {1, 2, 3}
    InitialUsers = {1, 2, 3}
    BatchSize = 2
    MaxWaiting = 1
    MaxFaults = 0
    None = None
CHECK_DEADLOCK FALSE
INVARIANT EveryUserReset
