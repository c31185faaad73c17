SPECIFICATION Spec
CONSTANTS
    Users = {1, 2}
    Keys = {"a", "b"}
    Requests <- SharedKeyRequests
    MaxBalance = 3
    None = None
    Txs = {t1, t2, t3}
    ResetJob = ResetJob
    LockTexts <- MCLockTexts
    Hashes <- MCLockTexts
    HashText <- MCHashText
    InitBalance <- TwoEach
    InitStatus <- AllLive
    Resets = 1
    Deletable = {}
SYMMETRY TxSymmetry
INVARIANTS
    TransfersNeverDeadlock
    DeadlockNeedsSharedKey
PROPERTY LedgerSpec
