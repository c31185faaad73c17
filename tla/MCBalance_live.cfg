SPECIFICATION FairSpec
CONSTANTS
    Users = {1, 2}
    Keys = {"a", "b"}
    Requests <- FairRequests
    MaxBalance = 3
    None = None
    Txs = {t1, t2}
    ResetJob = ResetJob
    LockTexts <- MCLockTexts
    Hashes <- MCLockTexts
    HashText <- MCHashText
    InitBalance <- TwoEach
    InitStatus <- AllLive
    Resets = 1
    Deletable = {}
PROPERTIES
    RequestsEnd
    ResetEnds
