SPECIFICATION Spec
CONSTANTS
    Users = {1, 2}
    Keys = {"a", "b"}
    Requests <- RetryRequests
    MaxBalance = 4
    None = None
    Txs = {t1, t2}
    ResetJob = ResetJob
    LockTexts <- MCLockTexts
    Hashes <- MCLockTexts
    HashText <- MCHashText
    InitBalance <- ThreeAndTwo
    InitStatus <- AllLive
    Resets = 0
    Deletable = {1, 2}
INVARIANTS
    TypeOK
    KeyLockExcludes
    AppliedOnce
    TransferWhole
    AnswersMatchLedger
    ReplaysAgree
    KeyHasOnePayload
PROPERTY LedgerSpec
