CONSTANTS
    u1 = u1  u2 = u2  d1 = d1  l1 = l1  l2 = l2
    NoTransfer = NoTransfer
    Upload <- TwoUploads
    Download <- OneDownload
    Of <- OfSecond
    Loop <- TwoLoops
    LoopOf <- OnLoops
    Size <- Sizes
    SendUnit = 2
    Unit = 1
    Room = 1
    Change <- First
SPECIFICATION FairSpec
INVARIANT TransferInv
PROPERTY EveryTransferEnds
CHECK_DEADLOCK FALSE
