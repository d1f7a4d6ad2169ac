CONSTANTS
    c1 = c1  j1 = j1  j2 = j2  io = io
    Conn <- OneConn
    Job <- TwoJobs
    IoLoop <- OneLoop
    LoopOf <- OnIo
    MaxQueue = 3
SPECIFICATION FairSpec
INVARIANTS TcpInv ForceCloseOutlived RegisteredIsOwned DeafIsClosing
PROPERTIES ImplementsLife StateForward LeaverIsReported
CHECK_DEADLOCK FALSE
