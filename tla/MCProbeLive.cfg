SPECIFICATION Spec
CONSTANTS
    a = a
    a2 = a2
    b = b
    A = A
    B = B
    NoName = NoName
    NoProc = NoProc
    NoBody = NoBody
    Procs <- PairProcs
    Names <- PairNames
    MyName <- PairMyName
    RemoteName <- PairRemote
    Addr <- PairAddr
    Port <- PairPort
    Unverifiable <- NoCands
    MaxCand <- One
    MaxAlloc <- Zero
    MaxFlips <- One
PROPERTIES ImplementsHandshake ConnectingEnds
CHECK_DEADLOCK FALSE
