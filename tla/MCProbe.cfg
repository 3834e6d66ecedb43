SPECIFICATION Spec
CONSTANTS
    a = a
    a2 = a2
    b = b
    A = A
    B = B
    NoName = NoName
    NoProc = NoProc
    NoBody = NoBody
    Procs <- PairProcs
    Names <- PairNames
    MyName <- PairMyName
    RemoteName <- PairRemote
    Addr <- PairAddr
    Port <- PairPort
    Unverifiable <- SecondOfA
    MaxCand <- TwoOne
    MaxAlloc <- OneForA
    MaxFlips <- TwoForA
INVARIANTS TypeOK HandshakeAgrees NoAssert CandidatesConserved NothingStranded Watchdog
CHECK_DEADLOCK FALSE
