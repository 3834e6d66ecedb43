SPECIFICATION Spec
CONSTANTS
    a = a
    a2 = a2
    b = b
    A = A
    B = B
    NoName = NoName
    NoProc = NoProc
    NoBody = NoBody
    Procs <- AgainProcs
    Names <- PairNames
    MyName <- AgainMyName
    RemoteName <- AgainRemote
    Addr <- AgainAddr
    Port <- AgainPort
    Unverifiable <- NoCands
    MaxCand <- Zero
    MaxAlloc <- Zero
    MaxFlips <- Zero
INVARIANT NoAssert
CHECK_DEADLOCK FALSE
