SPECIFICATION Spec
CONSTANTS
    a = a
    a2 = a2
    b = b
    A = A
    B = B
    Procs <- MCProcs
    Names <- MCNames
    MyName <- MCMyName
    Addr <- CollidingAddr
    Port <- CollidingPort
    NoName = NoName
    NoProc = NoProc
    NoBody = NoBody
    Bodies = {hi}
    Senders = {}
    MaxSends = 0
PROPERTIES
    RealUserOnly
CHECK_DEADLOCK FALSE
