SPECIFICATION Spec
CONSTANTS
    a = a
    a2 = a2
    b = b
    A = A
    B = B
    Procs <- MCProcs
    Names <- MCNames
    MyName <- MCMyName
    Addr <- MCAddr
    Port <- MCPort
    NoName = NoName
    NoProc = NoProc
    NoBody = NoBody
    Bodies = {hi}
    Senders <- AandB
    MaxSends = 1
INVARIANTS
    TypeOK
    RegistryCoherent
    PresenceExact
PROPERTIES
    RealUserOnly GoneIsForgotten LoginAnswered
CHECK_DEADLOCK FALSE
