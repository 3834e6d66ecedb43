SPECIFICATION Spec
CONSTANTS
    signaling = signaling
    worker = worker
    c1 = c1
    c2 = c2
    c3 = c3
    o1 = o1
    o2 = o2
    None = None
    Threads <- TwoLoops
    Stops <- OnlyWorker
    Calls <- ThreeCalls
    To <- Targets
    Obj <- Objects
    Mortal <- OnlyO1
    MaxEvents = 2
INVARIANTS NobodyOversleeps
PROPERTIES SendIsSyncCall

CHECK_DEADLOCK FALSE
