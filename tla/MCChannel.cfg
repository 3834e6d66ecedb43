SPECIFICATION Spec
CONSTANTS
    p1 = p1
    p2 = p2
    k1 = k1
    None = None
    Ports <- PortPair
    Cands <- OneCand
    Net <- SameNet
    Pref <- P1First
    Gen <- Zeros
    User <- OneUser
    Samples <- Steady
    MaxAnswers = 2
    MaxRequests = 1
INVARIANTS TypeOK BestIsSound SortIsComing DoomedIsDeleted AllocationGoesOn
