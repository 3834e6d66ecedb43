SPECIFICATION Spec
CONSTANTS
    p1 = p1
    p2 = p2
    k1 = k1
    None = None
    Ports <- OnePort
    Cands <- OneCand
    Net <- SameNet
    Pref <- Flat
    Gen <- Zeros
    User <- OneUser
    Samples <- Steady
    MaxAnswers = 1
    MaxRequests = 2
PROPERTY OnlyDoomedDeleted
