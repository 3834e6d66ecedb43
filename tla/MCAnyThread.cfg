SPECIFICATION Spec
CONSTANTS
    NULL = NULL
    Conns = {c1, c2}
    MaxChanges = 2
    MaxReports = 2
INVARIANTS SendIsSafe
