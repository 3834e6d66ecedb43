SPECIFICATION Spec
CONSTANTS
    NULL = NULL
    Conns = {c1, c2}
    MaxChanges = 4
    MaxReports = 2
INVARIANTS TypeOK LastPollSeen ChainPerNotice
PROPERTIES ReportsSettle
