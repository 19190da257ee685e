SPECIFICATION Spec
CONSTANTS
    Players = {p1, p2, p3}
    Reasons = {spam, harassment}
    ReportsPerDay = 2
    ReportWindow = 2
    DedupWindow = 2
    MaxClock = 4
    MaxReports = 3
SYMMETRY Symmetry
INVARIANTS
    RollingQuota
    NoDoubleCase
    SuccessIsStored
    RetryAfterHolds
    NoOrphans
CHECK_DEADLOCK FALSE
