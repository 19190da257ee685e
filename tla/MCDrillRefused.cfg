SPECIFICATION Spec
CONSTANTS
    Modes = {"endless"}
    Players = {p1}
    Clients = {c1, c2}
    Drills = {d1}
    Scores = {1, 2}
    RunCap = 2
    ReceiptCap = 1
    Retention = 1
    Readers = {}
    MaxClock = 2
    MaxAccepts = 4
INVARIANT
    RetryNotRefused
