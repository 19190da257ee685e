SPECIFICATION Spec
CONSTANTS
    Modes = {"endless"}
    Players = {p1}
    Clients = {c1, c2}
    Drills = {d1}
    Scores = {1, 2}
    RunCap = 1
    ReceiptCap = 1
    Retention = 1
    Readers = {}
    MaxClock = 0
    MaxAccepts = 3
INVARIANT
    NeverPromoted
