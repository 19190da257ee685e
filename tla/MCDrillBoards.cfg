SPECIFICATION Spec
CONSTANTS
    Modes = {"endless"}
    Players = {p1, p2}
    Clients = {c1, c2}
    Drills = {d1}
    Scores = {1, 2}
    RunCap = 1
    ReceiptCap = 1
    Retention = 2
    Window = 1
    Limit = 1
    Readers = {}
    MaxClock = 3
    MaxAccepts = 3
SYMMETRY Symmetry
INVARIANTS
    AllTimeExact
    WindowExact
    RecentExact
    EraseComplete
