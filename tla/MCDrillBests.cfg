SPECIFICATION Spec
CONSTANTS
    Modes = {"endless", "arcade"}
    Players = {p1}
    Clients = {c1, c2}
    Drills = {d1, d2}
    Scores = {1, 2}
    RunCap = 1
    ReceiptCap = 1
    Retention = 1
    Readers = {}
    MaxClock = 2
    MaxAccepts = 3
SYMMETRY Symmetry
INVARIANTS
    ProofsAreAccepted
    BestIsMax
    NoEarlyReuse
