SPECIFICATION Spec
CONSTANTS
    Modes = {"endless", "arcade"}
    Players = {p1}
    Clients = {c1, c2, c3}
    Drills = {d1}
    Scores = {1}
    RunCap = 2
    ReceiptCap = 1
    Retention = 1
    Readers = {}
    MaxClock = 2
    MaxAccepts = 4
SYMMETRY Symmetry
INVARIANTS
    RunsIndexed
    CapAcrossModes
    NewestRetained
    ReceiptRing
    NoUniqueClash
