SPECIFICATION FairSpec
CONSTANTS
    Modes = {"endless", "arcade"}
    Players = {p1}
    Clients = {c1, c2}
    Drills = {d1}
    Scores = {1}
    RunCap = 1
    ReceiptCap = 1
    Retention = 1
    Readers = {r1}
    MaxClock = 2
    MaxAccepts = 2
PROPERTY
    ExpiredGo
