SPECIFICATION Spec
CONSTANTS
    Players = {p1}
    Clients = {c1, c2}
    Sources = {touch}
    All = all
    Trials <- TwoTrials
    Slots = {s1, s2}
    Threshold = 13
    Within = 2
    BackingSince = 1
    Window = 1
    Limit = 1
    MaxClock = 2
    MaxRows = 2
INVARIANT LowestIdIsOldest
