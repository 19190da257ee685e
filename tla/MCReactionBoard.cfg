SPECIFICATION Spec
CONSTANTS
    Players = {p1, p2}
    Clients = {c1, c2}
    Sources = {touch, pad}
    All = all
    Trials <- AllTrials
    Slots = {s1, s2}
    Threshold = 13
    Within = 2
    BackingSince = 1
    Window = 1
    Limit = 1
    MaxClock = 2
    MaxRows = 3
SYMMETRY Symmetry
INVARIANTS
    NeverDoublePosts
    BoardsAgree
    PopulationAgrees
    AnsweredIsListed
PROPERTY NeverWorse
