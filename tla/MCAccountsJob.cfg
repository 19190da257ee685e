SPECIFICATION FairSpec
CONSTANTS
    Players = {p1}
    Requests = {s1, s2}
    Nobody = Nobody
    Free = Free
PROPERTY
    EraseFinishes
