SPECIFICATION Spec
CONSTANTS
    Players = {p1}
    Requests = {s1, s2}
    Nobody = Nobody
    Free = Free
INVARIANT
    VanishedIs404
