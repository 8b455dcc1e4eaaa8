\* Two players, two clues, three requests, one crash; a post beyond the limit of points.
SPECIFICATION Spec
CONSTANTS
    Players = {p1, p2}
    Clues = {c1, c2}
    Requests = {r1, r2, r3}
    Points = {1200}
    MaxCrashes = 1
SYMMETRY MC_Symmetry
CHECK_DEADLOCK FALSE
INVARIANTS
    TypeOK
    TieBreakHonest
PROPERTIES
    KeepsLedger
