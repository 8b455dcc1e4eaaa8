SPECIFICATION RoutersSpec
CONSTANTS
    Requests = {r1, r2, r3}
    Sessions = {s1, s2, s3}
    r1 = r1
    r2 = r2
    r3 = r3
    s1 = s1
    s2 = s2
    s3 = s3
    Scenarios <- Together
    HashIdx <- Hash
    BodyBytes = 300000
    MaxResets = 1
    MaxRestarts = 1
    MaxLeaves = 1
    Attempts = 2
    TtftLimit = 1
    WideLimit = 2
    PrefillLimit = 1
SYMMETRY Symmetry
INVARIANTS
    TypeOK
    PermitsConserved
    CountersExact
    OneHome
    IndexAgrees
    WaitersAreServed
PROPERTIES
    KeepsHomes
CHECK_DEADLOCK FALSE
