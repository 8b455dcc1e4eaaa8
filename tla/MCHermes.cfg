SPECIFICATION Spec
CONSTANTS
    Agents = {a1}
    Turns = {t1, t2}
    a1 = a1
    t1 = t1
    t2 = t2
    MaxGen = 2
    MaxRests = 1
    MaxAttempts = 2
    Scenarios <- Together
SYMMETRY Symmetry
INVARIANTS
    TypeOK
    
    
    SavedIsOnDisk
