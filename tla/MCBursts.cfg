SPECIFICATION Spec
CONSTANTS
    N = 2
    Workers = {w1}
    w1 = w1
    MaxBursts = 2
    BurstArgs <- MixedBodies
    Commands = {"reconcile", "suspend"}
    Rates = {}
    Faults = {"checkpoint", "rest", "restore", "wake", "crash", "restart"}
    InitAte = {"SUSPENDED", "RUNNING", "SUSPENDING", "MISSING"}
    AutoTraffic = FALSE
    LlmAfterAll = FALSE
    OverloadRate = 0
    SuspCap = 1
    DutyTarget = 1
    WakeSlack = 1
    PauseSlack = 0
    FirstTries = 1
    DutyTries = 1
    MaxReq = 2
    MaxInflight = 0
    SweepPasses = 3
    VerifyRounds = 1
INVARIANTS
    TypeOK
    CleanGridHonest
    WakeDoneExact
    AllRunningExact
