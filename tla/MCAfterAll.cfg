SPECIFICATION FairSpec
CONSTANTS
    N = 2
    Workers = {w1}
    w1 = w1
    MaxBursts = 1
    BurstArgs <- OneAtATime
    Commands = {"suspend"}
    Rates = {}
    Faults = {}
    InitAte = {"SUSPENDED"}
    AutoTraffic = TRUE
    LlmAfterAll = TRUE
    OverloadRate = 0
    SuspCap = 1
    DutyTarget = 1
    WakeSlack = 1
    PauseSlack = 0
    FirstTries = 1
    DutyTries = 1
    MaxReq = 2
    MaxInflight = 0
    SweepPasses = 3
    VerifyRounds = 1
PROPERTIES
    OperationEnds
CHECK_DEADLOCK FALSE
