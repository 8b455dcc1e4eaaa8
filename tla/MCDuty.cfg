SPECIFICATION Spec
CONSTANTS
    N = 2
    Workers = {w1}
    w1 = w1
    MaxBursts = 1
    BurstArgs <- HoldBody
    Commands = {"simulate", "suspend", "traffic", "strategy"}
    Rates = {1}
    Faults = {"checkpoint", "lost"}
    InitAte = {"SUSPENDED"}
    AutoTraffic = TRUE
    LlmAfterAll = FALSE
    OverloadRate = 0
    SuspCap = 1
    DutyTarget = 1
    WakeSlack = 1
    PauseSlack = 0
    FirstTries = 2
    DutyTries = 1
    MaxReq = 1
    MaxInflight = 0
    SweepPasses = 2
    VerifyRounds = 1
INVARIANTS
    NoLateDutyOp
    OneOperationPerAgent
    UpCountsSandboxes
    RequestingHasRequest
    NeverMidRequest
    CleanGridHonest
PROPERTIES
    AllSuspendedHonest
