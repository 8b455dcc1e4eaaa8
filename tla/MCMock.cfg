SPECIFICATION Spec
CONSTANTS
    TOTAL = 2
    DUTY_WORKERS = 1
    SUSPEND_CAP = 1
    MAX_INFLIGHT = 2
    POOL_CAP = 1
    Calls = {"burst", "simulate", "strategy", "suspend", "reconcile", "fail_rate", "drain_late", "suspend_fail_rate", "pods", "reset", "traffic"}
    MaxCalls = 4
    MaxSteady = 1
    MaxDuty = 1
    Bursts <- AskedBursts
INVARIANTS
    TypeOK
    QuietWhenIdle
    WakeAccounted
    AdmissionExact
    NoIdleSlotWhileQueued
    WorkersBusy
PROPERTIES
    NoSuspendBeforeReplies
CHECK_DEADLOCK FALSE
