\* Traffic simulated while the last agents still wake: the burst never ends.
SPECIFICATION Spec
CONSTANTS
    TOTAL = 2
    DUTY_WORKERS = 2
    SUSPEND_CAP = 1
    MAX_INFLIGHT = 1
    POOL_CAP = 1
    Calls = {"burst", "simulate"}
    MaxCalls = 3
    MaxSteady = 0
    MaxDuty = 0
    Bursts <- HeldBursts
PROPERTIES
    BusyEnds
CHECK_DEADLOCK FALSE
