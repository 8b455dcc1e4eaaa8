\* A script that keeps the result directories, started a second time.
SPECIFICATION Spec
CONSTANTS
    Scenarios <- MC_Upgraded
    Campaigns = {"a", "b"}
CHECK_DEADLOCK FALSE
INVARIANT
    ResultIsOfThisAttempt
