SPECIFICATION Spec
CONSTANTS
    N = 2
    OneShot = {1}
    DeleteAfterRun = {1}
    At <- OneShotAt
    Period = 1
    Backoff <- OneBackoff
    StuckRun = 120
    MaxScheduleErrors = 2
    MaxFailures = 2
    MaxNow = 1
    MaxOps = 3
    MaxSharedOps = 1
    MaxServices = 2
INVARIANTS SchedulerAlive MarkerIsOwned
PROPERTIES OneShotRunsOnce DueJobRuns
CHECK_DEADLOCK FALSE
