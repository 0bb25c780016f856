SPECIFICATION Spec
CONSTANTS
    Runs = {1, 2}
    Expecting = {1}
    DeleteRuns = {2}
    MaxRetryCount = 3
    Archive = TRUE
    MaxTimers = 2
    MaxCrashes = 1
INVARIANTS AnnouncedOnce AttemptsAreBounded
PROPERTIES SuppressedIsSilent OpenRunsClose
CHECK_DEADLOCK FALSE
