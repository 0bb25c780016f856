SPECIFICATION Spec
CONSTANTS
    N = 2
    BestEffort = {}
    OnError = {}
    MaxRetries = 3
    Backoff <- MCBackoff
    Budget = 150
    MaxRestarts = 1
    MaxRecoveries = 2
INVARIANTS
    NothingLost
PROPERTIES
    QueueEmpties
