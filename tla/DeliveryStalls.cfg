SPECIFICATION Spec
CONSTANTS
    N = 2
    BestEffort = {}
    OnError = {}
    MaxRetries = 5
    Backoff <- MCBackoff
    Budget = 12
    MaxRestarts = 1
    MaxRecoveries = 2
PROPERTIES
    QueueEmpties
