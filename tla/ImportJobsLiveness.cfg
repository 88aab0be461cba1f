SPECIFICATION FairSpec
CONSTANTS
    Workers = {w1, w2}
    NoWorker = NoWorker
    Contents = {c1}
    NoContent = NoContent
    MaxAttempts = 2
    MaxFaults = 1
    MaxPodFailures = 1
    MaxUserRetries = 1
PROPERTIES
    Completes
    ExecutionsEnd
CHECK_DEADLOCK FALSE
