SPECIFICATION Spec
CONSTANTS
    Workers = {w1, w2}
    NoWorker = NoWorker
    Contents = {c1, c2}
    NoContent = NoContent
    MaxAttempts = 2
    MaxFaults = 1
    MaxPodFailures = 0
    MaxUserRetries = 0
INVARIANTS
    CompletedInPlace
CHECK_DEADLOCK FALSE
