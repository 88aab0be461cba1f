SPECIFICATION Spec
CONSTANTS
    o1 = o1
    Owners = {o1}
    NoOwner = NoOwner
    Versions = {v1}
    NoVersion = NoVersion
    Lease = 2
    RetryAfter = 1
    Tasks = {t1, t2}
    NoTask = NoTask
    Workers = {w1, w2}
    OwnerOf <- SharedOwner
    Contents = {c1, c2}
    NoContent = NoContent
    NoArtifact = NoArtifact
    Batch = 1
    MaxAttempts = 1
    MaxFaults = 1
    MaxUserRetries = 1
SYMMETRY WorkerSymmetry
INVARIANTS
    ReadyVerified
    CompletedOnlyReady
    ErrorRecoverable
PROPERTIES
    ReadyIsFinal
CHECK_DEADLOCK FALSE
