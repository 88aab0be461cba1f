SPECIFICATION FairSpec
CONSTANTS
    o1 = o1
    Owners = {o1}
    NoOwner = NoOwner
    Versions = {v1}
    NoVersion = NoVersion
    Lease = 2
    RetryAfter = 1
    Tasks = {t1}
    NoTask = NoTask
    Workers = {w1, w2}
    OwnerOf <- SharedOwner
    Contents = {c1}
    NoContent = NoContent
    NoArtifact = NoArtifact
    Batch = 1
    MaxAttempts = 2
    MaxFaults = 2
    MaxUserRetries = 1
INVARIANTS
    LeaseExclusive
    FailedOnlyExhausted
PROPERTIES
    ImplementsLifecycle
    TasksSettle
CHECK_DEADLOCK FALSE
