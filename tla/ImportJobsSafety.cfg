SPECIFICATION Spec
CONSTANTS
    Workers = {w1, w2}
    NoWorker = NoWorker
    Contents = {c1, c2}
    NoContent = NoContent
    MaxAttempts = 2
    MaxFaults = 1
    MaxPodFailures = 2
    MaxUserRetries = 2
SYMMETRY Symmetry
INVARIANTS
    LeftoversBounded
    CompletedStored
PROPERTIES
    ArtifactFinal
CHECK_DEADLOCK FALSE
