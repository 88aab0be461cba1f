SPECIFICATION RuntimeSpec
CONSTANTS
    DueTasks = {t1, t2}
    MaxScanErrors = 1
    MaxRestarts = 1
INVARIANTS
    NoLostWakeup
    ReadyBacked
PROPERTIES
    TasksListed
    StopEnds
CHECK_DEADLOCK FALSE
