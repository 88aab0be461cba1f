SPECIFICATION FairSpec
CONSTANTS
    Calls = {c1, c2, c3}
    NoRow = NoRow
    k1 = k1
    k2 = k2
    Keys = {k1, k2}
    NoKey = NoKey
    n1 = n1
    n2 = n2
    Names = {n1, n2}
    d1 = d1
    d2 = d2
    Sums = {d1, d2}
    p1 = p1
    p2 = p2
    p3 = p3
    Paths = {p1, p2, p3}
    NoPath = NoPath
    Stored <- MCStored
    Requests <- MCRequests
    MaxActive = 2
    MaxLost = 1
    MaxFailures = 1
CHECK_DEADLOCK FALSE
INVARIANTS
    OneOutcome
    BundlesWhole
    AnswersAudited
    UploadsVerified
PROPERTIES
    CallsEnd
    ImplementsIntake
