SPECIFICATION FairSpec
CONSTANTS
    Versions = {v1, v2}
    NoVersion = NoVersion
    TheModel = TheModel
    Calls = {c1, c2}
    Requests = {r1}
INVARIANTS
    InUse
    Aggregate
PROPERTIES
    NoNewVersionWhenDeleted
    VersionFinal
    TransactionsEnd
