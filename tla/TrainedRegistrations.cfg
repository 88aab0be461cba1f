SPECIFICATION FairSpec
CONSTANTS
    Regs = {r1, r2}
    NoReg = NoReg
    Existing = Existing
    Named = Named
    NoModel = NoModel
    Calls = {c1, c2}
    Contents = {Right}
    Right = Right
    MaxLost = 1
INVARIANTS
    ReceiptBacked
    InHand
PROPERTIES
    ImplementsOutcome
    NoVersionUnderDeleted
    CallsEnd
