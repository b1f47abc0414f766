SPECIFICATION Spec
CONSTANTS
    Pages = {p1}
    Symbols = {hpg, ssi}
    Requests = {i1, i2}
    FailingCalls = {"get", "post", "lostReply"}
    MaxFaults = 2
    MaxDeletes = 1
    MaxLogins = 2
    None = None
SYMMETRY Alike
INVARIANT TypeOK
INVARIANT PageIsRight
INVARIANT SuccessWasStored
PROPERTY OnlyRemovedAreDropped
PROPERTY LoginHolds
