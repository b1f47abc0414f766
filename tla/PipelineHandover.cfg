SPECIFICATION Spec
CONSTANTS
    Drafts = {d1, d2}
    Tickers = {A}
    TickerOf <- OneTicker
    Replicas = {r1, r2}
    FullReplicas = {r1}
    RetryLimit = 1
    MaxFaults = 2
    QueueCap = 2
    None = None
    FailingCalls = {"getDraft", "extractFact", "saveFacts", "count", "trigger", "markFailed", "listPending", "enqueue", "mark", "listReady", "rescue", "release", "lockExpiry"}
SYMMETRY AlikeDrafts
INVARIANT TypeOK
INVARIANT NoStrandedTicker
INVARIANT NoSelfDuplicate
INVARIANT AlertBeforeCleanup
PROPERTY ImplementsWriters
