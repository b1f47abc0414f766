SPECIFICATION FairSpec
CONSTANTS
    Drafts = {d1, d2}
    Tickers = {A}
    TickerOf <- OneTicker
    Replicas = {r1}
    FullReplicas = {r1}
    RetryLimit = 1
    MaxFaults = 2
    QueueCap = 2
    None = None
    FailingCalls = {"getDraft", "extractFact", "saveFacts", "count", "trigger", "getExtracted", "synthesizeFacts", "createPublished", "requeue", "markFailed", "checkCount", "checkTrigger", "emit", "cleanup", "listPending", "enqueue", "mark", "listReady", "rescue", "release", "dequeue", "lostReply", "crash", "lockExpiry", "clear"}
PROPERTY ExtractedNeverLost
PROPERTY ImplementsLedger
PROPERTY QueueDrains
PROPERTY RescueReachesReady
