SPECIFICATION FairSpec
CONSTANTS
    Articles = {a1, a2}
    Tickers = {t1}
    Mentions <- Everywhere
    Replicas = {r1, r2}
    Window = 1
    SeenTTL = 3
    FailingCalls = {"symbols", "since", "page", "seen", "find", "insert", "lostInsert", "revert", "metadata", "release", "crash", "lockExpiry"}
    MaxFaults = 1
    MaxNow = 4
    None = None
INVARIANT TypeOK
INVARIANT NothingPassedOver
PROPERTY NeverRedrafted
PROPERTY ListedGetsDrafted
