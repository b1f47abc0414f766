SPECIFICATION FairSpec
CONSTANTS
    Drafts = {d1, d2}
    Tickers = {A}
    TickerOf <- OneTicker
    Replicas = {r1}
    FullReplicas = {r1}
    RetryLimit = 1
    MaxFaults = 0
    QueueCap = 2
    None = None
    FailingCalls = {}
PROPERTY AbandonedTickerRescued
