SPECIFICATION FairSpec
CONSTANTS
    Processes = {p1}
    Digests = {d1, d2}
    SomeTicker = hpg
    TickerOf <- OneTicker
    Chats = {c1, c2}
    ChannelSize = 1
    FailingCalls = {"watchlist", "send", "lostSend", "hang", "full", "disconnect", "crash"}
    MaxFaults = 2
    MaxStops = 1
    None = None
INVARIANT TypeOK
INVARIANT OnlyFailedAreMissed
INVARIANT OncePerProcess
PROPERTY AlertArrives
