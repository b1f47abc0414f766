SPECIFICATION FairSpec
CONSTANTS
    Processes = {p1}
    Modes = {"full", "work", "job"}
    Entries = {e1, e2, e3, e4}
    Jobs = {fetch, clean}
    JobOf <- Morning
    LockedJobs = {fetch}
    Concurrency = 3
    MaxRetry <- OneRetried
    MaxOverruns = 1
    None = None
INVARIANT TypeOK
INVARIANT OneMorePerOverrun
INVARIANT StopIsClean
INVARIANT SuccessMeansRun
PROPERTY FiringEnds
PROPERTY StopReturns
