SPECIFICATION Spec
CONSTANTS
    Processes = {p1}
    Modes = {"job"}
    Entries = {e1, e2}
    Jobs = {fetch, clean}
    JobOf <- Morning
    LockedJobs = {fetch}
    Concurrency = 2
    MaxRetry <- OneRetried
    MaxOverruns = 1
    None = None
INVARIANT ManualJobRuns
