\* FileProcessingQueue: a job with no named processor (no crash).
CONSTANTS
    r1 = r1
    r2 = r2
    Requests <- MCRequests
    Impl = "file"
    MaxConcurrency = 1
    MaxStalledCount = 1
    MaxCrashes = 0
SPECIFICATION Spec
SYMMETRY RequestSymmetry
INVARIANT FinishedJobHasTerminalStatus
CHECK_DEADLOCK FALSE
