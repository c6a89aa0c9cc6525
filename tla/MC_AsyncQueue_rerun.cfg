\* AsyncProcessingQueue: two jobs, one fetch loop, a crash after the DONE write.
CONSTANTS
    r1 = r1
    r2 = r2
    Requests <- MCRequests
    Impl = "async"
    MaxConcurrency = 1
    MaxStalledCount = 1
    MaxCrashes = 1
SPECIFICATION Spec
SYMMETRY RequestSymmetry
PROPERTY TerminalStatusStable
CHECK_DEADLOCK FALSE
