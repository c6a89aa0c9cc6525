\* AsyncProcessingQueue: two jobs, one fetch loop, up to three crashes,
\* fair scheduling of the handlers.
CONSTANTS
    r1 = r1
    r2 = r2
    Requests <- MCRequests
    Impl = "async"
    MaxConcurrency = 1
    MaxStalledCount = 1
    MaxCrashes = 3
SPECIFICATION FairSpec
INVARIANT TypeOK
INVARIANT HandlerOutcomeMatchesStatus
PROPERTY EventuallyFinished
PROPERTY FinishedJobFrozen
PROPERTY JobStatusSpec
\* Once every job is finished the queue is idle, as the code is.
CHECK_DEADLOCK FALSE
