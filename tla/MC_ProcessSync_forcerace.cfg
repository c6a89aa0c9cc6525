\* A forceResync sync racing an ordinary sync of the same wallet.
CONSTANTS
    w1 = w1
    w2 = w2
    p = p
    o = o
    Workers <- MCWorkers
    Nodes <- MCNodes
    Primary = p
    MaxClock = 2
    ExportWindow = 1
    MaxFailureCountBeforeSkip = 2
    ForceResyncChoices <- AnyForceResync
    MaxCrashes = 0
SPECIFICATION Spec
SYMMETRY WorkerSymmetry
INVARIANT ClockLogDense
