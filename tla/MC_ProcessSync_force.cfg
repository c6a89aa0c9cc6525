\* Ordinary and forceResync syncs racing on one wallet: what survives the
\* delete that forceResync performs outside the transaction.
CONSTANTS
    w1 = w1
    w2 = w2
    p = p
    o = o
    Workers <- MCWorkers
    Nodes <- MCNodes
    Primary = p
    MaxClock = 1
    ExportWindow = 0
    MaxFailureCountBeforeSkip = 2
    ForceResyncChoices <- AnyForceResync
    MaxCrashes = 1
SPECIFICATION Spec
SYMMETRY WorkerSymmetry
INVARIANTS
    ContentPresentUnlessSkipped
