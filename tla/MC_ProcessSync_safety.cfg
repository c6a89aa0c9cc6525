\* Ordinary syncs (forceResync = false) racing on one wallet.
CONSTANTS
    w1 = w1
    w2 = w2
    p = p
    o = o
    Workers <- MCWorkers
    Nodes <- MCNodes
    Primary = p
    MaxClock = 2
    ExportWindow = 1
    MaxFailureCountBeforeSkip = 2
    ForceResyncChoices <- NoForceResync
    MaxCrashes = 0
SPECIFICATION Spec
SYMMETRY WorkerSymmetry
INVARIANTS
    TypeOK
    ClockLogDense
    DenseInductive
    ContentPresentUnlessSkipped
PROPERTY ReplicaLogSpec
