\* Repeated syncs from the primary (Snapback), with fair workers, a primary
\* that eventually answers, and content fetches that may fail forever.
CONSTANTS
    w1 = w1
    w2 = w2
    p = p
    o = o
    Workers <- MCWorkers
    Nodes <- MCPrimaryOnly
    Primary = p
    MaxClock = 2
    ExportWindow = 1
    MaxFailureCountBeforeSkip = 2
    ForceResyncChoices <- NoForceResync
    MaxCrashes = 1
SPECIFICATION FairSpec
PROPERTY SecondaryConverges
