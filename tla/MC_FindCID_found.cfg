\* One day, peers that answer completely, with the file or other bytes.
CONSTANTS
    c1 = c1
    c2 = c2
    n1 = n1
    n2 = n2
    n3 = n3
    Callers <- MCCallers
    PeerList <- MCPeerList
    ExcludeList <- MCExcludeList
    Responses <- CompleteResponses
    MaxDay = 0
SPECIFICATION Spec
SYMMETRY CallerSymmetry
CHECK_DEADLOCK FALSE
INVARIANT FoundImpliesCopyOnDisk
