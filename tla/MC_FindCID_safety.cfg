\* Two concurrent lookups over two days, peers that may fail in every way.
CONSTANTS
    c1 = c1
    c2 = c2
    n1 = n1
    n2 = n2
    n3 = n3
    Callers <- MCCallers
    PeerList <- MCPeerList
    ExcludeList <- MCExcludeList
    Responses <- AllResponses
    MaxDay = 1
SPECIFICATION Spec
SYMMETRY CallerSymmetry
INVARIANT TypeOK
INVARIANT OneLookupPerDay
CHECK_DEADLOCK FALSE
