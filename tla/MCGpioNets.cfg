CONSTANTS
    GpioPins <- MCPins
    Reserved <- MCReserved
    Requests <- MCRequests
    Boards <- MCBoards
    Limit = 13
    Latency = 1
    MaxBus = 3
    ByHand <- MCByHand
    References <- MCReferences
SPECIFICATION FairSpec
INVARIANTS
    PinsInOrder
    ShortsAreReal
    CrossingIsTheEdge
    
PROPERTIES
    ScanEnds
