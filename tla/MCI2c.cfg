SPECIFICATION I2cSpec
CONSTANTS
    a1 = a1
    a2 = a2
    a3 = a3
    d1 = d1
    d2 = d2
    Addresses <- MCAddresses
    Parts <- MCParts
    Handles <- MCHandles
    CacheSize = 2
    NoAddress = NoAddress
    p219 = p219
    p226 = p226
    q226 = q226
    p237 = p237
    pexp = pexp
    Unaddressed = Unaddressed
    PartAddresses <- MCPartAddresses
    PartAt <- MCPartAt
    LazyKinds <- MCLazyKinds
    MaxDevices = 1
    MaxObjects = 2
    Shunts <- MCShunts
    DefaultShunt <- MCDefault
    Masks <- MCMasks
INVARIANTS
    TransferReachesItsPart
    BusInOrder
    TablesInOrder
    ReadingsCalibrated
