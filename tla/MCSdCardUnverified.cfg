SPECIFICATION CardSpec
CONSTANTS
    wiring1 = wiring1
    wiring2 = wiring2
    PinSets <- MCPinSets
    NoPins = NoPins
    MaxBlocks = 3
    MaxLog = 2
    Ladder <- SweepLadder
    Baseline = 20000
    MaxFailures = 3
    MaxDuplicates = 3
    OpenFreqs <- SweepOpenFreqs
    Ceilings <- SweepCeilings
    Actual <- SdHostClock
INVARIANT
    WrittenWhenVerified
