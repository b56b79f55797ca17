SPECIFICATION FairSpec
CONSTANTS
    t1 = t1
    t2 = t2
    shell = shell
    Tasks <- MCTasks
    Executor = shell
    Channels <- MCChannels
    WriteTicks = 3
    ReportTicks = 8
    MinBlocks = 1
    MaxBlocks = 3
    SMP = FALSE
INVARIANTS
    OneSignalOwner
PROPERTIES
    StopMeansFinished
    LeaseKept
    CommandReturns
    StopEndsPlayback
