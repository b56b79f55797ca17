SPECIFICATION Spec
CONSTANTS
    t1 = t1
    t2 = t2
    shell = shell
    Tasks <- MCTasks
    Executor = shell
    Channels <- MCChannels
    WriteTicks = 2
    ReportTicks = 1
    MinBlocks = 1
    MaxBlocks = 2
    SMP = TRUE
INVARIANTS
    NoUseAfterDelete
