SPECIFICATION Spec
CONSTANTS
    BlockFrames = 2
    FileFrames = 3
    MaxFiles = 2
    MaxWindow = 3
    MaxTicks = 2
    MinAnalyse = 2
    MaxLevel = 2
INVARIANT
    HeardHasControl
