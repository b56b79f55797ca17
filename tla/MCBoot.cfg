SPECIFICATION FairSpec
CHECK_DEADLOCK FALSE
CONSTANTS
    factory = factory
    newer = newer
    broken = broken
    v1 = v1
    v2 = v2
    bad = bad
    NoImage = NoImage
    NoFile = NoFile
    Images <- MCImages
    Factory = factory
    CrashesAt <- MCCrashesAt
    Docs <- MCDocs
    FailsIn <- MCFailsIn
    WithPassword <- MCWithPassword
    FirstFiles <- MCFirstFiles
    MaxEvents = 6
INVARIANTS
    ConfirmedHasStarted
    StoredIsAckedAndLoads
PROPERTY ComesUp
