SPECIFICATION FairSpec
CONSTANTS
    Threads = {t1, t2}
    Keys = {a, b}
    Files = {1}
    Operations <- MCMemoryOperations
    Expiries <- MCAtOneOrNever
    Serializable = {TRUE, FALSE}
    SavesMayFail = TRUE
    MaxWrites = 3
    MaxTime = 1
    None = None

INVARIANTS TypeOK RecoversAcknowledged AnnouncedIsDurable
PROPERTIES VersionsGrow CallsReturn
