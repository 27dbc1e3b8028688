SPECIFICATION Spec
CONSTANTS
    Threads = {t1}
    Keys = {a}
    Files = {1, 2}
    Operations <- MCKnowledgeOperations
    Expiries <- MCNever
    Serializable = {TRUE}
    SavesMayFail = TRUE
    MaxWrites = 3
    MaxTime = 0
    None = None
INVARIANT RecoversAcknowledged
