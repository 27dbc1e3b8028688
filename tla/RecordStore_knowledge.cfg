SPECIFICATION Spec
CONSTANTS
    Threads = {t1, t2}
    Keys = {a, b}
    Files = {1, 2}
    Operations <- MCKnowledgeOperations
    Expiries <- MCNever
    Serializable = {TRUE}
    SavesMayFail = FALSE
    MaxWrites = 5
    MaxTime = 0
    None = None
SYMMETRY MCSymmetry
INVARIANT RecordsSurvive
PROPERTY VersionsGrow
