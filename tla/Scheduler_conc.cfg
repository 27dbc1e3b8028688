SPECIFICATION Spec
CONSTANTS
    Threads = {t1, t2}
    Depth <- MCOneNests
    Ids = {a}
    Triggers <- MCOnceAndInterval
    Priorities = {0}
    Day = 2
    MaxTime = 1
    MaxSchedules = 2
    HandlersMayRaise = TRUE
    None = None
INVARIANTS TypeOK HolderCanRelease NoResurrection NextRunFromOwnTrigger
PROPERTY OnlyResumeEnables
