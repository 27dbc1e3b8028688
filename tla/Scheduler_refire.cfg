SPECIFICATION Spec
CONSTANTS
    Threads = {t1}
    Depth <- MCAllNest
    Ids = {a}
    Triggers <- MCOneShot
    Priorities = {0}
    Day = 2
    MaxTime = 1
    MaxSchedules = 1
    HandlersMayRaise = FALSE
    None = None
INVARIANT OneShotFiresOnce
