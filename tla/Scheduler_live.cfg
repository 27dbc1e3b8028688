SPECIFICATION FairSpec
CONSTANTS
    Threads = {t1}
    Depth <- MCFlat
    Ids = {a, b}
    Triggers <- MCOnceAndDaily
    Priorities = {0, 1}
    Day = 2
    MaxTime = 2
    MaxSchedules = 2
    HandlersMayRaise = TRUE
    None = None
INVARIANTS OneShotFiresOnce HigherPriorityFirst
PROPERTY DueIsServed
