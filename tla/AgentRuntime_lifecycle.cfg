SPECIFICATION FairSpec
CONSTANTS
    MaxExecutions = 2
    MaxSteps = 2
    MaxDepth = 2
    HostCalls <- MCStartPause
    HandlersMayRaise = TRUE
    None = None
INVARIANT CompletedIsAtEnd
PROPERTIES StepsRunOnce CallsEnd IsLifecycle
