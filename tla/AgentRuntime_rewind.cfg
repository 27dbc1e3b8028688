SPECIFICATION Spec
CONSTANTS
    MaxExecutions = 1
    MaxSteps = 2
    MaxDepth = 2
    HostCalls <- MCPauseResume
    HandlersMayRaise = FALSE
    None = None
INVARIANT CompletedIsAtEnd
