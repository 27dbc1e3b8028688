SPECIFICATION Spec
CONSTANTS
    MaxExecutions = 1
    MaxSteps = 1
    MaxDepth = 1
    HostCalls <- MCCancel
    HandlersMayRaise = FALSE
    None = None
PROPERTY CancelledIsFinal
