SPECIFICATION Spec
CONSTANTS
    MaxExecutions = 2
    MaxSteps = 2
    MaxDepth = 2
    HostCalls <- MCAllCalls
    HandlersMayRaise = FALSE
    None = None
INVARIANTS TypeOK NoStepSkipped CompletedHasAllResults RunningHasRunner
PROPERTY OnlyResumeRestarts
