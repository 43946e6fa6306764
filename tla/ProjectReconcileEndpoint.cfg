SPECIFICATION Spec
CONSTANTS
    NumServices = 1
    Specs <- MCSpecs
    MaxGeneration = 2
    MaxWatch = 3
    MaxDisturbances = 1
    MaxFaults = 0
INVARIANT
    RunningHasApiEndpoint
CHECK_DEADLOCK FALSE
