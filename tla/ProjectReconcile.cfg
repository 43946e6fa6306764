SPECIFICATION Spec
CONSTANTS
    NumServices = 1
    Specs <- MCSpecs
    MaxGeneration = 2
    MaxWatch = 3
    MaxDisturbances = 1
    MaxFaults = 1
INVARIANTS
    ObservedGenerationApplied
    NeverReadyWithBadCredentials
    QuiescentMeansConverged
CHECK_DEADLOCK FALSE
