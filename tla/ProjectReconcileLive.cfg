SPECIFICATION FairSpec
CONSTANTS
    NumServices = 1
    Specs <- MCLiveSpecs
    MaxGeneration = 2
    MaxWatch = 3
    MaxDisturbances = 1
    MaxFaults = 0
INVARIANTS
    TypeOK
PROPERTIES
    ImplementsStatusContract
    EventuallyConverges
    BadCredentialsReported
CHECK_DEADLOCK FALSE
