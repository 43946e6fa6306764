SPECIFICATION Spec
CONSTANTS
    Specs <- MCSpecs
    Legacy = FALSE
    StaleReads = FALSE
    MaxEdits = 2
    MaxIncarnations = 2
INVARIANTS
    RecoverySourceRetained
    SettledConverged
CHECK_DEADLOCK FALSE
