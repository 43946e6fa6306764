SPECIFICATION Spec
CONSTANTS
    Specs <- MCSpecs
    Legacy = FALSE
    StaleReads = TRUE
    MaxEdits = 1
    MaxIncarnations = 1
INVARIANT
    RecoverySourceRetained
CHECK_DEADLOCK FALSE
