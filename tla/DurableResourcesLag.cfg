SPECIFICATION Spec
CONSTANTS
    Specs <- MCSpecs
    Legacy = TRUE
    StaleReads = TRUE
    MaxEdits = 1
    MaxIncarnations = 2
INVARIANTS
    TypeOK
    NothingToCollect
PROPERTIES
    ForeignUntouched
    BootstrapImmutable
CHECK_DEADLOCK FALSE
