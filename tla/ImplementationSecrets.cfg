SPECIFICATION Spec
CONSTANTS
    NumGenerated = 1
    Values <- MCValues
    Specs <- MCSpecs
    MaxChanges = 1
INVARIANTS
    TypeOK
    ReportedNotCollectable
    RestsComplete
    RestsRolled
CHECK_DEADLOCK FALSE
