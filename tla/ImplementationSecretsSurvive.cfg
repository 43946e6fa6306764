SPECIFICATION Spec
CONSTANTS
    NumGenerated = 1
    Values <- MCValues
    Specs <- MCSpecs
    MaxChanges = 1
INVARIANT
    ReportedSurvive
CHECK_DEADLOCK FALSE
