SPECIFICATION FairSpec
CONSTANTS
    SchemaLists <- MCSchemaLists
    MaxRules = 2
    MaxEdits = 2
    MaxFailures = 1
INVARIANTS
    TypeOK
    PublishedBeforePowerSync
    RestsConverged
PROPERTY
    EventuallyObserved
CHECK_DEADLOCK FALSE
