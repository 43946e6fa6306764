SPECIFICATION Spec
CONSTANTS
    SchemaLists <- MCSchemaLists
    MaxRules = 1
    MaxEdits = 2
    MaxFailures = 0
INVARIANT
    PermissionsBeforePowerSync
CHECK_DEADLOCK FALSE
