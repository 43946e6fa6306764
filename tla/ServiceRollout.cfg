SPECIFICATION Spec
CONSTANTS
    NumServices = 2
    Rest = 2
    NumRefs = 2
    NumBundles = 2
    Invalid <- MCInvalid
    MaxChanges = 2
    MaxRestarts = 1
INVARIANTS
    TypeOK
    PodsNotBehind
    OnlyValidated
    RestsRolled
    RestsServed
CHECK_DEADLOCK FALSE
