SPECIFICATION Spec
CONSTANTS
    MaxRuns = 2
    MaxFaults = 1
    MaxSlips = 1
    Requests <- MCRequests
INVARIANTS
    TypeOK
    AcceptedIsWhole
    ClipboardLeftClear
    ForwardedAsRole
    ServedEndToEnd
CHECK_DEADLOCK FALSE
