CONSTANTS
    Path = {a, b}
    MaxCups = 1
    MaxFaults = 1
    MaxJobs = 1
    MaxFiles = 2
SPECIFICATION DFairSpec
INVARIANTS
    DTypeOK
    HandoffComplete
    IInv
    QuietPageIsEmpty
    CleanStop
PROPERTIES
    ImplementsLifecycle
    Terminates
CHECK_DEADLOCK FALSE
