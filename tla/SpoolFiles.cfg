CONSTANTS
    Ext = {jpg, png}
    MaxJobs = 1
    MaxTemps = 3
    MaxRuns = 2
SPECIFICATION Spec
INVARIANTS
    TypeOK
    NothingLeaks
    NoOldContent
PROPERTY
    HandedIsKept
CHECK_DEADLOCK FALSE
