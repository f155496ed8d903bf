CONSTANTS
    Path = {a}
    MaxCups = 1
    MaxFaults = 1
    MaxJobs = 1
    MaxFiles = 1
SPECIFICATION Spec
INVARIANT
    DoneMeansOver
