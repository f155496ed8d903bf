CONSTANTS
    Path = {a}
    MaxCups = 1
    MaxFaults = 0
    MaxJobs = 1
    MaxFiles = 1
SPECIFICATION Spec
PROPERTY
    PostedOnChange
