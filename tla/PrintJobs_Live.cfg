CONSTANTS
    Path = {a}
    MaxCups = 2
    MaxFaults = 0
    MaxJobs = 2
    MaxFiles = 1
SPECIFICATION FairSpec
INVARIANT
    IInv
PROPERTIES
    EndedIsReported
    PollQuiesces
    LoopReturns
