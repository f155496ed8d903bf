CONSTANTS
    Path = {a}
    MaxCups = 1
    MaxFaults = 1
    MaxJobs = 2
    MaxFiles = 2
SPECIFICATION Spec
INVARIANTS
    TypeOK
    NoUnwatchedJob
    LostReplyIsContained
    TruthfulOutcome
    PollCoversSubmitted
    FeedMatchesTable
PROPERTIES
    FinalIsFinal
    CallsRunOut
