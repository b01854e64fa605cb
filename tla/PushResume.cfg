SPECIFICATION FairSpec
CONSTANTS
    Images <- TwoPlatforms
    Jobs = 2
    MaxRetries = 1
    Resume = TRUE
    Verify = TRUE
    SizeReported = TRUE
    Collects = TRUE
    MaxFaults = 2
INVARIANTS
    ManifestsAreClosed
    CheckpointIsConfirmed
    OkMeansComplete
PROPERTIES
    ResumeCompletes
CHECK_DEADLOCK FALSE
