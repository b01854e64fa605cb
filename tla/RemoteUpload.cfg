SPECIFICATION Spec
CONSTANTS
    Backoffs = 1
    Layers = 2
    Frames = 1
    MaxSessions = 1
INVARIANTS
    OkMeansPublished
    EndBelieved
PROPERTIES
    SlotsFreed
    UploadReturns
CHECK_DEADLOCK FALSE
