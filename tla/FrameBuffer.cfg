SPECIFICATION FairSpec
CONSTANTS
    Size = 2
    MaxWrite = 3
    MaxBytes = 7
    Quota = 5
INVARIANTS
    DeclaredIsSent
PROPERTIES
    IsByteSink
    AttemptEnds
CHECK_DEADLOCK FALSE
