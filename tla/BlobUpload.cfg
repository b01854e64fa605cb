SPECIFICATION FairSpec
CONSTANTS
    ChunkSize = 2
    MaxWrite = 3
    MaxBytes = 9
PROPERTIES
    IsByteSink
    CallsReturn
CHECK_DEADLOCK FALSE
