SPECIFICATION MCSpec
CONSTANTS
    Inodes = {1, 2, 3, 4, 5, 6, 7, 8, 9, 10, 11, 12}
    Top = 1
    None = 0
    Spares = {8, 9, 12}
    Outside = {10, 11}
    MaxChanges = 2
    MaxRefusals = 2
    MaxObjects = 12
INVARIANTS
    TarIsSound
    CleanMeansComplete
    VerdictIsHonest
    BystandersKept
    RoundTrip
    StreamCanEnd
CHECK_DEADLOCK FALSE
