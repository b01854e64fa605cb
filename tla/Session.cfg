SPECIFICATION Spec
CONSTANTS
    d1 = d1
    d2 = d2
    Digests = {d1, d2}
    BlobSize <- MCSize
    Junk = Junk
    MaxSize = 3
    MaxCount = 3
    MaxLayers = 2
    MaxBytes = 3
    MaxStream = 4
INVARIANTS
    PublishedVerified
    NothingOutlives
CHECK_DEADLOCK FALSE
