SPECIFICATION MCSpec
CONSTANTS
    p1 = p1
    p2 = p2
    l1 = l1
    l2 = l2
    l3 = l3
    NoLink = NoLink
    Procs = {p1, p2}
    Layers = {l1, l2, l3}
    StoredBytes <- MCStoredBytes
    CacheSize = 2
    EphemeralLayerCap = 1
    MaxFaults = 1
    Plain <- MCPlain
    LayerOf <- MCLayerOf
    Entries <- MCEntries
    Commands <- MCCommands
INVARIANTS
    SuccessIsTrue
    OnlyVerifiedBytes
    IntactRestores
    CachedWhole
    CacheBounded
CHECK_DEADLOCK FALSE
