SPECIFICATION Spec
CONSTANTS
    Procs = {p1, p2}
    Configs <- MCPlain
    Repositories <- MCEmpty
    LayerCut = {"b"}
    TargetLayerBytes = 2
    MinLayerBytes = 1
    MaxDataLayers = 3
    FallbackAt = 2
    MinChunkSize = 1
    DefaultLevel = 3
    DefaultParams = 1
    SharedTemp = TRUE
    MaxRuns = 2
    MaxFaults = 0
    None = None
SYMMETRY Symmetry
INVARIANTS
    PublishedIsDescribed
CHECK_DEADLOCK FALSE
