SPECIFICATION Spec
CONSTANTS
    Procs = {p1, p2}
    Configs <- MCConfigs
    Repositories <- MCRepositories
    LayerCut = {"b"}
    TargetLayerBytes = 1
    MinLayerBytes = 1
    MaxDataLayers = 3
    FallbackAt = 2
    MinChunkSize = 1
    DefaultLevel = 3
    DefaultParams = 1
    SharedTemp = FALSE
    MaxRuns = 2
    MaxFaults = 1
    None = None
SYMMETRY Symmetry
INVARIANTS
    PublishedIsDescribed
    SuccessLeavesNothing
    SealsAreSafe
    UnchangedIsSkipped
CHECK_DEADLOCK FALSE
