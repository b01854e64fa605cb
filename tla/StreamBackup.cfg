SPECIFICATION Spec
CONSTANTS
  Unit = {a, b}
  ChunkCut = {b}
  LayerCut = {b}
  Dedup = TRUE
  RandomNonce = FALSE
  ChunkUnits = 2
  LayerBytes = 1
  MaxDataLayers = 3
  FallbackAt = 1
  MinChunkSize = 1
  MaxBytes = 4
  Estimated = 1
  MaxUnits = 5
  NoTag = NoTag
INVARIANTS
  WorkDirBound PipelineInv
PROPERTIES
  KeepsPromise AnswersEventually
CHECK_DEADLOCK FALSE
